--------------------------- MODULE ModulesProofs ---------------------------
(***************************************************************************)
(* Modules are loaded, checked for cycles and resolved as they promise,    *)
(* for any set of programs a parser can hand out: TablesHold, CyclesCaught *)
(* and NamesMean.                                                          *)
(*                                                                         *)
(* None of them is inductive.  TablesHold says what a module on the stack  *)
(* can rely on; that holds because of how far each frame of the stack is   *)
(* (FrameShape) and what a module that was left has (Done).  CyclesCaught  *)
(* needs what the walk over the imports has been through: every import it  *)
(* is done with leads to no cycle (Checked).  And that a name means what   *)
(* the rules of imports say needs what a finished table was made of, and   *)
(* that the exports it was made with have not changed since (Made).        *)
(*                                                                         *)
(* The tables are made with folds, the rules follow imports with a         *)
(* recursive function; FoldFacts says what both give.                      *)
(***************************************************************************)
EXTENDS Modules, SequenceTheorems, FiniteSetTheorems, TLAPS

Joined(s, t) == s \o t
Grown(s, G)  == s \cup R!AllSuccessors(G, s)

Flattening == INSTANCE FoldFacts WITH Op <- Joined
Spreading  == INSTANCE FoldFacts WITH Op <- Grown

-----------------------------------------------------------------------------
\* A flattened sequence: every element of it is one element of one of the
\* sequences, row[p] and column[p], and the other way round.

Flattened(q, seqs, n, row, column) ==
  /\ \A p \in 1 .. Len(q) :
       /\ row[p] \in 1 .. n
       /\ column[p] \in 1 .. Len(seqs[row[p]])
       /\ q[p] = seqs[row[p]][column[p]]
  /\ \A i \in 1 .. n : \A k \in 1 .. Len(seqs[i]) :
       \E p \in 1 .. Len(q) : row[p] = i /\ column[p] = k
  /\ \A p, r \in 1 .. Len(q) : row[p] = row[r] /\ column[p] = column[r] => p = r

FlattenTable(f, seqs) ==
  f = [i \in 1 .. Len(seqs) |-> IF i = 1 THEN seqs[i] ELSE f[i - 1] \o seqs[i]]

LEMMA FlattenTableExists ==
  ASSUME NEW seqs, Len(seqs) \in Nat
  PROVE  \E f : FlattenTable(f, seqs)
<1> DEFINE D == 1 .. Len(seqs)
<1>1. 1 \in Int /\ Flattening!Segment(1, D)
  BY DEF Flattening!Segment
<1> HIDE DEF D
<1>2. PICK f : Flattening!Recursion(f, 1, seqs[1], seqs, D)
  BY <1>1, Flattening!RecursionExists
<1>3. f = [n \in D |-> IF n = 1 THEN seqs[n] ELSE f[n - 1] \o seqs[n]]
  <2>1. \A n \in D : f[n] = IF n = 1 THEN seqs[n] ELSE f[n - 1] \o seqs[n]
    BY <1>2 DEF Joined, Flattening!Recursion
  <2>2. f = [n \in D |-> f[n]]
    BY <1>2 DEF Flattening!Recursion
  <2> QED BY <2>1, <2>2
<1> QED BY <1>3 DEF FlattenTable, D

LEMMA FlattenedMore ==
  ASSUME NEW S, NEW n \in Nat, NEW seqs, NEW q \in Seq(S), NEW row, NEW column,
         Flattened(q, seqs, n, row, column), seqs[n + 1] \in Seq(S)
  PROVE  \E r, c : Flattened(q \o seqs[n + 1], seqs, n + 1, r, c)
<1> DEFINE t == seqs[n + 1]
           l == Len(q)
           m == Len(t)
           r == [p \in 1 .. l + m |-> IF p <= l THEN row[p] ELSE n + 1]
           c == [p \in 1 .. l + m |-> IF p <= l THEN column[p] ELSE p - l]
<1>1. l \in Nat /\ m \in Nat /\ Len(q \o t) = l + m
      /\ \A p \in 1 .. l + m : (q \o t)[p] = IF p <= l THEN q[p] ELSE t[p - l]
  BY LenProperties, ConcatProperties
<1>2. \A p \in 1 .. l + m : /\ r[p] = IF p <= l THEN row[p] ELSE n + 1
                            /\ c[p] = IF p <= l THEN column[p] ELSE p - l
  OBVIOUS
<1> HIDE DEF l, r, c
<1>3. ASSUME NEW p \in 1 .. l + m
      PROVE  /\ r[p] \in 1 .. n + 1 /\ c[p] \in 1 .. Len(seqs[r[p]])
             /\ (q \o t)[p] = seqs[r[p]][c[p]]
  <2>1. CASE p <= l
    <3>1. p \in 1 .. Len(q)
      BY <1>1, <2>1 DEF l
    <3>2. row[p] \in 1 .. n /\ column[p] \in 1 .. Len(seqs[row[p]])
          /\ q[p] = seqs[row[p]][column[p]]
      BY <3>1 DEF Flattened
    <3>3. r[p] = row[p] /\ c[p] = column[p] /\ (q \o t)[p] = q[p]
      BY <1>1, <1>2, <2>1
    <3>4. row[p] \in 1 .. n + 1
      BY <3>2
    <3> QED BY <3>2, <3>3, <3>4
  <2>2. CASE ~(p <= l)
    <3>1. r[p] = n + 1 /\ c[p] = p - l /\ (q \o t)[p] = t[p - l] /\ p - l \in 1 .. m
      BY <1>1, <1>2, <2>2
    <3> QED BY <3>1
  <2> QED BY <2>1, <2>2
<1>4. ASSUME NEW i \in 1 .. n + 1, NEW k \in 1 .. Len(seqs[i])
      PROVE  \E p \in 1 .. l + m : r[p] = i /\ c[p] = k
  <2>1. CASE i \in 1 .. n
    <3>1. PICK p \in 1 .. Len(q) : row[p] = i /\ column[p] = k
      BY <2>1 DEF Flattened
    <3>2. p \in 1 .. l + m /\ p <= l
      BY <1>1 DEF l
    <3> QED BY <1>2, <3>1, <3>2
  <2>2. CASE i = n + 1
    <3>1. l + k \in 1 .. l + m /\ ~(l + k <= l) /\ (l + k) - l = k
      BY <1>1, <2>2
    <3>2. r[l + k] = i /\ c[l + k] = k
      BY <1>2, <2>2, <3>1
    <3> QED BY <3>1, <3>2
  <2>3. QED
    <3>1. i \in 1 .. n \/ i = n + 1
      OBVIOUS
    <3> QED BY <2>1, <2>2, <3>1
<1>5. ASSUME NEW p \in 1 .. l + m, NEW s \in 1 .. l + m, r[p] = r[s], c[p] = c[s]
      PROVE  p = s
  <2>0. \A x \in 1 .. l + m : x <= l => r[x] \in 1 .. n
    BY <1>1, <1>2 DEF Flattened, l
  <2>1. CASE p <= l /\ s <= l
    <3>1. p \in 1 .. Len(q) /\ s \in 1 .. Len(q) /\ row[p] = row[s] /\ column[p] = column[s]
      BY <1>1, <1>2, <1>5, <2>1 DEF l
    <3> QED BY <3>1 DEF Flattened
  <2>2. CASE ~(p <= l) /\ ~(s <= l)
    BY <1>1, <1>2, <1>5, <2>2
  <2>3. CASE p <= l /\ ~(s <= l)
    BY <1>1, <1>2, <1>5, <2>0, <2>3
  <2>4. CASE ~(p <= l) /\ s <= l
    BY <1>1, <1>2, <1>5, <2>0, <2>4
  <2> QED BY <2>1, <2>2, <2>3, <2>4
<1> HIDE DEF m
<1>6. Flattened(q \o t, seqs, n + 1, r, c)
  BY <1>1, <1>3, <1>4, <1>5 DEF Flattened
<1> QED BY <1>6

LEMMA FlattenPlaces ==
  ASSUME NEW S, NEW seqs \in Seq(Seq(S))
  PROVE  /\ FlattenSeq(seqs) \in Seq(S)
         /\ \E row, column : Flattened(FlattenSeq(seqs), seqs, Len(seqs), row, column)
<1> DEFINE N == Len(seqs)
<1>1. N \in Nat /\ \A i \in 1 .. N : seqs[i] \in Seq(S)
  BY LenProperties
<1>2. CASE N = 0
  <2>1. FlattenSeq(seqs) = seqs
    BY <1>2 DEF FlattenSeq
  <2>2. seqs = <<>>
    BY <1>2, EmptySeq
  <2>3. seqs \in Seq(S) /\ Len(seqs) = 0
    BY <2>2
  <2>4. Flattened(seqs, seqs, 0, 0, 0)
    BY <2>3 DEF Flattened
  <2> QED BY <2>1, <2>3, <2>4
<1>3. CASE N # 0
  <2> DEFINE f == CHOOSE g : FlattenTable(g, seqs)
  <2>1. FlattenTable(f, seqs)
    BY <1>1, FlattenTableExists
  <2>2. FlattenSeq(seqs) = f[N]
    BY <1>3 DEF FlattenSeq, FlattenTable
  <2>3. \A i \in 1 .. N : f[i] = IF i = 1 THEN seqs[i] ELSE f[i - 1] \o seqs[i]
    BY <2>1 DEF FlattenTable
  <2> HIDE DEF f, N
  <2> DEFINE T == {n \in Nat : n + 1 \in 1 .. N =>
                     /\ f[n + 1] \in Seq(S)
                     /\ \E row, column : Flattened(f[n + 1], seqs, n + 1, row, column)}
  <2>4. 0 \in T
    <3>1. SUFFICES ASSUME 1 \in 1 .. N
                   PROVE  /\ f[1] \in Seq(S)
                          /\ \E row, column : Flattened(f[1], seqs, 1, row, column)
      OBVIOUS
    <3>2. f[1] = seqs[1] /\ seqs[1] \in Seq(S)
      BY <1>1, <2>3, <3>1
    <3> DEFINE row == [p \in 1 .. Len(seqs[1]) |-> 1]
               column == [p \in 1 .. Len(seqs[1]) |-> p]
    <3>3. \A p \in 1 .. Len(seqs[1]) : row[p] = 1 /\ column[p] = p
      OBVIOUS
    <3> HIDE DEF row, column
    <3>4. Flattened(seqs[1], seqs, 1, row, column)
      BY <3>3 DEF Flattened
    <3> QED BY <3>2, <3>4
  <2>5. ASSUME NEW n \in Nat, n \in T PROVE n + 1 \in T
    <3>1. SUFFICES ASSUME (n + 1) + 1 \in 1 .. N
                   PROVE  /\ f[(n + 1) + 1] \in Seq(S)
                          /\ \E row, column :
                               Flattened(f[(n + 1) + 1], seqs, (n + 1) + 1, row, column)
      OBVIOUS
    <3> DEFINE m == n + 1
    <3>2. m \in Nat /\ m \in 1 .. N /\ m + 1 # 1 /\ (m + 1) - 1 = m
      BY <1>1, <3>1
    <3>3. f[m] \in Seq(S) /\ \E row, column : Flattened(f[m], seqs, m, row, column)
      BY <2>5, <3>2
    <3>4. f[m + 1] = f[m] \o seqs[m + 1] /\ seqs[m + 1] \in Seq(S)
      BY <1>1, <2>3, <3>1, <3>2
    <3> HIDE DEF m
    <3>5. f[m + 1] \in Seq(S)
      BY <3>3, <3>4
    <3>6. \E row, column : Flattened(f[m + 1], seqs, m + 1, row, column)
      BY <3>2, <3>3, <3>4, FlattenedMore
    <3> QED BY <3>5, <3>6 DEF m
  <2> HIDE DEF T
  <2>6. \A n \in Nat : n \in T
    BY <2>4, <2>5, Flattening!Induct
  <2>7. N - 1 \in Nat /\ (N - 1) + 1 = N /\ N \in 1 .. N
    BY <1>1, <1>3
  <2>8. N - 1 \in T
    BY <2>6, <2>7
  <2>9. f[N] \in Seq(S) /\ \E row, column : Flattened(f[N], seqs, N, row, column)
    BY <2>7, <2>8 DEF T
  <2> QED BY <2>2, <2>9 DEF N
<1> QED BY <1>2, <1>3

-----------------------------------------------------------------------------
\* What From computes: the least set with S that is closed under successors.

Closed(G, T) == \A x \in T : R!Successors(G, x) \subseteq T

WithinTable(f, G, S) ==
  f = [n \in Nat |-> IF n = 0 THEN S
                     ELSE LET s == f[n - 1] IN s \cup R!AllSuccessors(G, s)]

LEMMA WithinTableExists ==
  ASSUME NEW G, NEW S
  PROVE  \E f : WithinTable(f, G, S)
<1> DEFINE q == [n \in Nat |-> G]
<1>1. 0 \in Int /\ Spreading!Segment(0, Nat)
  BY DEF Spreading!Segment
<1>2. \A n \in Nat : q[n] = G
  OBVIOUS
<1> HIDE DEF q
<1>3. PICK f : Spreading!Recursion(f, 0, S, q, Nat)
  BY <1>1, Spreading!RecursionExists
<1>4. \A n \in Nat : f[n] = IF n = 0 THEN S
                            ELSE LET s == f[n - 1] IN s \cup R!AllSuccessors(G, s)
  BY <1>2, <1>3 DEF Spreading!Recursion, Grown
<1>5. f = [n \in Nat |-> f[n]]
  BY <1>3 DEF Spreading!Recursion
<1>6. WithinTable(f, G, S)
  BY <1>4, <1>5 DEF WithinTable
<1> QED BY <1>6

LEMMA SameCardinality == \A S : R!Cardinality(S) = Cardinality(S)
BY DEF R!Cardinality, Cardinality

LEMMA FromIsWithin ==
  ASSUME NEW G, NEW S
  PROVE  \E f : WithinTable(f, G, S) /\ R!From(G, S) = f[Cardinality(G.node)]
<1> DEFINE f == CHOOSE g : WithinTable(g, G, S)
<1>1. WithinTable(f, G, S)
  BY WithinTableExists
<1>2. R!From(G, S) = f[Cardinality(G.node)]
  BY SameCardinality DEF R!From, WithinTable
<1> HIDE DEF f
<1> QED BY <1>1, <1>2

LEMMA FromLeastClosed ==
  ASSUME NEW G, IsFiniteSet(G.node), NEW S \in SUBSET G.node
  PROVE  /\ S \subseteq R!From(G, S)
         /\ R!From(G, S) \subseteq G.node
         /\ Closed(G, R!From(G, S))
         /\ \A T : S \subseteq T /\ Closed(G, T) => R!From(G, S) \subseteq T
<1> DEFINE N == Cardinality(G.node)
<1>1. N \in Nat
  BY FS_CardinalityType
<1>2. PICK f : WithinTable(f, G, S) /\ R!From(G, S) = f[N]
  BY FromIsWithin
<1> HIDE DEF N
<1>3. f[0] = S
  BY <1>2 DEF WithinTable
<1>4. \A n \in Nat : f[n + 1] = f[n] \cup R!AllSuccessors(G, f[n])
  <2>1. ASSUME NEW n \in Nat PROVE f[n + 1] = f[n] \cup R!AllSuccessors(G, f[n])
    <3>1. n + 1 \in Nat /\ n + 1 # 0 /\ (n + 1) - 1 = n
      OBVIOUS
    <3> QED BY <1>2, <3>1 DEF WithinTable
  <2> QED BY <2>1
<1>5. \A T : R!AllSuccessors(G, T) \subseteq G.node
  BY DEF R!AllSuccessors, R!Successors
<1>6. \A T : Closed(G, T) <=> R!AllSuccessors(G, T) \subseteq T
  BY DEF Closed, R!AllSuccessors
<1>7. \A n \in Nat : S \subseteq f[n] /\ f[n] \subseteq G.node
  <2> DEFINE U == {n \in Nat : S \subseteq f[n] /\ f[n] \subseteq G.node}
  <2>1. 0 \in U
    BY <1>3
  <2>2. ASSUME NEW n \in Nat, n \in U PROVE n + 1 \in U
    BY <1>4, <1>5, <2>2
  <2> HIDE DEF U
  <2>3. \A n \in Nat : n \in U
    BY <2>1, <2>2, Spreading!Induct
  <2> QED BY <2>3 DEF U
<1>8. \A n \in Nat : Closed(G, f[n]) \/ Cardinality(f[n]) >= n
  <2> DEFINE U == {n \in Nat : Closed(G, f[n]) \/ Cardinality(f[n]) >= n}
  <2>0. \A n \in Nat : IsFiniteSet(f[n]) /\ Cardinality(f[n]) \in Nat
    <3>1. ASSUME NEW n \in Nat PROVE IsFiniteSet(f[n]) /\ Cardinality(f[n]) \in Nat
      <4>1. f[n] \in SUBSET G.node
        BY <1>7
      <4>2. IsFiniteSet(f[n])
        BY <4>1, FS_Subset
      <4> QED BY <4>2, FS_CardinalityType
    <3> QED BY <3>1
  <2>1. 0 \in U
    BY <2>0
  <2>2. ASSUME NEW n \in Nat, n \in U PROVE n + 1 \in U
    <3>0. n + 1 \in Nat
      OBVIOUS
    <3>1. CASE Closed(G, f[n])
      <4>1. f[n + 1] = f[n]
        BY <1>4, <1>6, <3>1
      <4> QED BY <3>0, <3>1, <4>1
    <3>2. CASE ~Closed(G, f[n])
      <4>1. f[n] \in SUBSET f[n + 1] /\ f[n] # f[n + 1]
        BY <1>4, <1>6, <3>2
      <4>2. Cardinality(f[n]) >= n
        BY <2>2, <3>2
      <4>3. IsFiniteSet(f[n + 1]) /\ Cardinality(f[n]) \in Nat /\ Cardinality(f[n + 1]) \in Nat
        BY <2>0, <3>0
      <4>4. Cardinality(f[n]) <= Cardinality(f[n + 1]) /\ Cardinality(f[n]) # Cardinality(f[n + 1])
        BY <4>1, <4>3, FS_Subset
      <4>5. Cardinality(f[n + 1]) >= n + 1
        BY <4>2, <4>3, <4>4
      <4> QED BY <3>0, <4>5
    <3> QED BY <3>1, <3>2
  <2> HIDE DEF U
  <2>3. \A n \in Nat : n \in U
    BY <2>1, <2>2, Spreading!Induct
  <2> QED BY <2>3 DEF U
<1>9. Closed(G, f[N])
  <2>1. SUFFICES ASSUME Cardinality(f[N]) >= N PROVE Closed(G, f[N])
    BY <1>1, <1>8
  <2>2. f[N] \in SUBSET G.node
    BY <1>1, <1>7
  <2>3. Cardinality(f[N]) <= N
    BY <2>2, FS_Subset DEF N
  <2>3a. Cardinality(f[N]) \in Nat
    <3>1. IsFiniteSet(f[N])
      BY <2>2, FS_Subset
    <3> QED BY <3>1, FS_CardinalityType
  <2>4. Cardinality(G.node) = Cardinality(f[N])
    BY <1>1, <2>1, <2>3, <2>3a DEF N
  <2>5. f[N] = G.node
    BY <2>2, <2>4, FS_Subset
  <2> QED BY <1>5, <1>6, <2>5
<1>10. ASSUME NEW T, S \subseteq T, Closed(G, T) PROVE f[N] \subseteq T
  <2> DEFINE U == {n \in Nat : f[n] \subseteq T}
  <2>1. 0 \in U
    BY <1>3, <1>10
  <2>2. ASSUME NEW n \in Nat, n \in U PROVE n + 1 \in U
    <3>1. R!AllSuccessors(G, f[n]) \subseteq R!AllSuccessors(G, T)
      BY <2>2 DEF R!AllSuccessors
    <3> QED BY <1>4, <1>6, <1>10, <2>2, <3>1
  <2> HIDE DEF U
  <2>3. \A n \in Nat : n \in U
    BY <2>1, <2>2, Spreading!Induct
  <2> QED BY <1>1, <2>3 DEF U
<1> QED BY <1>1, <1>2, <1>7, <1>9, <1>10

-----------------------------------------------------------------------------
\* Import graphs.  After(p, x) are the modules one or more imports from x.

Wants(p, x)  == R!Wanted(p, x) \cap DOMAIN p
After(p, x)  == R!From(R!ImportGraph(p), Wants(p, x))
Acyclic(p, x) == \A y \in {x} \cup After(p, x) : y \notin After(p, y)

LEMMA ImportSuccessors ==
  ASSUME NEW p, NEW x \in DOMAIN p
  PROVE  R!Successors(R!ImportGraph(p), x) = Wants(p, x)
BY DEF R!Successors, R!ImportGraph, Wants

LEMMA AfterClosed ==
  ASSUME NEW p, IsFiniteSet(DOMAIN p), NEW x \in DOMAIN p
  PROVE  /\ Wants(p, x) \subseteq After(p, x)
         /\ After(p, x) \subseteq DOMAIN p
         /\ \A y \in After(p, x) : Wants(p, y) \subseteq After(p, x)
         /\ \A T : /\ T \subseteq DOMAIN p
                   /\ Wants(p, x) \subseteq T
                   /\ \A y \in T : Wants(p, y) \subseteq T
                   => After(p, x) \subseteq T
<1> DEFINE G == R!ImportGraph(p)
<1>1. G.node = DOMAIN p /\ Wants(p, x) \in SUBSET G.node /\ IsFiniteSet(G.node)
  BY DEF R!ImportGraph, Wants
<1>2. \A T : T \subseteq DOMAIN p => (Closed(G, T) <=> \A y \in T : Wants(p, y) \subseteq T)
  BY ImportSuccessors DEF Closed
<1> HIDE DEF G
<1> QED BY <1>1, <1>2, FromLeastClosed DEF After, G

LEMMA AfterTransitive ==
  ASSUME NEW p, IsFiniteSet(DOMAIN p), NEW x \in DOMAIN p, NEW y \in After(p, x)
  PROVE  After(p, y) \subseteq After(p, x)
<1>1. y \in DOMAIN p /\ After(p, x) \subseteq DOMAIN p /\ Wants(p, y) \subseteq After(p, x)
      /\ \A z \in After(p, x) : Wants(p, z) \subseteq After(p, x)
  BY AfterClosed
<1> QED BY <1>1, AfterClosed

LEMMA AfterNext ==
  ASSUME NEW p, IsFiniteSet(DOMAIN p), NEW x \in DOMAIN p
  PROVE  After(p, x) = Wants(p, x) \cup UNION {After(p, y) : y \in Wants(p, x)}
<1> DEFINE T == Wants(p, x) \cup UNION {After(p, y) : y \in Wants(p, x)}
<1>1. Wants(p, x) \subseteq After(p, x) /\ Wants(p, x) \subseteq DOMAIN p
  BY AfterClosed DEF Wants
<1>2. T \subseteq After(p, x)
  BY <1>1, AfterTransitive
<1>3. \A y \in Wants(p, x) : /\ Wants(p, y) \subseteq After(p, y)
                             /\ After(p, y) \subseteq DOMAIN p
                             /\ \A z \in After(p, y) : Wants(p, z) \subseteq After(p, y)
  BY <1>1, AfterClosed
<1>4. T \subseteq DOMAIN p
  BY <1>1, <1>3
<1>5. ASSUME NEW z \in T PROVE Wants(p, z) \subseteq T
  BY <1>3
<1>6. After(p, x) \subseteq T
  <2> HIDE DEF T
  <2>1. Wants(p, x) \subseteq T
    BY DEF T
  <2> QED BY <1>4, <1>5, <2>1, AfterClosed
<1> QED BY <1>2, <1>6

LEMMA ReachedIs ==
  ASSUME NEW p, IsFiniteSet(DOMAIN p), NEW x \in DOMAIN p
  PROVE  R!Reached(p, x) = {x} \cup After(p, x)
<1> DEFINE G == R!ImportGraph(p)
           T == {x} \cup After(p, x)
           F == R!From(G, {x})
<1>1. G.node = DOMAIN p /\ {x} \in SUBSET G.node /\ IsFiniteSet(G.node)
  BY DEF R!ImportGraph
<1>2. \A U : U \subseteq DOMAIN p => (Closed(G, U) <=> \A y \in U : Wants(p, y) \subseteq U)
  BY ImportSuccessors DEF Closed
<1> HIDE DEF G
<1>3. /\ {x} \subseteq F /\ F \subseteq DOMAIN p /\ Closed(G, F)
      /\ \A U : {x} \subseteq U /\ Closed(G, U) => F \subseteq U
  BY <1>1, FromLeastClosed
<1>4. F \subseteq T
  <2>1. T \subseteq DOMAIN p /\ \A y \in T : Wants(p, y) \subseteq T
    BY AfterClosed
  <2> HIDE DEF T, F
  <2>2. Closed(G, T)
    BY <1>2, <2>1
  <2>3. {x} \subseteq T
    BY DEF T
  <2> QED BY <1>3, <2>2, <2>3
<1>5. T \subseteq F
  <2> HIDE DEF F
  <2>1. \A y \in F : Wants(p, y) \subseteq F
    BY <1>2, <1>3
  <2>2. After(p, x) \subseteq F
    BY <1>3, <2>1, AfterClosed
  <2> QED BY <1>3, <2>2
<1> QED BY <1>4, <1>5 DEF R!Reached, G

LEMMA CyclicIs ==
  ASSUME NEW p, IsFiniteSet(DOMAIN p), NEW x \in DOMAIN p
  PROVE  R!Cyclic(p, x) <=> ~Acyclic(p, x)
<1>1. \A y \in DOMAIN p : R!OnCycle(R!ImportGraph(p), y) <=> y \in After(p, y)
  BY ImportSuccessors DEF R!OnCycle, After
<1>2. R!Reached(p, x) = {x} \cup After(p, x) /\ After(p, x) \subseteq DOMAIN p
  BY ReachedIs, AfterClosed
<1> QED BY <1>1, <1>2 DEF R!Cyclic, Acyclic

\* A module is on no cycle and reaches none if that is so of all it imports.
LEMMA AcyclicIf ==
  ASSUME NEW p, IsFiniteSet(DOMAIN p), NEW x \in DOMAIN p,
         \A y \in Wants(p, x) : Acyclic(p, y)
  PROVE  Acyclic(p, x)
<1>1. After(p, x) = Wants(p, x) \cup UNION {After(p, y) : y \in Wants(p, x)}
  BY AfterNext
<1>2. ASSUME NEW z \in After(p, x) PROVE z \notin After(p, z)
  BY <1>1 DEF Acyclic
<1> QED BY <1>2 DEF Acyclic

-----------------------------------------------------------------------------
\* Sequences.

LEMMA ListedSeq ==
  ASSUME NEW s, Listed(s)
  PROVE  /\ Len(s) \in Nat /\ DOMAIN s = 1 .. Len(s)
         /\ s \in Seq(ToSet(s)) /\ \A i \in 1 .. Len(s) : s[i] \in ToSet(s)
         /\ \A x \in ToSet(s) : \E i \in 1 .. Len(s) : x = s[i]
BY LenProperties DEF Listed, ToSet

LEMMA SeqListed ==
  ASSUME NEW S, NEW s \in Seq(S)
  PROVE  Listed(s) /\ \A i \in 1 .. Len(s) : s[i] \in S
BY LenProperties DEF Listed, ToSet

\* A sequence that is given element by element.
LEMMA MappedSeq ==
  ASSUME NEW S, NEW s, NEW n \in Nat, s = [i \in 1 .. n |-> s[i]],
         \A i \in 1 .. n : s[i] \in S
  PROVE  s \in Seq(S) /\ Len(s) = n
<1>1. s \in [1 .. n -> S]
  OBVIOUS
<1> QED BY <1>1

\* The stacks frames and walk.
LEMMA StackTop ==
  ASSUME NEW S, NEW s \in Seq(S), s # <<>>
  PROVE  /\ Len(s) \in Nat /\ Len(s) >= 1 /\ Len(s) \in 1 .. Len(s) /\ DOMAIN s = 1 .. Len(s)
         /\ Top(s) = s[Len(s)] /\ Top(s) \in S
BY EmptySeq, LenProperties DEF Top

LEMMA StackPush ==
  ASSUME NEW S, NEW s \in Seq(S), NEW x \in S
  PROVE  /\ Append(s, x) \in Seq(S) /\ Append(s, x) # <<>> /\ Len(s) \in Nat
         /\ DOMAIN Append(s, x) = 1 .. Len(s) + 1 /\ Len(Append(s, x)) = Len(s) + 1
         /\ Append(s, x)[Len(s) + 1] = x
         /\ \A i \in 1 .. Len(s) : Append(s, x)[i] = s[i]
<1>1. Len(s) \in Nat /\ Append(s, x) \in Seq(S) /\ Len(Append(s, x)) = Len(s) + 1
  BY LenProperties
<1> QED BY <1>1, AppendProperties, LenProperties, EmptySeq

LEMMA StackAdvanced ==
  ASSUME NEW S, NEW s \in Seq(S), s # <<>>, NEW x \in S
  PROVE  /\ Advanced(s, x) \in Seq(S) /\ Len(Advanced(s, x)) = Len(s)
         /\ Advanced(s, x) # <<>>
         /\ DOMAIN Advanced(s, x) = 1 .. Len(s)
         /\ Advanced(s, x)[Len(s)] = x
         /\ \A i \in 1 .. Len(s) : i # Len(s) => Advanced(s, x)[i] = s[i]
<1>1. Len(s) \in 1 .. Len(s) /\ Len(s) >= 1 /\ Len(s) \in Nat
  BY StackTop
<1>2. /\ Advanced(s, x) \in Seq(S) /\ Len(Advanced(s, x)) = Len(s)
      /\ \A j \in 1 .. Len(s) : Advanced(s, x)[j] = IF j = Len(s) THEN x ELSE s[j]
  BY <1>1, ExceptSeq DEF Advanced
<1> QED BY <1>1, <1>2, LenProperties, EmptySeq

LEMMA StackPop ==
  ASSUME NEW S, NEW s \in Seq(S), s # <<>>
  PROVE  /\ Front(s) \in Seq(S) /\ Len(Front(s)) = Len(s) - 1
         /\ DOMAIN Front(s) = 1 .. Len(s) - 1
         /\ \A i \in 1 .. Len(s) - 1 : Front(s)[i] = s[i]
         /\ (Len(s) = 1) = (Front(s) = <<>>)
<1> DEFINE n == Len(s) - 1
<1>1. Len(s) \in Nat /\ Len(s) >= 1 /\ n \in Nat /\ n \in Int /\ 1 \in Int
  BY StackTop
<1>2. \A i \in 1 .. n : s[i] \in S
  BY <1>1
<1> HIDE DEF n
<1>3. /\ SubSeq(s, 1, n) \in Seq(S)
      /\ Len(SubSeq(s, 1, n)) = IF 1 <= n THEN n - 1 + 1 ELSE 0
      /\ \A i \in 1 .. n - 1 + 1 : SubSeq(s, 1, n)[i] = s[1 + i - 1]
  BY <1>1, <1>2, SubSeqProperties
<1>4. \A i \in 1 .. n : i \in 1 .. n - 1 + 1 /\ 1 + i - 1 = i
  BY <1>1
<1>5. Len(SubSeq(s, 1, n)) = n
  BY <1>1, <1>3
<1>6. (n = 0) = (SubSeq(s, 1, n) = <<>>)
  BY <1>3, <1>5, EmptySeq
<1> QED BY <1>1, <1>3, <1>4, <1>5, <1>6, LenProperties DEF Front, n

-----------------------------------------------------------------------------
\* Files.

LEMMA FileParts ==
  ASSUME NEW p \in Programs, NEW m \in DOMAIN p
  PROVE  IsFile(p[m]) /\ Listed(p[m].couplings)
         /\ \A i \in 1 .. Len(p[m].couplings) : IsCoupling(p[m].couplings[i])
         /\ Len(p[m].couplings) \in Nat /\ DOMAIN p[m].couplings = 1 .. Len(p[m].couplings)
BY ProgramsParsed, ListedSeq DEF IsFile

LEMMA FinitePrograms == \A p \in Programs : IsFiniteSet(DOMAIN p)
BY ProgramsParsed

LEMMA SameToSet == \A s : R!ToSet(s) = ToSet(s)
BY DEF R!ToSet, ToSet

LEMMA WantedIs ==
  ASSUME NEW p \in Programs, NEW m \in DOMAIN p, NEW w
  PROVE  w \in R!Wanted(p, m) <=>
           \E i \in 1 .. Len(p[m].couplings) :
             LET c == p[m].couplings[i]
             IN \/ c.kind = "from" /\ w = c.module
                \/ /\ c.kind = "import" /\ ~c.all
                   /\ \E k \in 1 .. Len(c.items) : w = c.items[k].name
<1>1. \A s : R!ToSet(s) = {s[i] : i \in DOMAIN s}
  BY SameToSet DEF ToSet
<1>2. DOMAIN p[m].couplings = 1 .. Len(p[m].couplings)
      /\ \A i \in 1 .. Len(p[m].couplings) : Listed(p[m].couplings[i].items)
  BY FileParts DEF IsCoupling
<1>3. \A i \in 1 .. Len(p[m].couplings) :
         DOMAIN p[m].couplings[i].items = 1 .. Len(p[m].couplings[i].items)
  BY <1>2, ListedSeq
<1>4. R!ToSet(p[m].couplings) = {p[m].couplings[i] : i \in 1 .. Len(p[m].couplings)}
  BY <1>1, <1>2
<1>5. w \in R!Wanted(p, m) <=>
        \/ \E c \in R!ToSet(p[m].couplings) : c.kind = "from" /\ w = c.module
        \/ \E c \in R!ToSet(p[m].couplings) : c.kind = "import" /\ ~c.all
             /\ \E a \in R!ToSet(c.items) : w = a.name
  BY DEF R!Wanted, R!Items, R!Aliases
<1>6. \A i \in 1 .. Len(p[m].couplings) :
         R!ToSet(p[m].couplings[i].items) =
           {p[m].couplings[i].items[k] : k \in 1 .. Len(p[m].couplings[i].items)}
  BY <1>1, <1>3
<1> DEFINE cs == p[m].couplings
           n == Len(cs)
           Here(c) == \/ c.kind = "from" /\ w = c.module
                      \/ c.kind = "import" /\ ~c.all /\ \E a \in R!ToSet(c.items) : w = a.name
<1>7. w \in R!Wanted(p, m) <=> \E i \in 1 .. n : Here(cs[i])
  <2>1. w \in R!Wanted(p, m) <=> \E c \in R!ToSet(cs) : Here(c)
    BY <1>5
  <2> HIDE DEF Here, n
  <2> QED BY <1>4, <2>1 DEF n
<1>8. ASSUME NEW i \in 1 .. n
      PROVE  Here(cs[i]) <=> \/ cs[i].kind = "from" /\ w = cs[i].module
                            \/ /\ cs[i].kind = "import" /\ ~cs[i].all
                               /\ \E k \in 1 .. Len(cs[i].items) : w = cs[i].items[k].name
  <2>1. R!ToSet(cs[i].items) = {cs[i].items[k] : k \in 1 .. Len(cs[i].items)}
    BY <1>6
  <2>2. (\E a \in R!ToSet(cs[i].items) : w = a.name)
          <=> \E k \in 1 .. Len(cs[i].items) : w = cs[i].items[k].name
    BY <2>1
  <2> QED BY <2>2
<1> HIDE DEF Here, n
<1> QED BY <1>7, <1>8 DEF n

-----------------------------------------------------------------------------
\* What a module asks for.

AskedBy(m, i) ==
  LET c == Couplings(m)[i]
  IN CASE c.kind = "import" /\ c.all -> <<Import(c.module, c.module, TRUE)>>
       [] c.kind = "import" /\ ~c.all ->
            [k \in DOMAIN c.items |-> Import(c.items[k].name, c.items[k].as, FALSE)]
       [] c.kind = "from" -> <<Import(c.module, c.module, FALSE)>>
       [] c.kind = "export" -> <<>>

LEMMA RequestsFlat ==
  ASSUME program \in Programs, NEW m \in DOMAIN program
  PROVE  \E S, row, column :
           LET asked == [i \in 1 .. Len(Couplings(m)) |-> AskedBy(m, i)]
           IN /\ Requests(m) \in Seq(S)
              /\ Flattened(Requests(m), asked, Len(Couplings(m)), row, column)
<1> DEFINE n == Len(Couplings(m))
           asked == [i \in 1 .. n |-> AskedBy(m, i)]
           S == UNION {ToSet(AskedBy(m, i)) : i \in 1 .. n}
<1>1. n \in Nat /\ DOMAIN Couplings(m) = 1 .. n /\ \A i \in 1 .. n : IsCoupling(Couplings(m)[i])
  BY FileParts DEF Couplings
<1>2. Requests(m) = FlattenSeq(asked)
  BY <1>1 DEF Requests, AskedBy
<1>3. ASSUME NEW i \in 1 .. n PROVE Listed(AskedBy(m, i))
  <2> DEFINE c == Couplings(m)[i]
  <2>0. IsCoupling(c)
    BY <1>1
  <2> HIDE DEF c
  <2>1. DOMAIN c.items = 1 .. Len(c.items) /\ Len(c.items) \in Nat
    BY <2>0, ListedSeq DEF IsCoupling
  <2>2. AskedBy(m, i) = CASE c.kind = "import" /\ c.all -> <<Import(c.module, c.module, TRUE)>>
       [] c.kind = "import" /\ ~c.all ->
            [k \in DOMAIN c.items |-> Import(c.items[k].name, c.items[k].as, FALSE)]
       [] c.kind = "from" -> <<Import(c.module, c.module, FALSE)>>
       [] c.kind = "export" -> <<>>
    BY DEF AskedBy, c
  <2>3. CASE c.kind = "import" /\ c.all
    <3>1. AskedBy(m, i) = <<Import(c.module, c.module, TRUE)>>
      BY <2>2, <2>3
    <3>2. AskedBy(m, i) \in Seq({Import(c.module, c.module, TRUE)})
      BY <3>1
    <3> QED BY <3>2, SeqListed
  <2>4. CASE c.kind = "import" /\ ~c.all
    <3> DEFINE s == [k \in 1 .. Len(c.items) |-> Import(c.items[k].name, c.items[k].as, FALSE)]
    <3>1. AskedBy(m, i) = s
      BY <2>1, <2>2, <2>4
    <3>2. s = [k \in 1 .. Len(c.items) |-> s[k]]
      OBVIOUS
    <3>3. \A k \in 1 .. Len(c.items) : s[k] \in {s[j] : j \in 1 .. Len(c.items)}
      OBVIOUS
    <3> HIDE DEF s
    <3>4. s \in Seq({s[j] : j \in 1 .. Len(c.items)})
      BY <2>1, <3>2, <3>3, MappedSeq
    <3> QED BY <3>1, <3>4, SeqListed
  <2>5. CASE c.kind = "from"
    <3>1. AskedBy(m, i) = <<Import(c.module, c.module, FALSE)>>
      BY <2>2, <2>5
    <3>2. AskedBy(m, i) \in Seq({Import(c.module, c.module, FALSE)})
      BY <3>1
    <3> QED BY <3>2, SeqListed
  <2>6. CASE c.kind = "export"
    <3>1. AskedBy(m, i) = <<>>
      BY <2>2, <2>6
    <3>2. AskedBy(m, i) \in Seq({})
      BY <3>1
    <3> QED BY <3>2, SeqListed
  <2> QED BY <2>0, <2>3, <2>4, <2>5, <2>6 DEF IsCoupling
<1>4. \A i \in 1 .. n : AskedBy(m, i) \in Seq(S)
  <2>1. ASSUME NEW i \in 1 .. n PROVE AskedBy(m, i) \in Seq(S)
    <3>1. AskedBy(m, i) \in Seq(ToSet(AskedBy(m, i)))
      BY <1>3 DEF Listed
    <3>2. ToSet(AskedBy(m, i)) \subseteq S
      OBVIOUS
    <3> QED BY <3>1, <3>2, SeqMonotonic
  <2> QED BY <2>1
<1> HIDE DEF S
<1>5. asked = [i \in 1 .. n |-> asked[i]] /\ \A i \in 1 .. n : asked[i] \in Seq(S)
  BY <1>4
<1>6. asked \in Seq(Seq(S)) /\ Len(asked) = n
  <2> HIDE DEF asked, n
  <2> QED BY <1>1, <1>5, MappedSeq
<1>7. FlattenSeq(asked) \in Seq(S)
      /\ \E row, column : Flattened(FlattenSeq(asked), asked, n, row, column)
  <2> HIDE DEF asked, n
  <2> QED BY <1>6, FlattenPlaces
<1> QED BY <1>2, <1>7

LEMMA AskedByWanted ==
  ASSUME program \in Programs, NEW m \in DOMAIN program, NEW i \in 1 .. Len(Couplings(m))
  PROVE  LET c == Couplings(m)[i]
         IN /\ \A k \in 1 .. Len(AskedBy(m, i)) :
                 ~AskedBy(m, i)[k].all => AskedBy(m, i)[k].name \in R!Wanted(program, m)
            /\ c.kind = "from" => /\ Len(AskedBy(m, i)) = 1
                                  /\ AskedBy(m, i)[1] = Import(c.module, c.module, FALSE)
            /\ c.kind = "import" /\ ~c.all =>
                 /\ Len(AskedBy(m, i)) = Len(c.items)
                 /\ \A k \in 1 .. Len(c.items) :
                      AskedBy(m, i)[k] = Import(c.items[k].name, c.items[k].as, FALSE)
            /\ c.kind = "import" /\ c.all =>
                 Len(AskedBy(m, i)) = 1 /\ AskedBy(m, i)[1].all
            /\ c.kind = "export" => Len(AskedBy(m, i)) = 0
<1> DEFINE c == Couplings(m)[i]
           a == AskedBy(m, i)
<1>0. IsCoupling(c) /\ Couplings(m) = program[m].couplings
  BY FileParts DEF Couplings
<1>w. \A w : w \in R!Wanted(program, m) <=>
        \E j \in 1 .. Len(Couplings(m)) :
             LET d == Couplings(m)[j]
             IN \/ d.kind = "from" /\ w = d.module
                \/ /\ d.kind = "import" /\ ~d.all
                   /\ \E k \in 1 .. Len(d.items) : w = d.items[k].name
  <2> HIDE DEF c, a
  <2> QED BY WantedIs DEF Couplings
<1>1. DOMAIN c.items = 1 .. Len(c.items) /\ Len(c.items) \in Nat
  BY <1>0, ListedSeq DEF IsCoupling
<1>2. a = CASE c.kind = "import" /\ c.all -> <<Import(c.module, c.module, TRUE)>>
     [] c.kind = "import" /\ ~c.all ->
          [k \in DOMAIN c.items |-> Import(c.items[k].name, c.items[k].as, FALSE)]
     [] c.kind = "from" -> <<Import(c.module, c.module, FALSE)>>
     [] c.kind = "export" -> <<>>
  BY DEF AskedBy
<1>3. CASE c.kind = "import" /\ c.all
  <2>1. a = <<Import(c.module, c.module, TRUE)>>
    BY <1>2, <1>3
  <2>2. Len(a) = 1 /\ a[1].all
    BY <2>1 DEF Import
  <2> QED BY <1>3, <2>2
<1>4. CASE c.kind = "import" /\ ~c.all
  <2>1. a = [k \in 1 .. Len(c.items) |-> Import(c.items[k].name, c.items[k].as, FALSE)]
    BY <1>1, <1>2, <1>4
  <2>2. Len(a) = Len(c.items)
        /\ \A k \in 1 .. Len(c.items) : a[k] = Import(c.items[k].name, c.items[k].as, FALSE)
    <3> HIDE DEF a, c
    <3>1. \A k \in 1 .. Len(c.items) : a[k] = Import(c.items[k].name, c.items[k].as, FALSE)
      BY <2>1
    <3>2. a = [k \in 1 .. Len(c.items) |-> a[k]]
      BY <2>1
    <3>3. \A k \in 1 .. Len(c.items) : a[k] \in {a[j] : j \in 1 .. Len(c.items)}
      OBVIOUS
    <3> DEFINE S == {a[j] : j \in 1 .. Len(c.items)}
               l == Len(c.items)
    <3>4. l \in Nat /\ a = [k \in 1 .. l |-> a[k]] /\ \A k \in 1 .. l : a[k] \in S
      BY <1>1, <3>2, <3>3
    <3> HIDE DEF S, l
    <3>5. Len(a) = l
      BY <3>4, MappedSeq
    <3> QED BY <3>1, <3>5 DEF l
  <2>3. \A k \in 1 .. Len(c.items) : c.items[k].name \in R!Wanted(program, m)
    BY <1>4, <1>w
  <2> HIDE DEF a, c
  <2>4. \A k \in 1 .. Len(a) : a[k].name \in R!Wanted(program, m)
    <3>1. ASSUME NEW k \in 1 .. Len(a) PROVE a[k].name \in R!Wanted(program, m)
      <4>1. k \in 1 .. Len(c.items) /\ a[k] = Import(c.items[k].name, c.items[k].as, FALSE)
        BY <2>2
      <4>2. a[k].name = c.items[k].name
        BY <4>1 DEF Import
      <4> QED BY <2>3, <4>1, <4>2
    <3> QED BY <3>1
  <2> QED BY <1>4, <2>2, <2>4 DEF a, c
<1>5. CASE c.kind = "from"
  <2>1. a = <<Import(c.module, c.module, FALSE)>>
    BY <1>2, <1>5
  <2>2. Len(a) = 1 /\ a[1] = Import(c.module, c.module, FALSE)
    BY <2>1
  <2>3. c.module \in R!Wanted(program, m)
    BY <1>5, <1>w
  <2>4. \A k \in 1 .. Len(a) : a[k].name \in R!Wanted(program, m)
    <3>1. ASSUME NEW k \in 1 .. Len(a) PROVE a[k].name \in R!Wanted(program, m)
      <4>1. k = 1
        BY <2>2
      <4> QED BY <2>2, <2>3, <4>1 DEF Import
    <3> QED BY <3>1
  <2> QED BY <1>5, <2>2, <2>4
<1>6. CASE c.kind = "export"
  <2>1. Len(a) = 0
    BY <1>2, <1>6
  <2> QED BY <1>6, <2>1
<1> QED BY <1>0, <1>3, <1>4, <1>5, <1>6 DEF IsCoupling

LEMMA RequestsWanted ==
  ASSUME program \in Programs, NEW m \in DOMAIN program
  PROVE  /\ Len(Requests(m)) \in Nat
         /\ \A i \in 1 .. Len(Requests(m)) :
              ~Requests(m)[i].all => Requests(m)[i].name \in R!Wanted(program, m)
         /\ \A w \in R!Wanted(program, m) :
              \E i \in 1 .. Len(Requests(m)) : Requests(m)[i].name = w
<1> DEFINE q == Requests(m)
           n == Len(Couplings(m))
           asked == [i \in 1 .. n |-> AskedBy(m, i)]
<1>1. PICK S, row, column : q \in Seq(S) /\ Flattened(q, asked, n, row, column)
  BY RequestsFlat
<1>2. Len(q) \in Nat
  BY <1>1
<1>3. \A i \in 1 .. n : asked[i] = AskedBy(m, i)
  OBVIOUS
<1> HIDE DEF q, asked
<1>4. ASSUME NEW p \in 1 .. Len(q), ~q[p].all PROVE q[p].name \in R!Wanted(program, m)
  <2>1. row[p] \in 1 .. n /\ column[p] \in 1 .. Len(AskedBy(m, row[p]))
        /\ q[p] = AskedBy(m, row[p])[column[p]]
    BY <1>1, <1>3 DEF Flattened
  <2> QED BY <1>4, <2>1, AskedByWanted
<1>5. ASSUME NEW w \in R!Wanted(program, m) PROVE \E p \in 1 .. Len(q) : q[p].name = w
  <2>1. PICK i \in 1 .. n :
             LET c == Couplings(m)[i]
             IN \/ c.kind = "from" /\ w = c.module
                \/ /\ c.kind = "import" /\ ~c.all
                   /\ \E k \in 1 .. Len(c.items) : w = c.items[k].name
    BY WantedIs DEF Couplings
  <2>2. \E k \in 1 .. Len(AskedBy(m, i)) : AskedBy(m, i)[k].name = w
    <3> DEFINE c == Couplings(m)[i]
    <3>1. CASE c.kind = "from" /\ w = c.module
      <4>1. Len(AskedBy(m, i)) = 1 /\ AskedBy(m, i)[1] = Import(c.module, c.module, FALSE)
        BY <3>1, AskedByWanted
      <4>2. 1 \in 1 .. Len(AskedBy(m, i)) /\ AskedBy(m, i)[1].name = w
        BY <3>1, <4>1 DEF Import
      <4> QED BY <4>2
    <3>2. CASE c.kind = "import" /\ ~c.all /\ \E k \in 1 .. Len(c.items) : w = c.items[k].name
      <4>1. PICK k \in 1 .. Len(c.items) : w = c.items[k].name
        BY <3>2
      <4>2. Len(AskedBy(m, i)) = Len(c.items)
            /\ AskedBy(m, i)[k] = Import(c.items[k].name, c.items[k].as, FALSE)
        BY <3>2, AskedByWanted
      <4>3. k \in 1 .. Len(AskedBy(m, i)) /\ AskedBy(m, i)[k].name = w
        BY <4>1, <4>2 DEF Import
      <4> QED BY <4>3
    <3> QED BY <2>1, <3>1, <3>2
  <2>3. PICK k \in 1 .. Len(AskedBy(m, i)) : AskedBy(m, i)[k].name = w
    BY <2>2
  <2>4. PICK p \in 1 .. Len(q) : row[p] = i /\ column[p] = k
    BY <1>1, <1>3, <2>3 DEF Flattened
  <2>5. q[p] = AskedBy(m, i)[k]
    BY <1>1, <1>3, <2>4 DEF Flattened
  <2> QED BY <2>3, <2>5
<1> QED BY <1>2, <1>4, <1>5 DEF q

-----------------------------------------------------------------------------
\* The invariant.

\* The table of m after its first n - 1 requests.
DepsAre(m, n) ==
  LET q == Requests(m)
  IN /\ n \in 1 .. Len(q) + 1
     /\ \A i \in 1 .. n - 1 :
          ~q[i].all /\ q[i].as \in DOMAIN deps[m] /\ deps[m][q[i].as] = q[i].name
     /\ \A a \in DOMAIN deps[m] : \E i \in 1 .. n - 1 : q[i].as = a

DepsMade(m) == DepsAre(m, Len(Requests(m)) + 1)

Untouched(m) == globals[m] = NoNames /\ exported[m] = NoNames

TablesFinite(m) == IsFiniteSet(DOMAIN globals[m]) /\ IsFiniteSet(DOMAIN exported[m])

Shape ==
  /\ TypeOK
  /\ program \in Programs
  /\ DOMAIN deps \subseteq DOMAIN program

LoadShape ==
  /\ Listed(frames)
  /\ walk = <<>> /\ visited = {} /\ refs = NoNames
  /\ IF frames = <<>> THEN DOMAIN deps = {}
     ELSE frames[1].module = Root /\ DOMAIN deps \subseteq {Root} \cup After(program, Root)
  /\ \A i, j \in DOMAIN frames : i # j => frames[i].module # frames[j].module
  /\ \A i \in DOMAIN frames : DepsAre(frames[i].module, frames[i].next)
  /\ \A m \in DOMAIN deps \ OnFrames : DepsMade(m)
  /\ \A m \in DOMAIN deps : Untouched(m)

Loaded ==
  /\ DOMAIN deps = {Root} \cup After(program, Root)
  /\ \A m \in DOMAIN deps : DepsMade(m)

\* Every dependency that has been looked at is on no cycle, but for the one
\* that is being looked at.
Checked(k, a) ==
  LET m == deps[walk[k].at][a]
  IN Acyclic(program, m) \/ (k + 1 \in DOMAIN walk /\ walk[k + 1].at = m)

CyclesShape ==
  /\ Loaded
  /\ frames = <<>> /\ visited = {} /\ refs = NoNames
  /\ \A m \in DOMAIN deps : Untouched(m)
  /\ Listed(walk) /\ walk # <<>> /\ walk[1].at = Root
  /\ \A k \in DOMAIN walk :
       /\ walk[k] = [at |-> walk[k].at, rest |-> walk[k].rest]
       /\ walk[k].at \in DOMAIN deps /\ walk[k].rest \subseteq DOMAIN deps[walk[k].at]
       /\ \A j \in 1 .. k - 1 : walk[k].at \in After(program, walk[j].at)
       /\ \A a \in DOMAIN deps[walk[k].at] \ walk[k].rest : Checked(k, a)

Bindings(m) == ImportSymbols(m) \o DeclareSymbols(m)

TableMade(m) ==
  LET bindings == Bindings(m)
  IN FirstFault(bindings) = Ok /\ globals[m] = Table(bindings)

ExportsMade(m) == ExportFaults(m) = {} /\ exported[m] = ExportTable(m)

Left == visited \ OnFrames

\* A dependency that resolve has seen has been left, or is being resolved.
Entered(i, a) ==
  LET m == deps[frames[i].module][a]
  IN m \in Left \/ (i + 1 \in DOMAIN frames /\ frames[i + 1].module = m)

FrameShape(i) ==
  LET m == frames[i].module
  IN /\ frames[i] = [module |-> m, stage |-> frames[i].stage, todo |-> frames[i].todo]
     /\ m \in visited
     /\ \A j \in 1 .. i - 1 : m \in After(program, frames[j].module)
     /\ i < Len(frames) => frames[i].stage = "dependencies"
     /\ frames[i].stage = "dependencies" =>
          /\ frames[i].todo \subseteq DOMAIN deps[m]
          /\ \A a \in DOMAIN deps[m] \ frames[i].todo : Entered(i, a)
          /\ Untouched(m)
     /\ frames[i].stage # "dependencies" =>
          /\ \A a \in DOMAIN deps[m] : deps[m][a] \in Left
          /\ TableMade(m) /\ exported[m] = NoNames
     /\ frames[i].stage = "references" => frames[i].todo \subseteq DOMAIN globals[m]

Done(m) ==
  /\ \A a \in DOMAIN deps[m] : deps[m][a] \in Left
  /\ TableMade(m) /\ ExportsMade(m)

NamesShape ==
  /\ Loaded
  /\ Acyclic(program, Root)
  /\ Listed(frames) /\ frames # <<>>
  /\ \A i \in DOMAIN frames : FrameShape(i)
  /\ \A m \in Left : Done(m)
  /\ \A m \in DOMAIN deps \ visited : Untouched(m)
  /\ \A m \in DOMAIN deps : TablesFinite(m)

Made(m) == TableMade(m) /\ ExportsMade(m)

Resolved ==
  /\ Loaded
  /\ Acyclic(program, Root)
  /\ \A m \in DOMAIN deps :
       Untouched(m) \/ (Made(m) /\ \A a \in DOMAIN deps[m] : Made(deps[m][a]))
  /\ \A m \in DOMAIN deps : TablesFinite(m)

CycleFound == Root \in DOMAIN program /\ ~Acyclic(program, Root)

Invariant ==
  /\ Shape
  /\ phase = "load" => LoadShape
  /\ phase = "cycles" => CyclesShape
  /\ phase = "names" => NamesShape
  /\ phase = "resolved" => Resolved
  /\ error = "InvalidDependencyCycle" => CycleFound

-----------------------------------------------------------------------------
\* Stacks, whatever is on them.

LEMMA ListedEmpty == Listed(<<>>)
<1>1. <<>> \in Seq({})
  OBVIOUS
<1> QED BY <1>1, SeqListed

LEMMA ListedTop ==
  ASSUME NEW s, Listed(s), s # <<>>
  PROVE  /\ Len(s) \in Nat /\ Len(s) >= 1 /\ Len(s) \in 1 .. Len(s) /\ 1 \in 1 .. Len(s)
         /\ DOMAIN s = 1 .. Len(s) /\ Top(s) = s[Len(s)]
<1>1. s \in Seq(ToSet(s))
  BY DEF Listed
<1>2. /\ Len(s) \in Nat /\ Len(s) >= 1 /\ Len(s) \in 1 .. Len(s) /\ DOMAIN s = 1 .. Len(s)
      /\ Top(s) = s[Len(s)]
  BY <1>1, StackTop
<1> QED BY <1>2

LEMMA ListedPush ==
  ASSUME NEW s, Listed(s), NEW x
  PROVE  /\ Listed(Append(s, x)) /\ Append(s, x) # <<>> /\ Len(s) \in Nat
         /\ DOMAIN s = 1 .. Len(s)
         /\ DOMAIN Append(s, x) = 1 .. Len(s) + 1 /\ Len(Append(s, x)) = Len(s) + 1
         /\ Append(s, x)[Len(s) + 1] = x
         /\ \A i \in 1 .. Len(s) : Append(s, x)[i] = s[i]
<1> DEFINE S == ToSet(s) \cup {x}
<1>1. s \in Seq(ToSet(s)) /\ DOMAIN s = 1 .. Len(s)
  BY ListedSeq DEF Listed
<1>2. ToSet(s) \subseteq S /\ x \in S
  OBVIOUS
<1>3. s \in Seq(S)
  BY <1>1, <1>2, SeqMonotonic
<1> HIDE DEF S
<1>4. /\ Append(s, x) \in Seq(S) /\ Append(s, x) # <<>> /\ Len(s) \in Nat
      /\ DOMAIN Append(s, x) = 1 .. Len(s) + 1 /\ Len(Append(s, x)) = Len(s) + 1
      /\ Append(s, x)[Len(s) + 1] = x
      /\ \A i \in 1 .. Len(s) : Append(s, x)[i] = s[i]
  BY <1>2, <1>3, StackPush
<1>5. Listed(Append(s, x))
  BY <1>4, SeqListed
<1> QED BY <1>1, <1>4, <1>5

LEMMA ListedAdvanced ==
  ASSUME NEW s, Listed(s), s # <<>>, NEW x
  PROVE  /\ Listed(Advanced(s, x)) /\ Len(Advanced(s, x)) = Len(s)
         /\ Advanced(s, x) # <<>>
         /\ DOMAIN Advanced(s, x) = 1 .. Len(s)
         /\ Advanced(s, x)[Len(s)] = x
         /\ \A i \in 1 .. Len(s) : i # Len(s) => Advanced(s, x)[i] = s[i]
<1> DEFINE S == ToSet(s) \cup {x}
<1>1. s \in Seq(ToSet(s))
  BY DEF Listed
<1>2. ToSet(s) \subseteq S /\ x \in S
  OBVIOUS
<1>3. s \in Seq(S)
  BY <1>1, <1>2, SeqMonotonic
<1> HIDE DEF S
<1>4. /\ Advanced(s, x) \in Seq(S) /\ Len(Advanced(s, x)) = Len(s)
      /\ Advanced(s, x) # <<>>
      /\ DOMAIN Advanced(s, x) = 1 .. Len(s)
      /\ Advanced(s, x)[Len(s)] = x
      /\ \A i \in 1 .. Len(s) : i # Len(s) => Advanced(s, x)[i] = s[i]
  BY <1>2, <1>3, StackAdvanced
<1>5. Listed(Advanced(s, x))
  BY <1>4, SeqListed
<1> QED BY <1>4, <1>5

LEMMA ListedPop ==
  ASSUME NEW s, Listed(s), s # <<>>
  PROVE  /\ Listed(Front(s)) /\ Len(Front(s)) = Len(s) - 1
         /\ DOMAIN Front(s) = 1 .. Len(s) - 1
         /\ \A i \in 1 .. Len(s) - 1 : Front(s)[i] = s[i]
         /\ (Len(s) = 1) = (Front(s) = <<>>)
<1>1. s \in Seq(ToSet(s))
  BY DEF Listed
<1>2. Front(s) \in Seq(ToSet(s))
  BY <1>1, StackPop
<1>3. Listed(Front(s))
  BY <1>2, SeqListed
<1> QED BY <1>1, <1>3, StackPop

LEMMA SetIs ==
  ASSUME NEW f, NEW x, NEW y
  PROVE  /\ DOMAIN Set(f, x, y) = DOMAIN f \cup {x} /\ Set(f, x, y)[x] = y
         /\ \A z \in DOMAIN f : z # x => Set(f, x, y)[z] = f[z]
BY DEF Set

-----------------------------------------------------------------------------
\* Reaching modules.

LEMMA ReachMore ==
  ASSUME NEW p \in Programs, NEW x \in DOMAIN p,
         NEW y \in {x} \cup After(p, x), NEW z \in R!Wanted(p, y), z \in DOMAIN p
  PROVE  z \in After(p, x)
<1>1. IsFiniteSet(DOMAIN p)
  BY FinitePrograms
<1>2. /\ Wants(p, x) \subseteq After(p, x)
      /\ \A u \in After(p, x) : Wants(p, u) \subseteq After(p, x)
  BY <1>1, AfterClosed
<1>3. z \in Wants(p, y)
  BY DEF Wants
<1> QED BY <1>2, <1>3

LEMMA SameRequests ==
  ASSUME program' = program, NEW m PROVE Requests(m)' = Requests(m)
BY DEF Requests, Couplings

LEMMA DepsKept ==
  ASSUME program' = program, NEW m, NEW n, DepsAre(m, n), deps'[m] = deps[m]
  PROVE  DepsAre(m, n)'
<1>1. Requests(m)' = Requests(m)
  BY SameRequests
<1> QED BY <1>1 DEF DepsAre

LEMMA DepsStarted ==
  ASSUME program \in Programs, program' = program, NEW m \in DOMAIN program, deps'[m] = NoNames
  PROVE  DepsAre(m, 1)'
<1>1. Requests(m)' = Requests(m)
  BY SameRequests
<1>2. Len(Requests(m)) \in Nat /\ DOMAIN NoNames = {}
  BY RequestsWanted DEF NoNames
<1> QED BY <1>1, <1>2 DEF DepsAre

LEMMA DepsMore ==
  ASSUME program \in Programs, program' = program, NEW m \in DOMAIN program,
         NEW n \in 1 .. Len(Requests(m)), DepsAre(m, n),
         ~Requests(m)[n].all, Requests(m)[n].as \notin DOMAIN deps[m],
         deps'[m] = Set(deps[m], Requests(m)[n].as, Requests(m)[n].name)
  PROVE  DepsAre(m, n + 1)'
<1> DEFINE q == Requests(m)
<1>1. Requests(m)' = q /\ Len(q) \in Nat
  BY SameRequests, RequestsWanted
<1>2. /\ DOMAIN deps'[m] = DOMAIN deps[m] \cup {q[n].as} /\ deps'[m][q[n].as] = q[n].name
      /\ \A a \in DOMAIN deps[m] : deps'[m][a] = deps[m][a]
  <2> DEFINE f == deps[m]
             x == q[n].as
             y == q[n].name
             g == deps'[m]
  <2>1. x \notin DOMAIN f /\ g = Set(f, x, y)
    OBVIOUS
  <2> HIDE DEF f, x, y, g
  <2>2. /\ DOMAIN g = DOMAIN f \cup {x} /\ g[x] = y
        /\ \A z \in DOMAIN f : z # x => g[z] = f[z]
    BY <2>1 DEF Set
  <2>3. \A z \in DOMAIN f : g[z] = f[z]
    BY <2>1, <2>2
  <2> QED BY <2>2, <2>3 DEF f, x, y, g
<1> HIDE DEF q
<1>3. /\ \A i \in 1 .. n - 1 : ~q[i].all /\ q[i].as \in DOMAIN deps[m] /\ deps[m][q[i].as] = q[i].name
      /\ \A a \in DOMAIN deps[m] : \E i \in 1 .. n - 1 : q[i].as = a
  BY DEF DepsAre, q
<1>4. n + 1 \in 1 .. Len(q) + 1 /\ n \in 1 .. Len(q) /\ (n + 1) - 1 = n
  BY <1>1 DEF q
<1>5. \A i \in 1 .. n : i = n \/ i \in 1 .. n - 1
  BY <1>4
<1>6. \A i \in 1 .. n : ~q[i].all /\ q[i].as \in DOMAIN deps'[m] /\ deps'[m][q[i].as] = q[i].name
  BY <1>2, <1>3, <1>5 DEF q
<1>7. \A a \in DOMAIN deps'[m] : \E i \in 1 .. n : q[i].as = a
  <2>1. n \in 1 .. n /\ \A i \in 1 .. n - 1 : i \in 1 .. n
    BY <1>4
  <2> QED BY <1>2, <1>3, <2>1
<1> QED BY <1>1, <1>4, <1>6, <1>7 DEF DepsAre

\* A complete table names what the module wants.
LEMMA DepsWanted ==
  ASSUME program \in Programs, NEW m \in DOMAIN program, DepsMade(m)
  PROVE  {deps[m][a] : a \in DOMAIN deps[m]} = R!Wanted(program, m)
<1> DEFINE q == Requests(m)
<1>1. /\ Len(q) \in Nat
      /\ \A i \in 1 .. Len(q) : ~q[i].all => q[i].name \in R!Wanted(program, m)
      /\ \A w \in R!Wanted(program, m) : \E i \in 1 .. Len(q) : q[i].name = w
  BY RequestsWanted
<1> HIDE DEF q
<1>2. (Len(q) + 1) - 1 = Len(q) /\ DepsAre(m, Len(q) + 1)
  BY <1>1 DEF DepsMade, q
<1>3. /\ \A i \in 1 .. Len(q) : ~q[i].all /\ q[i].as \in DOMAIN deps[m] /\ deps[m][q[i].as] = q[i].name
      /\ \A a \in DOMAIN deps[m] : \E i \in 1 .. Len(q) : q[i].as = a
  <2> DEFINE n == Len(q) + 1
  <2>1. DepsAre(m, n) /\ n - 1 = Len(q)
    BY <1>2
  <2> HIDE DEF n
  <2> QED BY <2>1 DEF DepsAre, q
<1> DEFINE f == deps[m]
<1>4. \A a \in DOMAIN f : f[a] \in R!Wanted(program, m)
  <2>1. ASSUME NEW a \in DOMAIN f PROVE f[a] \in R!Wanted(program, m)
    <3>1. PICK i \in 1 .. Len(q) : q[i].as = a
      BY <1>3
    <3> QED BY <1>1, <1>3, <3>1
  <2> QED BY <2>1
<1>5. \A w \in R!Wanted(program, m) : \E a \in DOMAIN f : f[a] = w
  BY <1>1, <1>3
<1> HIDE DEF f
<1>6. {f[a] : a \in DOMAIN f} = R!Wanted(program, m)
  BY <1>4, <1>5
<1> QED BY <1>6 DEF f

-----------------------------------------------------------------------------
\* Steps that touch no table.

LEMMA SameDepsMade ==
  ASSUME program' = program, NEW m, deps'[m] = deps[m]
  PROVE  DepsMade(m)' = DepsMade(m)
<1>1. Requests(m)' = Requests(m)
  BY SameRequests
<1> QED BY <1>1 DEF DepsMade, DepsAre

LEMMA FailKeeps ==
  ASSUME Invariant, NEW e, Fail(e), e # Ok,
         e = "InvalidDependencyCycle" => CycleFound,
         program' = program, frames' = frames, deps' = deps, visited' = visited,
         DOMAIN globals' = DOMAIN globals, DOMAIN exported' = DOMAIN exported
  PROVE  Invariant'
<1>1. phase' = "failed" /\ error' = e
  BY DEF Fail
<1>2. Shape'
  BY <1>1 DEF Invariant, Shape, TypeOK
<1>3. (error' = "InvalidDependencyCycle") => CycleFound'
  BY <1>1 DEF CycleFound
<1> QED BY <1>1, <1>2, <1>3 DEF Invariant

\* What the invariant says while modules are loaded.
LEMMA LoadFacts ==
  ASSUME Invariant, phase = "load"
  PROVE  /\ Shape /\ LoadShape /\ TypeOK /\ program \in Programs /\ error = Ok
         /\ Len(frames) \in Nat /\ DOMAIN frames = 1 .. Len(frames)
         /\ frames # <<>> => Len(frames) >= 1 /\ Root \in DOMAIN deps /\ Root \in DOMAIN program
         /\ \A i \in DOMAIN frames : /\ frames[i].module \in DOMAIN deps
                                     /\ frames[i].module \in DOMAIN program
<1>1. Shape /\ LoadShape /\ TypeOK /\ program \in Programs /\ error = Ok /\ Listed(frames)
  BY DEF Invariant, Shape, TypeOK, LoadShape
<1>2. Len(frames) \in Nat /\ DOMAIN frames = 1 .. Len(frames)
  BY <1>1, ListedSeq
<1>3. \A i \in DOMAIN frames : frames[i].module \in DOMAIN deps /\ frames[i].module \in DOMAIN program
  BY <1>1 DEF Shape, TypeOK
<1>4. ASSUME frames # <<>> PROVE Len(frames) >= 1 /\ Root \in DOMAIN deps /\ Root \in DOMAIN program
  <2>1. Len(frames) >= 1 /\ 1 \in DOMAIN frames
    BY <1>1, <1>4, ListedTop
  <2>2. frames[1].module = Root
    BY <1>1, <1>4 DEF LoadShape
  <2> QED BY <1>3, <2>1, <2>2
<1> QED BY <1>1, <1>2, <1>3, <1>4

LEMMA LoadPush ==
  ASSUME Invariant, phase = "load", NEW m, ResolveModule(m),
         program' = program, walk' = walk, refs' = refs, visited' = visited,
         \/ frames = <<>> /\ m = Root
         \/ /\ frames # <<>> /\ m \notin DOMAIN deps
            /\ \E i \in DOMAIN frames : m \in R!Wanted(program, frames[i].module)
  PROVE  Invariant'
<1>1. CASE FileFault(m) # Ok
  <2>1. FileFault(m) # "InvalidDependencyCycle"
    BY DEF FileFault, Ok
  <2>2. Fail(FileFault(m)) /\ frames' = frames /\ deps' = deps /\ globals' = globals /\ exported' = exported
    BY <1>1 DEF ResolveModule
  <2> HIDE DEF FileFault
  <2> QED BY <1>1, <2>1, <2>2, FailKeeps
<1>2. CASE FileFault(m) = Ok
  <2> DEFINE frame == [module |-> m, next |-> 1]
             l == Len(frames)
  <2>1. /\ frames' = Append(frames, frame) /\ deps' = Set(deps, m, NoNames)
        /\ globals' = Set(globals, m, NoNames) /\ exported' = Set(exported, m, NoNames)
        /\ phase' = phase /\ error' = error
    BY <1>2 DEF ResolveModule
  <2>2. m \in DOMAIN program
    BY <1>2 DEF FileFault, Ok
  <2>f. /\ Shape /\ LoadShape /\ TypeOK /\ program \in Programs /\ error = Ok
        /\ l \in Nat /\ DOMAIN frames = 1 .. l
        /\ \A i \in DOMAIN frames : frames[i].module \in DOMAIN deps
        /\ Listed(frames)
    BY LoadFacts DEF LoadShape
  <2>g. DOMAIN globals = DOMAIN deps /\ DOMAIN exported = DOMAIN deps
    BY <2>f DEF TypeOK
  <2>3. m \notin DOMAIN deps
    BY <2>f DEF LoadShape
  <2>4. /\ DOMAIN deps' = DOMAIN deps \cup {m} /\ deps'[m] = NoNames
        /\ \A z \in DOMAIN deps : deps'[z] = deps[z]
    BY <2>1, <2>3 DEF Set
  <2>5. /\ DOMAIN globals' = DOMAIN deps \cup {m} /\ globals'[m] = NoNames
        /\ \A z \in DOMAIN deps : globals'[z] = globals[z]
    BY <2>1, <2>3, <2>g DEF Set
  <2>6. /\ DOMAIN exported' = DOMAIN deps \cup {m} /\ exported'[m] = NoNames
        /\ \A z \in DOMAIN deps : exported'[z] = exported[z]
    BY <2>1, <2>3, <2>g DEF Set
  <2>7. /\ Listed(frames') /\ frames' # <<>> /\ DOMAIN frames' = 1 .. l + 1 /\ frames'[l + 1] = frame
        /\ \A i \in 1 .. l : frames'[i] = frames[i]
    <3> HIDE DEF frame
    <3> QED BY <2>1, <2>f, ListedPush DEF l
  <2>8. frame.module = m /\ frame.next = 1
    OBVIOUS
  <2> HIDE DEF frame, l
  <2>9. \A i \in 1 .. l + 1 : i = l + 1 \/ (i \in 1 .. l /\ frames[i].module # m)
    BY <2>3, <2>f
  <2>10. TypeOK'
    <3>1. \A x \in DOMAIN deps' : \A a \in DOMAIN deps'[x] : deps'[x][a] \in DOMAIN deps'
      <4>1. DOMAIN NoNames = {}
        BY DEF NoNames
      <4> QED BY <2>4, <2>f, <4>1 DEF TypeOK
    <3>2. \A i \in DOMAIN frames' : frames'[i].module \in DOMAIN deps'
      BY <2>4, <2>7, <2>8, <2>9, <2>f
    <3>3. visited' \subseteq DOMAIN deps'
      BY <2>4, <2>f DEF TypeOK
    <3> QED BY <2>1, <2>4, <2>5, <2>6, <2>f, <3>1, <3>2, <3>3 DEF TypeOK
  <2>11. Shape'
    BY <2>2, <2>4, <2>10, <2>f DEF Shape
  <2>12. OnFrames' = OnFrames \cup {m}
    <3>1. l + 1 \in 1 .. l + 1 /\ \A i \in 1 .. l : i \in 1 .. l + 1
      BY <2>f
    <3>2. {frames'[i].module : i \in 1 .. l + 1} = {frames[i].module : i \in 1 .. l} \cup {m}
      BY <2>7, <2>8, <2>9, <3>1
    <3> QED BY <2>7, <2>f, <3>2 DEF OnFrames
  <2>13. IF frames' = <<>> THEN DOMAIN deps' = {}
         ELSE frames'[1].module = Root /\ DOMAIN deps' \subseteq {Root} \cup After(program, Root)
    <3>1. CASE frames = <<>> /\ m = Root
      <4>1. l = 0 /\ DOMAIN deps = {}
        BY <3>1, <2>f, LenProperties, EmptySeq DEF LoadShape, l
      <4> QED BY <2>4, <2>7, <2>8, <3>1, <4>1
    <3>2. CASE frames # <<>> /\ \E i \in DOMAIN frames : m \in R!Wanted(program, frames[i].module)
      <4>1. Root \in DOMAIN program /\ l >= 1
        BY <3>2, LoadFacts DEF l
      <4>2. frames[1].module = Root /\ DOMAIN deps \subseteq {Root} \cup After(program, Root)
        BY <2>f, <3>2 DEF LoadShape
      <4>3. PICK i \in DOMAIN frames : m \in R!Wanted(program, frames[i].module)
        BY <3>2
      <4>4. frames[i].module \in {Root} \cup After(program, Root)
        BY <2>f, <4>2
      <4>5. m \in After(program, Root)
        BY <2>2, <2>f, <4>1, <4>3, <4>4, ReachMore
      <4>6. frames'[1].module = Root
        BY <2>7, <2>f, <4>1, <4>2
      <4> QED BY <2>4, <2>7, <4>2, <4>5, <4>6
    <3> QED BY <3>1, <3>2
  <2>14. \A i, j \in DOMAIN frames' : i # j => frames'[i].module # frames'[j].module
    BY <2>7, <2>8, <2>9, <2>f DEF LoadShape
  <2>15. \A i \in DOMAIN frames' : DepsAre(frames[i].module, frames[i].next)'
    <3>1. ASSUME NEW i \in 1 .. l + 1 PROVE DepsAre(frames[i].module, frames[i].next)'
      <4>1. CASE i = l + 1
        <5>1. DepsAre(m, 1)'
          BY <2>2, <2>4, <2>f, DepsStarted
        <5> QED BY <2>7, <2>8, <4>1, <5>1
      <4>2. CASE i \in 1 .. l
        <5>1. frames'[i] = frames[i] /\ DepsAre(frames[i].module, frames[i].next)
              /\ frames[i].module \in DOMAIN deps
          BY <2>7, <2>f, <4>2 DEF LoadShape
        <5>2. deps'[frames[i].module] = deps[frames[i].module]
          BY <2>4, <5>1
        <5>3. DepsAre(frames[i].module, frames[i].next)'
          BY <5>1, <5>2, DepsKept
        <5> QED BY <5>1, <5>3
      <4> QED BY <2>9, <4>1, <4>2
    <3> QED BY <2>7, <3>1
  <2>16. \A x \in DOMAIN deps' \ OnFrames' : DepsMade(x)'
    <3>1. ASSUME NEW x \in DOMAIN deps \ OnFrames PROVE DepsMade(x)'
      BY <2>4, <2>f, SameDepsMade DEF LoadShape
    <3> QED BY <2>4, <2>12, <3>1
  <2>17. \A x \in DOMAIN deps' : Untouched(x)'
    BY <2>4, <2>5, <2>6, <2>f DEF LoadShape, Untouched
  <2>18. walk' = <<>> /\ visited' = {} /\ refs' = NoNames /\ program' = program
    BY <2>f DEF LoadShape
  <2>19. LoadShape'
    BY <2>7, <2>13, <2>14, <2>15, <2>16, <2>17, <2>18 DEF LoadShape
  <2> QED BY <2>1, <2>11, <2>19, <2>f DEF Invariant, Ok
<1> QED BY <1>1, <1>2

LEMMA LoadAdd ==
  ASSUME Invariant, phase = "load", frames # <<>>,
         NEW m, m = Top(frames).module, NEW n \in 1 .. Len(Requests(m)), n = Top(frames).next,
         ~Requests(m)[n].all, Requests(m)[n].name \in DOMAIN deps,
         AddDependency(m, Requests(m)[n]),
         program' = program, walk' = walk, refs' = refs, visited' = visited
  PROVE  Invariant'
<1> DEFINE request == Requests(m)[n]
<1>1. CASE request.as \in DOMAIN deps[m]
  <2>1. Fail("NameAlreadyDefined") /\ frames' = frames /\ deps' = deps /\ globals' = globals /\ exported' = exported
    BY <1>1 DEF AddDependency
  <2>2. "NameAlreadyDefined" # Ok /\ "NameAlreadyDefined" # "InvalidDependencyCycle"
    BY DEF Ok
  <2> QED BY <2>1, <2>2, FailKeeps
<1>2. CASE request.as \notin DOMAIN deps[m]
  <2> DEFINE frame == [module |-> m, next |-> n + 1]
             l == Len(frames)
             table == Set(deps[m], request.as, request.name)
  <2>1. /\ frames' = Advanced(frames, frame) /\ deps' = [deps EXCEPT ![m] = table]
        /\ globals' = globals /\ exported' = exported
        /\ phase' = phase /\ error' = error
    BY <1>2 DEF AddDependency
  <2>f. /\ Shape /\ LoadShape /\ TypeOK /\ program \in Programs /\ error = Ok
        /\ l \in Nat /\ l >= 1 /\ DOMAIN frames = 1 .. l
        /\ \A i \in DOMAIN frames : frames[i].module \in DOMAIN deps /\ frames[i].module \in DOMAIN program
        /\ Listed(frames) /\ frames # <<>>
    BY LoadFacts DEF LoadShape
  <2>2. Top(frames) = frames[l] /\ l \in 1 .. l
    BY <2>f, ListedTop DEF l
  <2>3. m \in DOMAIN deps /\ m \in DOMAIN program /\ DepsAre(m, n) /\ frames[l].module = m
    BY <2>2, <2>f DEF LoadShape
  <2>4. /\ DOMAIN deps' = DOMAIN deps /\ deps'[m] = table
        /\ \A z \in DOMAIN deps : z # m => deps'[z] = deps[z]
    BY <2>1, <2>3
  <2>5. /\ Listed(frames') /\ frames' # <<>> /\ DOMAIN frames' = 1 .. l /\ frames'[l] = frame
        /\ \A i \in 1 .. l : i # l => frames'[i] = frames[i]
    <3> HIDE DEF frame
    <3> QED BY <2>1, <2>f, ListedAdvanced DEF l
  <2>6. frame.module = m /\ frame.next = n + 1
    OBVIOUS
  <2>7. /\ DOMAIN table = DOMAIN deps[m] \cup {request.as} /\ table[request.as] = request.name
        /\ \A a \in DOMAIN deps[m] : table[a] = deps[m][a]
    BY <1>2 DEF Set
  <2> HIDE DEF frame, l, table
  <2>8. \A i \in 1 .. l : frames'[i].module = frames[i].module
    BY <2>3, <2>5, <2>6
  <2>9. TypeOK'
    <3>1. ASSUME NEW x \in DOMAIN deps, NEW a \in DOMAIN deps'[x] PROVE deps'[x][a] \in DOMAIN deps
      <4>1. CASE x = m
        BY <2>4, <2>7, <2>f, <3>1, <4>1 DEF TypeOK
      <4>2. CASE x # m
        BY <2>4, <2>f, <3>1, <4>2 DEF TypeOK
      <4> QED BY <4>1, <4>2
    <3>2. \A i \in DOMAIN frames' : frames'[i].module \in DOMAIN deps'
      BY <2>4, <2>5, <2>8, <2>f
    <3> QED BY <2>1, <2>4, <2>f, <3>1, <3>2 DEF TypeOK
  <2>10. Shape'
    BY <2>4, <2>9, <2>f DEF Shape
  <2>11. OnFrames' = OnFrames
    BY <2>5, <2>8, <2>f DEF OnFrames
  <2>12. /\ frames'[1].module = Root /\ DOMAIN deps' \subseteq {Root} \cup After(program, Root)
    BY <2>4, <2>8, <2>f DEF LoadShape
  <2>13. \A i, j \in DOMAIN frames' : i # j => frames'[i].module # frames'[j].module
    BY <2>5, <2>8, <2>f DEF LoadShape
  <2>14. \A i \in DOMAIN frames' : DepsAre(frames[i].module, frames[i].next)'
    <3>1. ASSUME NEW i \in 1 .. l PROVE DepsAre(frames[i].module, frames[i].next)'
      <4>1. CASE i = l
        <5>1. deps'[m] = Set(deps[m], Requests(m)[n].as, Requests(m)[n].name)
          BY <2>4 DEF table
        <5>2. DepsAre(m, n + 1)'
          BY <1>2, <2>3, <2>f, <5>1, DepsMore
        <5> QED BY <2>5, <2>6, <4>1, <5>2
      <4>2. CASE i # l
        <5>1. frames'[i] = frames[i] /\ DepsAre(frames[i].module, frames[i].next)
              /\ frames[i].module \in DOMAIN deps /\ frames[i].module # m
          BY <2>2, <2>3, <2>5, <2>f, <4>2 DEF LoadShape
        <5>2. deps'[frames[i].module] = deps[frames[i].module]
          BY <2>4, <5>1
        <5>3. DepsAre(frames[i].module, frames[i].next)'
          BY <5>1, <5>2, DepsKept
        <5> QED BY <5>1, <5>3
      <4> QED BY <4>1, <4>2
    <3> QED BY <2>5, <3>1
  <2>15. \A x \in DOMAIN deps' \ OnFrames' : DepsMade(x)'
    <3>1. ASSUME NEW x \in DOMAIN deps \ OnFrames PROVE DepsMade(x)'
      <4>1. x # m
        BY <2>2, <2>3, <2>f DEF OnFrames
      <4>2. deps'[x] = deps[x] /\ DepsMade(x)
        BY <2>4, <2>f, <4>1 DEF LoadShape
      <4> QED BY <4>2, SameDepsMade
    <3> QED BY <2>4, <2>11, <3>1
  <2>16. \A x \in DOMAIN deps' : Untouched(x)'
    BY <2>1, <2>4, <2>f DEF LoadShape, Untouched
  <2>17. walk' = <<>> /\ visited' = {} /\ refs' = NoNames /\ program' = program
    BY <2>f DEF LoadShape
  <2>18. LoadShape'
    BY <2>5, <2>12, <2>13, <2>14, <2>15, <2>16, <2>17 DEF LoadShape
  <2> QED BY <2>1, <2>10, <2>18, <2>f DEF Invariant, Ok
<1> QED BY <1>1, <1>2

LEMMA ResolveDependencyKeeps ==
  ASSUME Invariant, ResolveDependency
  PROVE  Invariant'
<1> DEFINE m == Top(frames).module
           n == Top(frames).next
           request == Requests(m)[n]
<1>1. /\ phase = "load" /\ frames # <<>> /\ n <= Len(Requests(m))
      /\ IF request.all
         THEN Fail("CantImportAll") /\ UNCHANGED <<frames, deps, globals, exported>>
         ELSE IF request.name \in DOMAIN deps THEN AddDependency(m, request)
         ELSE ResolveModule(request.name)
      /\ program' = program /\ walk' = walk /\ refs' = refs /\ visited' = visited
  BY DEF ResolveDependency
<1>2. /\ LoadShape /\ program \in Programs /\ Len(frames) \in DOMAIN frames
      /\ m = frames[Len(frames)].module /\ n = frames[Len(frames)].next
      /\ m \in DOMAIN program /\ frames # <<>>
  BY <1>1, LoadFacts, ListedTop DEF LoadShape
<1>3. n \in 1 .. Len(Requests(m)) + 1
  BY <1>2 DEF LoadShape, DepsAre
<1>4. Len(Requests(m)) \in Nat
  BY <1>2, RequestsWanted
<1> HIDE DEF m, n
<1>5. n \in 1 .. Len(Requests(m))
  BY <1>1, <1>3, <1>4
<1>6. CASE request.all
  <2>1. "CantImportAll" # Ok /\ "CantImportAll" # "InvalidDependencyCycle"
    BY DEF Ok
  <2> QED BY <1>1, <1>6, <2>1, FailKeeps
<1>7. CASE ~request.all /\ request.name \in DOMAIN deps
  <2>1. m = Top(frames).module /\ n = Top(frames).next
    BY DEF m, n
  <2> QED BY <1>1, <1>5, <1>7, <2>1, LoadAdd
<1>8. CASE ~request.all /\ request.name \notin DOMAIN deps
  <2>1. request.name \in R!Wanted(program, m)
    BY <1>2, <1>5, <1>8, RequestsWanted
  <2>2. \E i \in DOMAIN frames : request.name \in R!Wanted(program, frames[i].module)
    BY <1>2, <2>1
  <2>3. ResolveModule(request.name)
    BY <1>1, <1>8
  <2> DEFINE r == request.name
  <2>4. ResolveModule(r) /\ r \notin DOMAIN deps
        /\ \E i \in DOMAIN frames : r \in R!Wanted(program, frames[i].module)
    BY <1>8, <2>2, <2>3
  <2> HIDE DEF r
  <2> QED BY <1>1, <2>4, LoadPush
<1> QED BY <1>6, <1>7, <1>8

LEMMA ResolveRootKeeps ==
  ASSUME Invariant, ResolveRoot
  PROVE  Invariant'
BY LoadPush DEF ResolveRoot

\* When every loaded module has left the stack, they are what Root reaches.
LEMMA AllLoaded ==
  ASSUME program \in Programs, Root \in DOMAIN deps, DOMAIN deps \subseteq DOMAIN program,
         DOMAIN deps \subseteq {Root} \cup After(program, Root),
         \A m \in DOMAIN deps : \A a \in DOMAIN deps[m] : deps[m][a] \in DOMAIN deps,
         \A m \in DOMAIN deps : DepsMade(m)
  PROVE  Loaded
<1>1. IsFiniteSet(DOMAIN program) /\ Root \in DOMAIN program
  BY FinitePrograms
<1>2. ASSUME NEW m \in DOMAIN deps PROVE Wants(program, m) \subseteq DOMAIN deps
  <2>1. {deps[m][a] : a \in DOMAIN deps[m]} = R!Wanted(program, m)
    BY DepsWanted
  <2> QED BY <2>1 DEF Wants
<1>3. After(program, Root) \subseteq DOMAIN deps
  BY <1>1, <1>2, AfterClosed
<1> QED BY <1>3 DEF Loaded

LEMMA ModuleLoadedKeeps ==
  ASSUME Invariant, ModuleLoaded
  PROVE  Invariant'
<1> DEFINE l == Len(frames)
           m == frames[l].module
<1>1. /\ phase = "load" /\ frames # <<>>
      /\ Top(frames).next > Len(Requests(Top(frames).module))
      /\ frames' = Front(frames)
      /\ program' = program /\ error' = error /\ deps' = deps /\ globals' = globals
      /\ exported' = exported /\ refs' = refs /\ visited' = visited
      /\ IF l = 1 THEN phase' = "cycles" /\ walk' = <<[at |-> Root, rest |-> DOMAIN deps[Root]]>>
         ELSE phase' = phase /\ walk' = walk
  BY DEF ModuleLoaded
<1>2. /\ Shape /\ LoadShape /\ TypeOK /\ program \in Programs /\ error = Ok
      /\ l \in Nat /\ l >= 1 /\ DOMAIN frames = 1 .. l
      /\ \A i \in DOMAIN frames : frames[i].module \in DOMAIN deps /\ frames[i].module \in DOMAIN program
      /\ Root \in DOMAIN deps /\ Listed(frames)
  BY <1>1, LoadFacts DEF LoadShape
<1>3. Top(frames) = frames[l] /\ l \in 1 .. l
  BY <1>1, <1>2, ListedTop DEF l
<1>4. /\ Listed(frames') /\ DOMAIN frames' = 1 .. l - 1
      /\ \A i \in 1 .. l - 1 : frames'[i] = frames[i]
      /\ (l = 1) = (frames' = <<>>)
  BY <1>1, <1>2, ListedPop DEF l
<1>5. l \in Nat
  BY <1>2
<1>7. DepsMade(m)
  <2>1. Len(Requests(m)) \in Nat
    BY <1>2, <1>3, RequestsWanted
  <2>2. DepsAre(m, frames[l].next) /\ frames[l].next > Len(Requests(m))
    BY <1>1, <1>2, <1>3 DEF LoadShape
  <2>3. frames[l].next = Len(Requests(m)) + 1
    BY <2>1, <2>2 DEF DepsAre
  <2> QED BY <2>2, <2>3 DEF DepsMade
<1> HIDE DEF l, m
<1>5a. \A i \in 1 .. l : i = l \/ i \in 1 .. l - 1
  BY <1>5
<1>6. \A i \in 1 .. l - 1 : i \in 1 .. l /\ i # l
  BY <1>5
<1>8. OnFrames = OnFrames' \cup {m}
  BY <1>2, <1>3, <1>4, <1>5a, <1>6 DEF OnFrames, m
<1>9. \A x \in DOMAIN deps \ OnFrames' : DepsMade(x)
  BY <1>2, <1>7, <1>8 DEF LoadShape
<1>10. \A x : DepsMade(x)' = DepsMade(x)
  BY <1>1, SameDepsMade
<1>11. TypeOK'
  <2>1. phase' \in {"load", "cycles"} /\ error' = Ok
    BY <1>1, <1>2
  <2>2. \A i \in DOMAIN frames' : frames'[i].module \in DOMAIN deps
    BY <1>2, <1>4, <1>6
  <2> QED BY <1>1, <1>2, <2>1, <2>2 DEF TypeOK
<1>12. Shape'
  BY <1>1, <1>2, <1>11 DEF Shape
<1>13. \A x \in DOMAIN deps : Untouched(x)'
  BY <1>1, <1>2 DEF LoadShape, Untouched
<1>14. DOMAIN deps \subseteq {Root} \cup After(program, Root)
  BY <1>1, <1>2 DEF LoadShape
<1>15. CASE l = 1
  <2>1. phase' = "cycles" /\ walk' = <<[at |-> Root, rest |-> DOMAIN deps[Root]]>> /\ frames' = <<>>
    BY <1>1, <1>4, <1>15
  <2>2. Loaded'
    <3>1. OnFrames' = {}
      BY <1>2, <1>4, <1>15 DEF OnFrames
    <3>2. \A x \in DOMAIN deps : DepsMade(x)
      BY <1>9, <3>1
    <3>3. Loaded
      BY <1>2, <1>14, <3>2, AllLoaded DEF Shape, TypeOK
    <3> QED BY <1>1, <1>10, <3>3 DEF Loaded
  <2>3. /\ Listed(walk') /\ walk' # <<>> /\ DOMAIN walk' = {1}
        /\ walk'[1].at = Root /\ walk'[1].rest = DOMAIN deps[Root]
        /\ walk'[1] = [at |-> walk'[1].at, rest |-> walk'[1].rest]
    <3> DEFINE x == [at |-> Root, rest |-> DOMAIN deps[Root]]
    <3>1. x.at = Root /\ x.rest = DOMAIN deps[Root] /\ x = [at |-> x.at, rest |-> x.rest]
      OBVIOUS
    <3> HIDE DEF x
    <3>2. <<x>> \in Seq({x}) /\ <<x>> # <<>> /\ DOMAIN <<x>> = {1} /\ <<x>>[1] = x
      OBVIOUS
    <3>3. walk' = <<x>>
      BY <2>1 DEF x
    <3> QED BY <3>1, <3>2, <3>3, SeqListed
  <2>4. CyclesShape'
    BY <1>1, <1>2, <1>13, <2>1, <2>2, <2>3 DEF CyclesShape, LoadShape
  <2> QED BY <1>1, <1>2, <1>12, <2>1, <2>4 DEF Invariant, Ok
<1>16. CASE l # 1
  <2>1. phase' = phase /\ walk' = walk /\ frames' # <<>> /\ 1 \in 1 .. l - 1
    BY <1>1, <1>2, <1>4, <1>16
  <2>2. frames'[1].module = Root
    BY <1>1, <1>2, <1>4, <2>1 DEF LoadShape
  <2>3. \A i, j \in DOMAIN frames' : i # j => frames'[i].module # frames'[j].module
    BY <1>2, <1>4, <1>6 DEF LoadShape
  <2>4. \A i \in DOMAIN frames' : DepsAre(frames[i].module, frames[i].next)'
    <3>1. ASSUME NEW i \in 1 .. l - 1 PROVE DepsAre(frames[i].module, frames[i].next)'
      <4>1. frames'[i] = frames[i] /\ DepsAre(frames[i].module, frames[i].next)
        BY <1>2, <1>4, <1>6 DEF LoadShape
      <4>2. DepsAre(frames[i].module, frames[i].next)'
        BY <1>1, <4>1, DepsKept
      <4> QED BY <4>1, <4>2
    <3> QED BY <1>4, <3>1
  <2>5. LoadShape'
    BY <1>1, <1>2, <1>4, <1>9, <1>10, <1>13, <1>14, <2>1, <2>2, <2>3, <2>4 DEF LoadShape
  <2> QED BY <1>1, <1>2, <1>12, <2>1, <2>5 DEF Invariant, Ok
<1> QED BY <1>15, <1>16

-----------------------------------------------------------------------------
\* The walk over the imports.

LEMMA CyclesFacts ==
  ASSUME Invariant, phase = "cycles"
  PROVE  /\ Shape /\ CyclesShape /\ TypeOK /\ Loaded /\ program \in Programs /\ error = Ok
         /\ Len(walk) \in Nat /\ Len(walk) >= 1 /\ DOMAIN walk = 1 .. Len(walk)
         /\ Top(walk) = walk[Len(walk)] /\ Listed(walk) /\ walk # <<>>
         /\ IsFiniteSet(DOMAIN program) /\ Root \in DOMAIN deps
         /\ \A m \in DOMAIN deps : m \in DOMAIN program /\ m \in {Root} \cup After(program, Root)
         /\ \A m \in DOMAIN deps : {deps[m][a] : a \in DOMAIN deps[m]} = R!Wanted(program, m)
         /\ \A m \in DOMAIN deps : \A a \in DOMAIN deps[m] :
              deps[m][a] \in DOMAIN deps /\ deps[m][a] \in Wants(program, m)
         /\ \A k \in DOMAIN walk : walk[k].at \in DOMAIN deps
<1>1. /\ Shape /\ CyclesShape /\ TypeOK /\ Loaded /\ program \in Programs /\ error = Ok
      /\ Listed(walk) /\ walk # <<>>
  BY DEF Invariant, Shape, TypeOK, CyclesShape
<1>2. /\ Len(walk) \in Nat /\ Len(walk) >= 1 /\ DOMAIN walk = 1 .. Len(walk)
      /\ Top(walk) = walk[Len(walk)]
  BY <1>1, ListedTop
<1>3. IsFiniteSet(DOMAIN program) /\ Root \in DOMAIN deps
  BY <1>1, FinitePrograms DEF Loaded
<1>4. \A m \in DOMAIN deps : m \in DOMAIN program /\ m \in {Root} \cup After(program, Root)
  BY <1>1 DEF Loaded, Shape
<1>5. ASSUME NEW m \in DOMAIN deps
      PROVE {deps[m][a] : a \in DOMAIN deps[m]} = R!Wanted(program, m)
  BY <1>1, <1>4, DepsWanted DEF Loaded
<1>6. ASSUME NEW m \in DOMAIN deps, NEW a \in DOMAIN deps[m]
      PROVE deps[m][a] \in DOMAIN deps /\ deps[m][a] \in Wants(program, m)
  <2>1. deps[m][a] \in DOMAIN deps
    BY <1>1 DEF TypeOK
  <2>2. deps[m][a] \in R!Wanted(program, m)
    BY <1>5
  <2> QED BY <1>4, <2>1, <2>2 DEF Wants
<1>7. \A k \in DOMAIN walk : walk[k].at \in DOMAIN deps
  BY <1>1 DEF CyclesShape
<1> QED BY <1>1, <1>2, <1>3, <1>4, <1>5, <1>6, <1>7

LEMMA WalkTrimmed ==
  ASSUME NEW at, NEW rest, NEW new
  PROVE  [[at |-> at, rest |-> rest] EXCEPT !.rest = new] = [at |-> at, rest |-> new]
OBVIOUS

LEMMA CheckDepCycleKeeps ==
  ASSUME Invariant, CheckDepCycle
  PROVE  Invariant'
<1> DEFINE l == Len(walk)
           x == walk[l].at
<1>1. phase = "cycles" /\ walk # <<>>
      /\ program' = program /\ frames' = frames /\ deps' = deps /\ globals' = globals
      /\ exported' = exported /\ refs' = refs /\ visited' = visited
  BY DEF CheckDepCycle
<1>f. /\ Shape /\ CyclesShape /\ TypeOK /\ Loaded /\ program \in Programs /\ error = Ok
      /\ l \in Nat /\ l >= 1 /\ DOMAIN walk = 1 .. l
      /\ Top(walk) = walk[l] /\ Listed(walk)
      /\ Root \in DOMAIN deps
      /\ \A m \in DOMAIN deps : m \in DOMAIN program /\ m \in {Root} \cup After(program, Root)
      /\ \A m \in DOMAIN deps : \A a \in DOMAIN deps[m] :
           deps[m][a] \in DOMAIN deps /\ deps[m][a] \in Wants(program, m)
  BY <1>1, CyclesFacts
<1>2. PICK name \in walk[l].rest :
        LET m == deps[x][name]
        IN IF DepHasVisited(m)
           THEN Fail("InvalidDependencyCycle") /\ UNCHANGED walk
           ELSE /\ walk' = Append(Advanced(walk, [walk[l] EXCEPT !.rest = @ \ {name}]),
                                  [at |-> m, rest |-> DOMAIN deps[m]])
                /\ UNCHANGED <<phase, error>>
  BY <1>f DEF CheckDepCycle
<1> DEFINE m == deps[x][name]
<1>3. l \in 1 .. l /\ l \in Nat
  BY <1>f
<1>4. /\ walk[l] = [at |-> walk[l].at, rest |-> walk[l].rest]
      /\ x \in DOMAIN deps /\ walk[l].rest \subseteq DOMAIN deps[x]
      /\ \A j \in 1 .. l - 1 : x \in After(program, walk[j].at)
      /\ \A a \in DOMAIN deps[x] \ walk[l].rest : Checked(l, a)
  BY <1>3, <1>f DEF CyclesShape
<1>5. m \in DOMAIN deps /\ m \in DOMAIN program /\ m \in Wants(program, x) /\ m \in R!Wanted(program, x)
  BY <1>2, <1>4, <1>f DEF Wants
<1>6. ASSUME NEW j \in 1 .. l PROVE x \in {walk[j].at} \cup After(program, walk[j].at) /\ walk[j].at \in DOMAIN program
  <2>1. j = l \/ j \in 1 .. l - 1
    BY <1>3
  <2>2. walk[j].at \in DOMAIN program
    BY <1>f DEF CyclesShape
  <2> QED BY <1>4, <2>1, <2>2
<1>7. CASE DepHasVisited(m)
  <2>1. PICK k \in 2 .. l : walk[k].at = m
    BY <1>7 DEF DepHasVisited
  <2>2. k \in 1 .. l
    BY <2>1, <1>3
  <2>3. x \in {m} \cup After(program, m)
    BY <1>6, <2>1, <2>2
  <2> HIDE DEF m, x
  <2>4. m \in After(program, m)
    BY <1>5, <1>f, <2>3, ReachMore
  <2>5. CycleFound
    BY <1>5, <1>f, <2>4 DEF CycleFound, Acyclic
  <2>6. Fail("InvalidDependencyCycle") /\ "InvalidDependencyCycle" # Ok
    BY <1>2, <1>7 DEF Ok, m
  <2> QED BY <1>1, <2>5, <2>6, FailKeeps
<1>8. CASE ~DepHasVisited(m)
  <2> DEFINE u == [walk[l] EXCEPT !.rest = @ \ {name}]
             v == [at |-> m, rest |-> DOMAIN deps[m]]
             s == Advanced(walk, u)
  <2>1. walk' = Append(s, v) /\ phase' = phase /\ error' = error
    BY <1>2, <1>8
  <2>0. u = [at |-> x, rest |-> walk[l].rest \ {name}]
    <3> HIDE DEF x
    <3>1. walk[l] = [at |-> x, rest |-> walk[l].rest]
      BY <1>4 DEF x
    <3> DEFINE rest == walk[l].rest
               new == rest \ {name}
    <3>2. walk[l] = [at |-> x, rest |-> rest] /\ u = [walk[l] EXCEPT !.rest = new]
      BY <3>1
    <3> HIDE DEF u, rest, new
    <3>3. u = [[at |-> x, rest |-> rest] EXCEPT !.rest = new]
      BY <3>2
    <3>4. u = [at |-> x, rest |-> new]
      BY <3>3, WalkTrimmed
    <3> QED BY <3>4 DEF rest, new
  <2>2. /\ u.at = x /\ u.rest = walk[l].rest \ {name} /\ u = [at |-> u.at, rest |-> u.rest]
        /\ v.at = m /\ v.rest = DOMAIN deps[m] /\ v = [at |-> v.at, rest |-> v.rest]
    <3> HIDE DEF u, x, m
    <3> QED BY <2>0
  <2> HIDE DEF u, v
  <2>3. Listed(s) /\ Len(s) = l /\ s[l] = u /\ \A i \in 1 .. l : i # l => s[i] = walk[i]
    BY <1>1, <1>f, ListedAdvanced
  <2> HIDE DEF s, l
  <2>4. /\ Listed(walk') /\ walk' # <<>> /\ DOMAIN walk' = 1 .. l + 1 /\ walk'[l + 1] = v
        /\ \A i \in 1 .. l : walk'[i] = s[i]
    BY <2>1, <2>3, ListedPush
  <2> HIDE DEF x, m
  <2>5. \A i \in 1 .. l : walk'[i].at = walk[i].at
    BY <2>2, <2>3, <2>4 DEF x
  <2>6. \A i \in 1 .. l + 1 : i = l + 1 \/ (i \in 1 .. l /\ i = l) \/ (i \in 1 .. l /\ i # l /\ i \in 1 .. l - 1)
    BY <1>3
  <2>7. ASSUME NEW k \in 1 .. l + 1
        PROVE  /\ walk'[k] = [at |-> walk'[k].at, rest |-> walk'[k].rest]
               /\ walk'[k].at \in DOMAIN deps /\ walk'[k].rest \subseteq DOMAIN deps[walk'[k].at]
               /\ \A j \in 1 .. k - 1 : walk'[k].at \in After(program, walk'[j].at)
               /\ \A a \in DOMAIN deps[walk'[k].at] \ walk'[k].rest : Checked(k, a)'
    <3>1. CASE k = l + 1
      <4>1. walk'[k] = v
        BY <2>4, <3>1
      <4>2. ASSUME NEW j \in 1 .. k - 1 PROVE m \in After(program, walk'[j].at)
        <5>1. j \in 1 .. l
          BY <1>3, <3>1
        <5>2. x \in {walk[j].at} \cup After(program, walk[j].at) /\ walk[j].at \in DOMAIN program
          BY <1>6, <5>1
        <5>3. m \in After(program, walk[j].at)
          BY <1>5, <1>f, <5>2, ReachMore
        <5> QED BY <2>5, <5>1, <5>3
      <4> QED BY <1>5, <2>2, <4>1, <4>2
    <3>2. CASE k = l
      <4>1. walk'[k] = u /\ walk'[k].at = x
        BY <1>3, <2>2, <2>3, <2>4, <3>2
      <4>2. \A j \in 1 .. k - 1 : j \in 1 .. l /\ walk'[j].at = walk[j].at
        BY <1>3, <2>5, <3>2
      <4>3. ASSUME NEW a \in DOMAIN deps[x] \ u.rest PROVE Checked(k, a)'
        <5>1. CASE a = name
          <6>1. deps'[walk'[k].at][a] = m /\ k + 1 \in DOMAIN walk' /\ walk'[k + 1].at = m
            BY <1>1, <1>3, <2>2, <2>4, <3>2, <4>1, <5>1 DEF m
          <6> QED BY <6>1 DEF Checked
        <5>2. CASE a # name
          <6>1. Checked(l, a)
            BY <1>4, <2>2, <4>3, <5>2
          <6>2. l + 1 \notin DOMAIN walk
            BY <1>3, <1>f DEF l
          <6>3. Acyclic(program, deps[walk[l].at][a])
            BY <6>1, <6>2 DEF Checked
          <6>4. deps'[walk'[k].at][a] = deps[walk[l].at][a]
            BY <1>1, <4>1 DEF x
          <6> QED BY <1>1, <6>3, <6>4 DEF Checked
        <5> QED BY <5>1, <5>2
      <4> QED BY <1>4, <2>2, <3>2, <4>1, <4>2, <4>3
    <3>3. CASE k \in 1 .. l - 1
      <4>0. k \in 1 .. l /\ k # l
        BY <1>3, <3>3
      <4>1. k \in 1 .. l /\ k # l /\ walk'[k] = walk[k] /\ k \in DOMAIN walk
        BY <1>f, <2>3, <2>4, <4>0 DEF l
      <4>2. /\ walk[k] = [at |-> walk[k].at, rest |-> walk[k].rest]
            /\ walk[k].at \in DOMAIN deps /\ walk[k].rest \subseteq DOMAIN deps[walk[k].at]
            /\ \A j \in 1 .. k - 1 : walk[k].at \in After(program, walk[j].at)
            /\ \A a \in DOMAIN deps[walk[k].at] \ walk[k].rest : Checked(k, a)
        BY <1>f, <4>1 DEF CyclesShape
      <4>3. \A j \in 1 .. k - 1 : j \in 1 .. l
        BY <1>3, <3>3
      <4>4. \A j \in 1 .. k - 1 : walk'[j].at = walk[j].at
        BY <2>5, <4>3
      <4>5. k + 1 \in 1 .. l /\ k + 1 \in DOMAIN walk'
        BY <1>3, <2>4, <3>3
      <4>6. ASSUME NEW a \in DOMAIN deps[walk[k].at] \ walk[k].rest PROVE Checked(k, a)'
        <5>1. Checked(k, a) /\ walk'[k + 1].at = walk[k + 1].at /\ deps'[walk'[k].at][a] = deps[walk[k].at][a]
          BY <1>1, <2>5, <4>1, <4>2, <4>5
        <5> QED BY <1>1, <4>5, <5>1 DEF Checked
      <4> QED BY <4>1, <4>2, <4>4, <4>6
    <3> QED BY <2>6, <3>1, <3>2, <3>3
  <2>8. walk'[1].at = Root
    <3>1. walk[1].at = Root /\ 1 \in 1 .. l
      BY <1>f DEF CyclesShape, l
    <3> QED BY <2>5, <3>1
  <2>9. \A y : DepsMade(y)' = DepsMade(y)
    BY <1>1, SameDepsMade
  <2>10. Loaded'
    BY <1>1, <1>f, <2>9 DEF Loaded
  <2>11. \A y \in DOMAIN deps : Untouched(y)'
    BY <1>1, <1>f DEF CyclesShape, Untouched
  <2>12. CyclesShape'
    BY <1>1, <1>f, <2>4, <2>7, <2>8, <2>10, <2>11 DEF CyclesShape
  <2>13. Shape'
    BY <1>1, <1>f, <2>1 DEF Shape, TypeOK
  <2> QED BY <1>1, <1>f, <2>1, <2>12, <2>13 DEF Invariant, Ok
<1> QED BY <1>7, <1>8

LEMMA DependencyCheckedKeeps ==
  ASSUME Invariant, DependencyChecked
  PROVE  Invariant'
<1> DEFINE l == Len(walk)
           x == walk[l].at
<1>1. phase = "cycles" /\ walk # <<>> /\ Top(walk).rest = {}
      /\ program' = program /\ error' = error /\ deps' = deps /\ globals' = globals
      /\ exported' = exported /\ refs' = refs
      /\ walk' = Front(walk)
      /\ IF l = 1 THEN phase' = "names" /\ frames' = <<Resolving(Root)>> /\ visited' = {Root}
         ELSE phase' = phase /\ frames' = frames /\ visited' = visited
  BY DEF DependencyChecked
<1>f. /\ Shape /\ CyclesShape /\ TypeOK /\ Loaded /\ program \in Programs /\ error = Ok
      /\ l \in Nat /\ l >= 1 /\ DOMAIN walk = 1 .. l
      /\ Top(walk) = walk[l] /\ Listed(walk)
      /\ Root \in DOMAIN deps /\ IsFiniteSet(DOMAIN program)
      /\ \A m \in DOMAIN deps : m \in DOMAIN program
      /\ \A m \in DOMAIN deps : {deps[m][a] : a \in DOMAIN deps[m]} = R!Wanted(program, m)
  BY <1>1, CyclesFacts
<1>3. l \in 1 .. l /\ l \in Nat /\ 1 \in 1 .. l
  BY <1>f
<1> HIDE DEF l
<1>4. /\ x \in DOMAIN deps /\ x \in DOMAIN program /\ walk[l].rest = {}
      /\ \A a \in DOMAIN deps[x] : Checked(l, a)
  BY <1>1, <1>3, <1>f DEF CyclesShape
<1>5. Acyclic(program, x)
  <2>1. ASSUME NEW y \in Wants(program, x) PROVE Acyclic(program, y)
    <3>1. y \in R!Wanted(program, x)
      BY DEF Wants
    <3>2. PICK a \in DOMAIN deps[x] : y = deps[x][a]
      BY <1>4, <1>f, <3>1
    <3>3. Checked(l, a) /\ l + 1 \notin DOMAIN walk
      BY <1>3, <1>4, <1>f
    <3> QED BY <3>2, <3>3 DEF Checked
  <2> HIDE DEF x
  <2> QED BY <1>4, <1>f, <2>1, AcyclicIf
<1> HIDE DEF x
<1>6. /\ Listed(walk') /\ DOMAIN walk' = 1 .. l - 1
      /\ \A i \in 1 .. l - 1 : walk'[i] = walk[i]
      /\ (l = 1) = (walk' = <<>>)
  BY <1>1, <1>f, ListedPop DEF l
<1>7. \A i \in 1 .. l - 1 : i \in 1 .. l /\ i # l
  BY <1>3
<1>8. \A y : DepsMade(y)' = DepsMade(y)
  BY <1>1, SameDepsMade
<1>9. Loaded'
  BY <1>1, <1>8, <1>f DEF Loaded
<1>10. \A y \in DOMAIN deps : Untouched(y)'
  BY <1>1, <1>f DEF CyclesShape, Untouched
<1>11. CASE l = 1
  <2> DEFINE frame == Resolving(Root)
  <2>1. phase' = "names" /\ frames' = <<frame>> /\ visited' = {Root}
    BY <1>1, <1>11
  <2>2. x = Root
    BY <1>11, <1>f DEF CyclesShape, x
  <2>3. Acyclic(program', Root)
    BY <1>1, <1>5, <2>2
  <2>4. /\ frame.module = Root /\ frame.stage = "dependencies" /\ frame.todo = DOMAIN deps[Root]
        /\ frame = [module |-> frame.module, stage |-> frame.stage, todo |-> frame.todo]
    BY DEF Resolving
  <2> HIDE DEF frame
  <2>5. <<frame>> \in Seq({frame}) /\ <<frame>> # <<>> /\ DOMAIN <<frame>> = {1} /\ <<frame>>[1] = frame
        /\ Len(<<frame>>) = 1
    OBVIOUS
  <2>6. /\ Listed(frames') /\ frames' # <<>> /\ DOMAIN frames' = {1} /\ frames'[1] = frame
        /\ Len(frames') = 1
    BY <2>1, <2>5, SeqListed
  <2>7. Left' = {}
    BY <2>1, <2>4, <2>6 DEF Left, OnFrames
  <2>8. FrameShape(1)'
    <3>1. Untouched(Root)'
      BY <1>10, <1>f
    <3>2. \A a \in DOMAIN deps'[Root] \ frame.todo : FALSE
      BY <1>1, <2>4
    <3> QED BY <1>1, <2>1, <2>4, <2>6, <3>1, <3>2 DEF FrameShape
  <2>9. \A i \in DOMAIN frames' : FrameShape(i)'
    BY <2>6, <2>8
  <2>9a. \A y \in DOMAIN deps : TablesFinite(y)'
    <3>1. IsFiniteSet(DOMAIN NoNames)
      BY FS_EmptySet DEF NoNames
    <3> QED BY <1>10, <3>1 DEF Untouched, TablesFinite
  <2>10. NamesShape'
    BY <1>1, <1>9, <1>10, <2>9a, <2>3, <2>6, <2>7, <2>9 DEF NamesShape
  <2>11. Shape'
    BY <1>1, <1>f, <2>1, <2>4, <2>6 DEF Shape, TypeOK
  <2> QED BY <1>1, <1>f, <2>1, <2>10, <2>11 DEF Invariant, Ok
<1>12. CASE l # 1
  <2>1. phase' = phase /\ frames' = frames /\ visited' = visited /\ walk' # <<>> /\ 1 \in 1 .. l - 1
    BY <1>1, <1>3, <1>6, <1>12
  <2>2. walk'[1].at = Root
    BY <1>6, <1>f, <2>1 DEF CyclesShape
  <2>3. ASSUME NEW k \in 1 .. l - 1
        PROVE  /\ walk'[k] = [at |-> walk'[k].at, rest |-> walk'[k].rest]
               /\ walk'[k].at \in DOMAIN deps /\ walk'[k].rest \subseteq DOMAIN deps[walk'[k].at]
               /\ \A j \in 1 .. k - 1 : walk'[k].at \in After(program, walk'[j].at)
               /\ \A a \in DOMAIN deps[walk'[k].at] \ walk'[k].rest : Checked(k, a)'
    <3>1. k \in DOMAIN walk /\ walk'[k] = walk[k]
      BY <1>6, <1>7, <1>f
    <3>2. /\ walk[k] = [at |-> walk[k].at, rest |-> walk[k].rest]
          /\ walk[k].at \in DOMAIN deps /\ walk[k].rest \subseteq DOMAIN deps[walk[k].at]
          /\ \A j \in 1 .. k - 1 : walk[k].at \in After(program, walk[j].at)
          /\ \A a \in DOMAIN deps[walk[k].at] \ walk[k].rest : Checked(k, a)
      BY <1>f, <3>1 DEF CyclesShape
    <3>3. \A j \in 1 .. k - 1 : j \in 1 .. l - 1
      BY <1>3
    <3>4. \A j \in 1 .. k - 1 : walk'[j].at = walk[j].at
      BY <1>6, <3>3
    <3>5. ASSUME NEW a \in DOMAIN deps[walk[k].at] \ walk[k].rest PROVE Checked(k, a)'
      <4> DEFINE y == deps[walk[k].at][a]
      <4>1. deps'[walk'[k].at][a] = y
        BY <1>1, <3>1
      <4>2. Acyclic(program, y) \/ (k + 1 \in DOMAIN walk /\ walk[k + 1].at = y)
        BY <3>2, <3>5 DEF Checked
      <4> HIDE DEF y
      <4>3. CASE k = l - 1
        <5>1. k + 1 = l
          BY <1>3, <4>3
        <5>2. Acyclic(program, y)
          BY <1>5, <4>2, <5>1 DEF x
        <5> QED BY <1>1, <4>1, <5>2 DEF Checked
      <4>4. CASE k # l - 1
        <5>1. k + 1 \in 1 .. l - 1
          BY <1>3, <4>4
        <5>2. k + 1 \in DOMAIN walk' /\ walk'[k + 1] = walk[k + 1]
          BY <1>6, <5>1
        <5> QED BY <1>1, <4>1, <4>2, <5>2 DEF Checked
      <4> QED BY <4>3, <4>4
    <3> QED BY <3>1, <3>2, <3>4, <3>5
  <2>4. CyclesShape'
    BY <1>1, <1>6, <1>9, <1>10, <1>f, <2>1, <2>2, <2>3 DEF CyclesShape
  <2>5. Shape'
    BY <1>1, <1>f, <2>1 DEF Shape, TypeOK
  <2> QED BY <1>1, <1>f, <2>1, <2>4, <2>5 DEF Invariant, Ok
<1> QED BY <1>11, <1>12

-----------------------------------------------------------------------------
\* What the tables of a module depend on.

\* The bindings of the i-th coupling of m.
BoundBy(m, i) ==
  LET c == Couplings(m)[i]
      theirs == exported[deps[m][c.module]]
  IN CASE c.kind = "import" ->
            [k \in DOMAIN c.items |-> Binding(c.items[k].as, ModuleSymbol(m, c, k))]
       [] c.kind = "from" /\ c.all ->
            LET names == SetToSeq(DOMAIN theirs)
            IN [k \in DOMAIN names |->
                  Binding(names[k], External(theirs[names[k]], names[k]))]
       [] c.kind = "from" /\ ~c.all ->
            [k \in DOMAIN c.items |->
               LET item == c.items[k]
               IN IF item.name \in DOMAIN theirs
                  THEN Binding(item.as, External(theirs[item.name], theirs[item.name].name))
                  ELSE Unbound(item.as, "NameNotExported")]
       [] c.kind = "export" -> <<>>

LEMMA ImportSymbolsIs ==
  ASSUME NEW m
  PROVE  ImportSymbols(m) = FlattenSeq([i \in DOMAIN Couplings(m) |-> BoundBy(m, i)])
BY DEF ImportSymbols, BoundBy

\* Every import is of single modules, and every module that names come from is
\* in the table under its own name.
LEMMA CouplingDeps ==
  ASSUME program \in Programs, NEW m \in DOMAIN program, DepsMade(m),
         NEW i \in 1 .. Len(Couplings(m))
  PROVE  /\ Couplings(m)[i].kind = "import" => ~Couplings(m)[i].all
         /\ Couplings(m)[i].kind = "from" =>
              /\ Couplings(m)[i].module \in DOMAIN deps[m]
              /\ deps[m][Couplings(m)[i].module] = Couplings(m)[i].module
<1> DEFINE q == Requests(m)
           n == Len(Couplings(m))
           c == Couplings(m)[i]
           asked == [j \in 1 .. n |-> AskedBy(m, j)]
<1>1. PICK S, row, column : q \in Seq(S) /\ Flattened(q, asked, n, row, column)
  BY RequestsFlat
<1>2. asked[i] = AskedBy(m, i)
  OBVIOUS
<1>3. Len(q) \in Nat
  BY <1>1
<1> HIDE DEF q, asked, n
<1>4. \A k \in 1 .. Len(q) : ~q[k].all /\ q[k].as \in DOMAIN deps[m] /\ deps[m][q[k].as] = q[k].name
  <2> DEFINE l == Len(q) + 1
  <2>1. DepsAre(m, l) /\ l - 1 = Len(q)
    BY <1>3 DEF DepsMade, q
  <2> HIDE DEF l
  <2> QED BY <2>1 DEF DepsAre, q
<1>5. ASSUME Len(AskedBy(m, i)) = 1 PROVE \E k \in 1 .. Len(q) : q[k] = AskedBy(m, i)[1]
  <2>1. i \in 1 .. n /\ 1 \in 1 .. Len(asked[i])
    BY <1>2, <1>5 DEF n
  <2>2. PICK k \in 1 .. Len(q) : row[k] = i /\ column[k] = 1
    BY <1>1, <2>1 DEF Flattened
  <2>3. q[k] = asked[i][1]
    BY <1>1, <2>2 DEF Flattened
  <2> QED BY <1>2, <2>3
<1>6. ASSUME c.kind = "import" PROVE ~c.all
  <2>1. SUFFICES ASSUME c.all PROVE FALSE
    OBVIOUS
  <2>2. Len(AskedBy(m, i)) = 1 /\ AskedBy(m, i)[1].all
    BY <1>6, <2>1, AskedByWanted
  <2> QED BY <1>4, <1>5, <2>2
<1>7. ASSUME c.kind = "from" PROVE c.module \in DOMAIN deps[m] /\ deps[m][c.module] = c.module
  <2>1. Len(AskedBy(m, i)) = 1 /\ AskedBy(m, i)[1] = Import(c.module, c.module, FALSE)
    BY <1>7, AskedByWanted
  <2>2. PICK k \in 1 .. Len(q) : q[k] = Import(c.module, c.module, FALSE)
    BY <1>5, <2>1
  <2>3. q[k].as = c.module /\ q[k].name = c.module
    BY <2>2 DEF Import
  <2> QED BY <1>4, <2>3
<1> QED BY <1>6, <1>7

LEMMA SameBindings ==
  ASSUME program \in Programs, NEW m \in DOMAIN program, DepsMade(m),
         program' = program, deps' = deps,
         \A a \in DOMAIN deps[m] : exported'[deps[m][a]] = exported[deps[m][a]]
  PROVE  Bindings(m)' = Bindings(m)
<1>1. ASSUME NEW i \in 1 .. Len(Couplings(m)) PROVE BoundBy(m, i)' = BoundBy(m, i)
  <2> DEFINE c == Couplings(m)[i]
  <2>0. Couplings(m)' = Couplings(m)
    BY DEF Couplings
  <2>1. IsCoupling(c)
    BY FileParts DEF Couplings
  <2>2. CASE c.kind = "import"
    <3>1. BoundBy(m, i) = [k \in DOMAIN c.items |-> Binding(c.items[k].as, ModuleSymbol(m, c, k))]
      BY <2>2 DEF BoundBy
    <3>2. BoundBy(m, i)' = [k \in DOMAIN c.items |-> Binding(c.items[k].as, ModuleSymbol(m, c, k))]
      BY <2>0, <2>2 DEF BoundBy
    <3> QED BY <3>1, <3>2
  <2>3. CASE c.kind = "from"
    <3>1. exported'[deps[m][c.module]] = exported[deps[m][c.module]]
      BY <2>3, CouplingDeps
    <3> DEFINE theirs == exported[deps[m][c.module]]
    <3>2. exported'[deps'[m][c.module]] = theirs
      BY <3>1
    <3> DEFINE Bound(t) ==
           IF c.all
           THEN LET names == SetToSeq(DOMAIN t)
                IN [k \in DOMAIN names |-> Binding(names[k], External(t[names[k]], names[k]))]
           ELSE [k \in DOMAIN c.items |->
                  LET item == c.items[k]
                  IN IF item.name \in DOMAIN t
                     THEN Binding(item.as, External(t[item.name], t[item.name].name))
                     ELSE Unbound(item.as, "NameNotExported")]
    <3>3. BoundBy(m, i) = Bound(exported[deps[m][c.module]])
      BY <2>1, <2>3 DEF BoundBy, IsCoupling
    <3>4. BoundBy(m, i)' = Bound(exported'[deps'[m][c.module]])
      BY <2>0, <2>1, <2>3 DEF BoundBy, IsCoupling
    <3> HIDE DEF Bound
    <3> QED BY <3>2, <3>3, <3>4
  <2>4. CASE c.kind = "export"
    <3>1. BoundBy(m, i) = <<>>
      BY <2>4 DEF BoundBy
    <3>2. BoundBy(m, i)' = <<>>
      BY <2>0, <2>4 DEF BoundBy
    <3> QED BY <3>1, <3>2
  <2> QED BY <2>1, <2>2, <2>3, <2>4 DEF IsCoupling
<1>2. DOMAIN Couplings(m) = 1 .. Len(Couplings(m)) /\ Couplings(m)' = Couplings(m)
  BY FileParts DEF Couplings
<1>3. [i \in DOMAIN Couplings(m) |-> BoundBy(m, i)]' = [i \in DOMAIN Couplings(m) |-> BoundBy(m, i)]
  BY <1>1, <1>2
<1>4. ImportSymbols(m)' = ImportSymbols(m)
  <2>1. ImportSymbols(m) = FlattenSeq([i \in DOMAIN Couplings(m) |-> BoundBy(m, i)])
    BY ImportSymbolsIs
  <2>2. ImportSymbols(m)' = FlattenSeq([i \in DOMAIN Couplings(m) |-> BoundBy(m, i)]')
    BY DEF ImportSymbols, BoundBy
  <2> QED BY <1>3, <2>1, <2>2
<1>5. DeclareSymbols(m)' = DeclareSymbols(m)
  BY DEF DeclareSymbols
<1> QED BY <1>4, <1>5 DEF Bindings

LEMMA SameTableMade ==
  ASSUME program \in Programs, NEW m \in DOMAIN program, DepsMade(m),
         program' = program, deps' = deps, globals'[m] = globals[m],
         \A a \in DOMAIN deps[m] : exported'[deps[m][a]] = exported[deps[m][a]]
  PROVE  TableMade(m)' = TableMade(m)
<1>1. Bindings(m)' = Bindings(m)
  BY SameBindings
<1> QED BY <1>1 DEF TableMade

\* Own names, and what they are exported as.
Own(m) == {n \in DOMAIN globals[m] : ~globals[m][n].external}

Handed(c, inner) ==
  CASE c.kind # "export" -> <<>>
    [] c.kind = "export" /\ c.all ->
         [k \in DOMAIN inner |-> [name |-> inner[k], as |-> inner[k]]]
    [] c.kind = "export" /\ ~c.all -> c.items

ExportsBy(m, inner) == FlattenSeq([i \in DOMAIN Couplings(m) |-> Handed(Couplings(m)[i], inner)])

LEMMA ExportsIs ==
  ASSUME NEW m PROVE Exports(m) = ExportsBy(m, SetToSeq(Own(m)))
BY DEF Exports, ExportsBy, Handed, Own

LEMMA SameExports ==
  ASSUME NEW m, program' = program, globals'[m] = globals[m]
  PROVE  Exports(m)' = Exports(m)
<1>1. Own(m)' = Own(m)
  BY DEF Own
<1>2. Couplings(m)' = Couplings(m)
  BY DEF Couplings
<1>3. Exports(m)' = FlattenSeq([i \in DOMAIN Couplings(m)' |->
                                  Handed(Couplings(m)'[i], SetToSeq(Own(m)'))])
  BY DEF Exports, Handed, Own
<1>4. Exports(m) = FlattenSeq([i \in DOMAIN Couplings(m) |->
                                  Handed(Couplings(m)[i], SetToSeq(Own(m)))])
  BY DEF Exports, Handed, Own
<1> QED BY <1>1, <1>2, <1>3, <1>4

FaultsOf(es, t) ==
  LET again == \E i, j \in DOMAIN es : i # j /\ es[i].as = es[j].as
      undefined == \E i \in DOMAIN es : es[i].name \notin DOMAIN t
      foreign == \E i \in DOMAIN es : es[i].name \in DOMAIN t /\ t[es[i].name].external
  IN IF again THEN {"DuplicatedExport"}
     ELSE {e \in {"ExportingUndefName", "ExportingExternalName"} :
             IF e = "ExportingUndefName" THEN undefined ELSE foreign}

TableOf(es, t) ==
  [n \in {es[i].as : i \in DOMAIN es} |-> t[es[CHOOSE i \in DOMAIN es : es[i].as = n].name]]

LEMMA ExportsMadeIs ==
  ASSUME NEW m
  PROVE  ExportsMade(m) <=> /\ FaultsOf(Exports(m), globals[m]) = {}
                            /\ exported[m] = TableOf(Exports(m), globals[m])
BY DEF ExportsMade, ExportFaults, ExportTable, FaultsOf, TableOf

LEMMA SameExportsMade ==
  ASSUME NEW m, program' = program, globals'[m] = globals[m], exported'[m] = exported[m]
  PROVE  ExportsMade(m)' = ExportsMade(m)
<1>1. Exports(m)' = Exports(m)
  BY SameExports
<1>2. ExportsMade(m)' <=> /\ FaultsOf(Exports(m)', globals'[m]) = {}
                          /\ exported'[m] = TableOf(Exports(m)', globals'[m])
  BY DEF ExportsMade, ExportFaults, ExportTable, FaultsOf, TableOf
<1>3. ExportsMade(m) <=> /\ FaultsOf(Exports(m), globals[m]) = {}
                         /\ exported[m] = TableOf(Exports(m), globals[m])
  BY ExportsMadeIs
<1> QED BY <1>1, <1>2, <1>3 DEF ExportsMade

-----------------------------------------------------------------------------
\* Finite sets as sequences, and back.

LEMMA SetListed ==
  ASSUME NEW S, IsFiniteSet(S)
  PROVE  /\ SetToSeq(S) \in Seq(S) /\ Len(SetToSeq(S)) \in Nat
         /\ DOMAIN SetToSeq(S) = 1 .. Len(SetToSeq(S))
         /\ \A k \in 1 .. Len(SetToSeq(S)) : SetToSeq(S)[k] \in S
         /\ \A x \in S : \E k \in 1 .. Len(SetToSeq(S)) : SetToSeq(S)[k] = x
         /\ \A j, k \in 1 .. Len(SetToSeq(S)) : SetToSeq(S)[j] = SetToSeq(S)[k] => j = k
<1> DEFINE N == Cardinality(S)
           s == SetToSeq(S)
<1>1. N \in Nat /\ ExistsBijection(1 .. N, S)
  BY FS_CardinalityType
<1>2. \E f \in [1 .. N -> S] : IsInjective(f)
  BY <1>1 DEF ExistsBijection, Bijection, Injection
<1>3. s \in [1 .. N -> S] /\ IsInjective(s)
  BY <1>2 DEF SetToSeq
<1> HIDE DEF N, s
<1>4. s \in Injection(1 .. N, S)
  BY <1>3 DEF Injection
<1>5. Cardinality(1 .. N) = N
  <2>1. N \in Int /\ 1 \in Int
    BY <1>1
  <2>2. Cardinality(1 .. N) = IF 1 > N THEN 0 ELSE N - 1 + 1
    BY <2>1, FS_Interval
  <2> QED BY <1>1, <2>2
<1>6. s \in Surjection(1 .. N, S)
  BY <1>4, <1>5, FS_Injection DEF N
<1>7. \A x \in S : \E k \in 1 .. N : s[k] = x
  BY <1>6 DEF Surjection
<1>8. s \in Seq(S) /\ Len(s) = N
  BY <1>1, <1>3
<1>9. \A j, k \in 1 .. N : s[j] = s[k] => j = k
  BY <1>3 DEF IsInjective
<1>10. \A k \in 1 .. N : s[k] \in S
  BY <1>3
<1> QED BY <1>1, <1>3, <1>7, <1>8, <1>9, <1>10 DEF s

LEMMA NamesFinite ==
  ASSUME NEW s, Listed(s)
  PROVE  IsFiniteSet({s[i].as : i \in DOMAIN s})
<1> DEFINE n == Len(s)
           T == {s[i].as : i \in DOMAIN s}
           f == [i \in 1 .. n |-> s[i].as]
<1>1. n \in Nat /\ DOMAIN s = 1 .. n
  BY ListedSeq
<1>2. f \in Surjection(1 .. n, T)
  BY <1>1 DEF Surjection
<1>3. IsFiniteSet(1 .. n)
  BY <1>1, FS_Interval
<1> HIDE DEF f, n, T
<1>4. IsFiniteSet(T)
  BY <1>2, <1>3, FS_Surjection
<1> QED BY <1>4 DEF T

-----------------------------------------------------------------------------
\* The bindings of a module, coupling by coupling, and last its declarations.

Parts(m) ==
  [i \in 1 .. Len(Couplings(m)) + 1 |->
     IF i = Len(Couplings(m)) + 1 THEN DeclareSymbols(m) ELSE BoundBy(m, i)]

\* The dependencies of m have finite tables.
TheirsFinite(m) == \A a \in DOMAIN deps[m] : IsFiniteSet(DOMAIN exported[deps[m][a]])

LEMMA DeclareSymbolsIs ==
  ASSUME program \in Programs, NEW m \in DOMAIN program
  PROVE  LET ds == program[m].symbols
         IN /\ Listed(DeclareSymbols(m))
            /\ Len(ds) \in Nat /\ DOMAIN ds = 1 .. Len(ds)
            /\ Len(DeclareSymbols(m)) = Len(ds)
            /\ \A j \in 1 .. Len(ds) :
                 /\ IsDeclaration(ds[j])
                 /\ DeclareSymbols(m)[j] =
                      IF ds[j].fault # Ok THEN Unbound(ds[j].name, ds[j].fault)
                      ELSE Binding(ds[j].name, Global(ds[j].kind, m, ds[j].name, FALSE,
                                                      <<m, ds[j].name>>))
<1> DEFINE ds == program[m].symbols
           n == Len(ds)
           e(j) == IF ds[j].fault # Ok THEN Unbound(ds[j].name, ds[j].fault)
                   ELSE Binding(ds[j].name, Global(ds[j].kind, m, ds[j].name, FALSE,
                                                      <<m, ds[j].name>>))
           s == DeclareSymbols(m)
           S == {e(j) : j \in 1 .. n}
<1>1. Listed(ds) /\ \A j \in DOMAIN ds : IsDeclaration(ds[j])
  BY ProgramsParsed DEF IsFile
<1>2. n \in Nat /\ DOMAIN ds = 1 .. n
  BY <1>1, ListedSeq
<1>3. s = [j \in 1 .. n |-> e(j)]
  BY <1>2 DEF DeclareSymbols
<1>4. \A j \in 1 .. n : e(j) \in S
  OBVIOUS
<1> HIDE DEF s, S, e, n
<1>5. \A j \in 1 .. n : s[j] = e(j)
  BY <1>3
<1>6. s = [j \in 1 .. n |-> s[j]] /\ \A j \in 1 .. n : s[j] \in S
  BY <1>3, <1>4
<1>7. s \in Seq(S) /\ Len(s) = n
  BY <1>2, <1>6, MappedSeq
<1>8. Listed(s)
  BY <1>7, SeqListed
<1> QED BY <1>1, <1>2, <1>5, <1>7, <1>8 DEF n, e, s

\* A sequence made element by element, hidden from its form.
LEMMA MadeListed ==
  ASSUME NEW s, NEW n \in Nat, s = [k \in 1 .. n |-> s[k]]
  PROVE  Listed(s) /\ Len(s) = n
<1> DEFINE S == {s[k] : k \in 1 .. n}
<1>1. \A k \in 1 .. n : s[k] \in S
  OBVIOUS
<1> HIDE DEF S
<1>2. s \in Seq(S) /\ Len(s) = n
  BY <1>1, MappedSeq
<1> QED BY <1>2, SeqListed

BoundAs(m, i) ==
  LET c == Couplings(m)[i]
      b == BoundBy(m, i)
      theirs == exported[c.module]
      names == SetToSeq(DOMAIN theirs)
  IN /\ c.kind = "import" =>
          /\ ~c.all /\ Len(c.items) \in Nat /\ Len(b) = Len(c.items)
          /\ \A k \in 1 .. Len(b) : b[k] = Binding(c.items[k].as, ModuleSymbol(m, c, k))
     /\ c.kind = "from" /\ c.all =>
          /\ Len(names) \in Nat /\ Len(b) = Len(names)
          /\ \A k \in 1 .. Len(b) :
               /\ names[k] \in DOMAIN theirs
               /\ b[k] = Binding(names[k], External(theirs[names[k]], names[k]))
          /\ \A x \in DOMAIN theirs : \E k \in 1 .. Len(b) : names[k] = x
     /\ c.kind = "from" /\ ~c.all =>
          /\ Len(c.items) \in Nat /\ Len(b) = Len(c.items)
          /\ \A k \in 1 .. Len(b) :
               b[k] = IF c.items[k].name \in DOMAIN theirs
                      THEN Binding(c.items[k].as, External(theirs[c.items[k].name],
                                                           theirs[c.items[k].name].name))
                      ELSE Unbound(c.items[k].as, "NameNotExported")
     /\ c.kind = "export" => Len(b) = 0

LEMMA BoundByIs ==
  ASSUME program \in Programs, NEW m \in DOMAIN program, DepsMade(m), TheirsFinite(m),
         NEW i \in 1 .. Len(Couplings(m))
  PROVE  Listed(BoundBy(m, i)) /\ BoundAs(m, i) /\ IsCoupling(Couplings(m)[i])
<1> DEFINE c == Couplings(m)[i]
           b == BoundBy(m, i)
           theirs == exported[c.module]
           names == SetToSeq(DOMAIN theirs)
<1>1. IsCoupling(c)
  BY FileParts DEF Couplings
<1>2. DOMAIN c.items = 1 .. Len(c.items) /\ Len(c.items) \in Nat
  BY <1>1, ListedSeq DEF IsCoupling
<1>3. (c.kind = "import" => ~c.all) /\ (c.kind = "from" => c.module \in DOMAIN deps[m] /\ deps[m][c.module] = c.module)
  BY CouplingDeps
<1>4. CASE c.kind = "import"
  <2>1. b = [k \in 1 .. Len(c.items) |-> Binding(c.items[k].as, ModuleSymbol(m, c, k))]
    BY <1>2, <1>4 DEF BoundBy
  <2> HIDE DEF b, c
  <2>2. b = [k \in 1 .. Len(c.items) |-> b[k]]
        /\ \A k \in 1 .. Len(c.items) : b[k] = Binding(c.items[k].as, ModuleSymbol(m, c, k))
    BY <2>1
  <2> DEFINE n == Len(c.items)
  <2>3. n \in Nat /\ b = [k \in 1 .. n |-> b[k]]
    BY <1>2, <2>2
  <2> HIDE DEF n
  <2>4. Listed(b) /\ Len(b) = n
    BY <2>3, MadeListed
  <2>5. /\ ~c.all /\ Len(c.items) \in Nat /\ Len(b) = Len(c.items)
        /\ \A k \in 1 .. Len(b) : b[k] = Binding(c.items[k].as, ModuleSymbol(m, c, k))
    BY <1>2, <1>3, <1>4, <2>2, <2>4 DEF n
  <2> QED BY <1>1, <1>4, <2>4, <2>5 DEF BoundAs, b, c
<1>5. CASE c.kind = "from" /\ c.all
  <2>1. exported[deps[m][c.module]] = theirs /\ IsFiniteSet(DOMAIN theirs)
    BY <1>3, <1>5 DEF TheirsFinite
  <2>2. /\ Len(names) \in Nat /\ DOMAIN names = 1 .. Len(names)
        /\ \A k \in 1 .. Len(names) : names[k] \in DOMAIN theirs
        /\ \A x \in DOMAIN theirs : \E k \in 1 .. Len(names) : names[k] = x
    <3> HIDE DEF theirs
    <3> QED BY <2>1, SetListed
  <2>3. b = [k \in DOMAIN names |-> Binding(names[k], External(theirs[names[k]], names[k]))]
    BY <1>5, <2>1 DEF BoundBy
  <2> HIDE DEF b, c, theirs, names
  <2>4. b = [k \in 1 .. Len(names) |-> b[k]]
        /\ \A k \in 1 .. Len(names) : b[k] = Binding(names[k], External(theirs[names[k]], names[k]))
    BY <2>2, <2>3
  <2> DEFINE n == Len(names)
  <2>5. n \in Nat /\ b = [k \in 1 .. n |-> b[k]]
    BY <2>2, <2>4
  <2> HIDE DEF n
  <2>6. Listed(b) /\ Len(b) = n
    BY <2>5, MadeListed
  <2>7. /\ Len(names) \in Nat /\ Len(b) = Len(names)
        /\ \A k \in 1 .. Len(b) :
             /\ names[k] \in DOMAIN theirs
             /\ b[k] = Binding(names[k], External(theirs[names[k]], names[k]))
        /\ \A x \in DOMAIN theirs : \E k \in 1 .. Len(b) : names[k] = x
    BY <2>2, <2>4, <2>6 DEF n
  <2> QED BY <1>1, <1>5, <2>6, <2>7 DEF BoundAs, b, c, theirs, names
<1>6. CASE c.kind = "from" /\ ~c.all
  <2>1. exported[deps[m][c.module]] = theirs
    BY <1>3, <1>6
  <2> DEFINE e(k) == IF c.items[k].name \in DOMAIN theirs
                     THEN Binding(c.items[k].as, External(theirs[c.items[k].name],
                                                          theirs[c.items[k].name].name))
                     ELSE Unbound(c.items[k].as, "NameNotExported")
  <2>2. b = [k \in 1 .. Len(c.items) |-> e(k)]
    BY <1>2, <1>6, <2>1 DEF BoundBy
  <2> HIDE DEF b, c, theirs, e
  <2>3. b = [k \in 1 .. Len(c.items) |-> b[k]] /\ \A k \in 1 .. Len(c.items) : b[k] = e(k)
    BY <2>2
  <2> DEFINE n == Len(c.items)
  <2>4. n \in Nat /\ b = [k \in 1 .. n |-> b[k]]
    BY <1>2, <2>3
  <2> HIDE DEF n
  <2>5. Listed(b) /\ Len(b) = n
    BY <2>4, MadeListed
  <2>6. Len(c.items) \in Nat /\ Len(b) = Len(c.items) /\ \A k \in 1 .. Len(b) : b[k] = e(k)
    BY <1>2, <2>3, <2>5 DEF n
  <2> QED BY <1>1, <1>6, <2>5, <2>6 DEF BoundAs, b, c, theirs, e
<1>7. CASE c.kind = "export"
  <2>1. b = <<>>
    BY <1>7 DEF BoundBy
  <2>2. Listed(b) /\ Len(b) = 0
    BY <2>1, ListedEmpty
  <2> QED BY <1>1, <1>7, <2>2 DEF BoundAs
<1> QED BY <1>1, <1>4, <1>5, <1>6, <1>7 DEF IsCoupling

LEMMA BindingsFlat ==
  ASSUME program \in Programs, NEW m \in DOMAIN program, DepsMade(m), TheirsFinite(m)
  PROVE  \E S, row, column :
           /\ Bindings(m) \in Seq(S)
           /\ Flattened(Bindings(m), Parts(m), Len(Couplings(m)) + 1, row, column)
<1> DEFINE n == Len(Couplings(m))
           parts == Parts(m)
           bound == [i \in 1 .. n |-> BoundBy(m, i)]
           S == UNION {ToSet(parts[i]) : i \in 1 .. n + 1}
<1>1. n \in Nat /\ DOMAIN Couplings(m) = 1 .. n
  BY FileParts DEF Couplings
<1> HIDE DEF n
<1>2. /\ \A i \in 1 .. n : parts[i] = BoundBy(m, i)
      /\ parts[n + 1] = DeclareSymbols(m) /\ n + 1 \in 1 .. n + 1
  <2>1. \A i \in 1 .. n : i \in 1 .. n + 1 /\ i # n + 1
    BY <1>1
  <2>2. n + 1 \in 1 .. n + 1
    BY <1>1
  <2> QED BY <2>1, <2>2 DEF Parts, n
<1>3. \A i \in 1 .. n + 1 : Listed(parts[i])
  <2>1. ASSUME NEW i \in 1 .. n + 1 PROVE Listed(parts[i])
    <3>1. i = n + 1 \/ i \in 1 .. n
      BY <1>1
    <3>2. CASE i = n + 1
      BY <1>2, <3>2, DeclareSymbolsIs
    <3>3. CASE i \in 1 .. n
      BY <1>2, <3>3, BoundByIs DEF n
    <3> QED BY <3>1, <3>2, <3>3
  <2> QED BY <2>1
<1> HIDE DEF parts
<1>4. \A i \in 1 .. n + 1 : parts[i] \in Seq(S)
  <2>1. ASSUME NEW i \in 1 .. n + 1 PROVE parts[i] \in Seq(S)
    <3>1. parts[i] \in Seq(ToSet(parts[i]))
      BY <1>3 DEF Listed
    <3>2. ToSet(parts[i]) \subseteq S
      OBVIOUS
    <3> QED BY <3>1, <3>2, SeqMonotonic
  <2> QED BY <2>1
<1> HIDE DEF S
<1>5. \A i \in 1 .. n : bound[i] = parts[i]
  BY <1>2
<1>6. bound = [i \in 1 .. n |-> bound[i]] /\ \A i \in 1 .. n : bound[i] \in Seq(S)
  <2>1. \A i \in 1 .. n : i \in 1 .. n + 1
    BY <1>1
  <2> QED BY <1>4, <1>5, <2>1
<1>7. ImportSymbols(m) = FlattenSeq(bound)
  BY <1>1, ImportSymbolsIs
<1> HIDE DEF bound
<1>8. bound \in Seq(Seq(S)) /\ Len(bound) = n
  BY <1>1, <1>6, MappedSeq
<1>9. PICK row, column : Flattened(FlattenSeq(bound), bound, n, row, column)
  BY <1>8, FlattenPlaces
<1>10. FlattenSeq(bound) \in Seq(S)
  BY <1>8, FlattenPlaces
<1> DEFINE q == FlattenSeq(bound)
<1> HIDE DEF q
<1>11. Flattened(q, parts, n, row, column)
  <2>1. Flattened(q, bound, n, row, column)
    BY <1>9 DEF q
  <2> QED BY <1>5, <2>1 DEF Flattened
<1>12. q \in Seq(S) /\ parts[n + 1] \in Seq(S)
  BY <1>2, <1>4, <1>10 DEF q
<1>13. \E r, c : Flattened(q \o parts[n + 1], parts, n + 1, r, c)
  BY <1>1, <1>11, <1>12, FlattenedMore
<1>14. Bindings(m) = q \o parts[n + 1]
  BY <1>2, <1>7 DEF Bindings, q
<1>15. q \o parts[n + 1] \in Seq(S)
  BY <1>12
<1> QED BY <1>13, <1>14, <1>15 DEF n, parts

-----------------------------------------------------------------------------
\* The table made of bindings.

LEMMA FaultlessBindings ==
  ASSUME NEW B, Listed(B), FirstFault(B) = Ok
  PROVE  /\ \A i \in 1 .. Len(B) : B[i].fault = Ok
         /\ \A i, j \in 1 .. Len(B) : B[i].as = B[j].as => i = j
<1>1. Len(B) \in Nat /\ DOMAIN B = 1 .. Len(B)
  BY ListedSeq
<1> DEFINE again(i) == \E j \in 1 .. i - 1 : B[j].as = B[i].as
           faulty == {i \in DOMAIN B : B[i].fault # Ok \/ again(i)}
<1>2. faulty = {}
  <2>1. SUFFICES ASSUME faulty # {} PROVE FALSE
    OBVIOUS
  <2> DEFINE first == CHOOSE i \in faulty : \A j \in faulty : i <= j
  <2>2. FirstFault(B) = IF B[first].fault # Ok THEN B[first].fault ELSE "NameAlreadyDefined"
    BY <2>1 DEF FirstFault
  <2> HIDE DEF first
  <2> QED BY <2>2 DEF Ok
<1>3. \A i \in 1 .. Len(B) : B[i].fault = Ok /\ ~again(i)
  BY <1>1, <1>2
<1>4. ASSUME NEW i \in 1 .. Len(B), NEW j \in 1 .. Len(B), B[i].as = B[j].as PROVE i = j
  <2>1. ~(j < i)
    <3>1. SUFFICES ASSUME j < i PROVE FALSE
      OBVIOUS
    <3>2. j \in 1 .. i - 1
      BY <1>1, <3>1
    <3> QED BY <1>3, <1>4, <3>2
  <2>2. ~(i < j)
    <3>1. SUFFICES ASSUME i < j PROVE FALSE
      OBVIOUS
    <3>2. i \in 1 .. j - 1
      BY <1>1, <3>1
    <3> QED BY <1>3, <1>4, <3>2
  <2> QED BY <1>1, <2>1, <2>2
<1> QED BY <1>3, <1>4

LEMMA FirstFaultKnown ==
  ASSUME NEW B, Listed(B), NEW F, \A i \in 1 .. Len(B) : B[i].fault \in F
  PROVE  FirstFault(B) \in F \cup {Ok, "NameAlreadyDefined"}
<1>1. Len(B) \in Nat /\ DOMAIN B = 1 .. Len(B)
  BY ListedSeq
<1> DEFINE again(i) == \E j \in 1 .. i - 1 : B[j].as = B[i].as
           faulty == {i \in DOMAIN B : B[i].fault # Ok \/ again(i)}
           first == CHOOSE i \in faulty : \A j \in faulty : i <= j
<1>2. FirstFault(B) = IF faulty = {} THEN Ok
                      ELSE IF B[first].fault # Ok THEN B[first].fault
                      ELSE "NameAlreadyDefined"
  BY DEF FirstFault
<1>3. faulty \subseteq Nat /\ faulty \subseteq 1 .. Len(B)
  BY <1>1
<1> HIDE DEF faulty
<1>4. ASSUME faulty # {} PROVE first \in 1 .. Len(B)
  <2>1. \E i \in faulty : \A j \in faulty : i <= j
    BY <1>3, <1>4, Flattening!Least
  <2>2. first \in faulty
    BY <2>1
  <2> QED BY <1>3, <2>2
<1> HIDE DEF first
<1> QED BY <1>2, <1>4

LEMMA TableIs ==
  ASSUME NEW B, Listed(B), FirstFault(B) = Ok
  PROVE  /\ IsFiniteSet(DOMAIN Table(B))
         /\ \A x \in DOMAIN Table(B) : \E i \in 1 .. Len(B) : B[i].as = x
         /\ \A i \in 1 .. Len(B) : B[i].as \in DOMAIN Table(B) /\ Table(B)[B[i].as] = B[i].sy
<1>1. Len(B) \in Nat /\ DOMAIN B = 1 .. Len(B)
  BY ListedSeq
<1>2. \A i, j \in 1 .. Len(B) : B[i].as = B[j].as => i = j
  BY FaultlessBindings
<1>3. DOMAIN Table(B) = {B[i].as : i \in DOMAIN B}
  BY DEF Table
<1>4. ASSUME NEW i \in 1 .. Len(B) PROVE Table(B)[B[i].as] = B[i].sy
  <2> DEFINE x == B[i].as
             c == CHOOSE j \in DOMAIN B : B[j].as = x
  <2>1. Table(B)[x] = B[c].sy
    BY <1>1 DEF Table
  <2>2. c \in DOMAIN B /\ B[c].as = x
    BY <1>1
  <2> HIDE DEF c
  <2>3. c = i
    BY <1>1, <1>2, <2>2
  <2> QED BY <2>1, <2>3
<1> QED BY <1>1, <1>3, <1>4, NamesFinite

Faults == {Ok, "InvalidFlag", "OffsetInMultipleFields", "NameAlreadyDefined", "NameNotExported"}

PartFaults(s) == \A k \in 1 .. Len(s) : s[k].fault \in Faults

LEMMA BindingFaults ==
  ASSUME program \in Programs, NEW m \in DOMAIN program, DepsMade(m), TheirsFinite(m)
  PROVE  Listed(Bindings(m)) /\ FirstFault(Bindings(m)) \in Faults
<1> DEFINE B == Bindings(m)
           n == Len(Couplings(m))
<1>1. n \in Nat
  BY FileParts DEF Couplings
<1>2. PICK S, row, column : B \in Seq(S) /\ Flattened(B, Parts(m), n + 1, row, column)
  BY BindingsFlat
<1>3. ASSUME NEW i \in 1 .. n + 1 PROVE PartFaults(Parts(m)[i])
  <2>1. CASE i = n + 1
    <3> DEFINE ds == program[m].symbols
               s == DeclareSymbols(m)
    <3>1. Parts(m)[i] = s
      BY <2>1 DEF Parts
    <3>2. /\ Len(s) = Len(ds)
          /\ \A j \in 1 .. Len(ds) :
                 /\ IsDeclaration(ds[j])
                 /\ s[j] =
                      IF ds[j].fault # Ok THEN Unbound(ds[j].name, ds[j].fault)
                      ELSE Binding(ds[j].name, Global(ds[j].kind, m, ds[j].name, FALSE,
                                                      <<m, ds[j].name>>))
      BY DeclareSymbolsIs
    <3> HIDE DEF s, ds
    <3>3. ASSUME NEW j \in 1 .. Len(s) PROVE s[j].fault \in Faults
      <4>1. j \in 1 .. Len(ds)
        BY <3>2
      <4>2. CASE ds[j].fault # Ok
        <5>1. s[j] = Unbound(ds[j].name, ds[j].fault)
          BY <3>2, <4>1, <4>2
        <5>2. s[j].fault = ds[j].fault
          BY <5>1 DEF Unbound
        <5> QED BY <3>2, <4>1, <5>2 DEF IsDeclaration, Faults
      <4>3. CASE ds[j].fault = Ok
        <5>1. s[j] = Binding(ds[j].name, Global(ds[j].kind, m, ds[j].name, FALSE, <<m, ds[j].name>>))
          BY <3>2, <4>1, <4>3
        <5>2. s[j].fault = Ok
          BY <5>1 DEF Binding
        <5> QED BY <5>2 DEF Faults
      <4> QED BY <4>2, <4>3
    <3> QED BY <3>1, <3>3 DEF PartFaults
  <2>2. CASE i # n + 1
    <3>1. i \in 1 .. n /\ Parts(m)[i] = BoundBy(m, i)
      BY <1>1, <2>2 DEF Parts
    <3> DEFINE b == BoundBy(m, i)
               c == Couplings(m)[i]
               theirs == exported[c.module]
               names == SetToSeq(DOMAIN theirs)
    <3>2. BoundAs(m, i) /\ IsCoupling(c)
      BY <3>1, BoundByIs
    <3> HIDE DEF b, c, theirs, names
    <3>3. ASSUME NEW k \in 1 .. Len(b) PROVE b[k].fault \in Faults
      <4>1. CASE c.kind = "import"
        <5>1. b[k] = Binding(c.items[k].as, ModuleSymbol(m, c, k))
          BY <3>2, <4>1 DEF BoundAs, b, c
        <5> QED BY <5>1 DEF Binding, Faults
      <4>2. CASE c.kind = "from" /\ c.all
        <5>1. b[k] = Binding(names[k], External(theirs[names[k]], names[k]))
          BY <3>2, <4>2 DEF BoundAs, b, c, theirs, names
        <5> QED BY <5>1 DEF Binding, Faults
      <4>3. CASE c.kind = "from" /\ ~c.all
        <5>1. b[k] = IF c.items[k].name \in DOMAIN theirs
                      THEN Binding(c.items[k].as, External(theirs[c.items[k].name],
                                                           theirs[c.items[k].name].name))
                      ELSE Unbound(c.items[k].as, "NameNotExported")
          BY <3>2, <4>3 DEF BoundAs, b, c, theirs
        <5> QED BY <5>1 DEF Binding, Unbound, Faults
      <4>4. CASE c.kind = "export"
        BY <3>2, <4>4 DEF BoundAs, b, c
      <4> QED BY <3>2, <4>1, <4>2, <4>3, <4>4 DEF IsCoupling
    <3> QED BY <3>1, <3>3 DEF PartFaults, b
  <2> QED BY <2>1, <2>2
<1> HIDE DEF B, n
<1>4. \A p \in 1 .. Len(B) : B[p].fault \in Faults
  <2>1. ASSUME NEW p \in 1 .. Len(B) PROVE B[p].fault \in Faults
    <3>1. /\ row[p] \in 1 .. n + 1 /\ column[p] \in 1 .. Len(Parts(m)[row[p]])
          /\ B[p] = Parts(m)[row[p]][column[p]]
      BY <1>2 DEF Flattened
    <3>2. PartFaults(Parts(m)[row[p]])
      BY <1>3, <3>1
    <3> QED BY <3>1, <3>2 DEF PartFaults
  <2> QED BY <2>1
<1>5. Listed(B)
  BY <1>2, SeqListed
<1>6. FirstFault(B) \in Faults \cup {Ok, "NameAlreadyDefined"}
  BY <1>4, <1>5, FirstFaultKnown
<1> QED BY <1>5, <1>6 DEF B, Faults

\* The entries of a table that has been made, and where each comes from.
Entries(m) ==
  LET parts == Parts(m)
      n == Len(Couplings(m)) + 1
  IN /\ IsFiniteSet(DOMAIN globals[m])
     /\ \A x \in DOMAIN globals[m] :
          \E i \in 1 .. n : \E k \in 1 .. Len(parts[i]) : parts[i][k].as = x
     /\ \A i \in 1 .. n : \A k \in 1 .. Len(parts[i]) :
          /\ parts[i][k].fault = Ok
          /\ parts[i][k].as \in DOMAIN globals[m]
          /\ globals[m][parts[i][k].as] = parts[i][k].sy
     /\ \A i, j \in 1 .. n : \A k \in 1 .. Len(parts[i]) : \A h \in 1 .. Len(parts[j]) :
          parts[i][k].as = parts[j][h].as => i = j /\ k = h

LEMMA TableEntries ==
  ASSUME program \in Programs, NEW m \in DOMAIN program, DepsMade(m), TheirsFinite(m),
         TableMade(m)
  PROVE  Entries(m)
<1> DEFINE B == Bindings(m)
           parts == Parts(m)
           n == Len(Couplings(m)) + 1
           t == globals[m]
<1>1. PICK S, row, column : B \in Seq(S) /\ Flattened(B, parts, n, row, column)
  BY BindingsFlat
<1>2. Listed(B)
  BY BindingFaults
<1>3. FirstFault(B) = Ok /\ t = Table(B)
  BY DEF TableMade
<1> HIDE DEF B, parts, n, t
<1>4. /\ \A p \in 1 .. Len(B) : B[p].fault = Ok
      /\ \A p, r \in 1 .. Len(B) : B[p].as = B[r].as => p = r
  BY <1>2, <1>3, FaultlessBindings
<1>5. /\ IsFiniteSet(DOMAIN t)
      /\ \A x \in DOMAIN t : \E p \in 1 .. Len(B) : B[p].as = x
      /\ \A p \in 1 .. Len(B) : B[p].as \in DOMAIN t /\ t[B[p].as] = B[p].sy
  BY <1>2, <1>3, TableIs
<1>6. /\ \A p \in 1 .. Len(B) : row[p] \in 1 .. n /\ column[p] \in 1 .. Len(parts[row[p]])
                               /\ B[p] = parts[row[p]][column[p]]
      /\ \A i \in 1 .. n : \A k \in 1 .. Len(parts[i]) :
           \E p \in 1 .. Len(B) : row[p] = i /\ column[p] = k
  BY <1>1 DEF Flattened
<1>7. \A x \in DOMAIN t : \E i \in 1 .. n : \E k \in 1 .. Len(parts[i]) : parts[i][k].as = x
  <2>1. ASSUME NEW x \in DOMAIN t
        PROVE \E i \in 1 .. n : \E k \in 1 .. Len(parts[i]) : parts[i][k].as = x
    <3>1. PICK p \in 1 .. Len(B) : B[p].as = x
      BY <1>5
    <3> QED BY <1>6, <3>1
  <2> QED BY <2>1
<1>8. ASSUME NEW i \in 1 .. n, NEW k \in 1 .. Len(parts[i])
      PROVE /\ parts[i][k].fault = Ok /\ parts[i][k].as \in DOMAIN t
            /\ t[parts[i][k].as] = parts[i][k].sy
  <2>1. PICK p \in 1 .. Len(B) : row[p] = i /\ column[p] = k
    BY <1>6
  <2>2. B[p] = parts[i][k]
    BY <1>6, <2>1
  <2> QED BY <1>4, <1>5, <2>2
<1>9. ASSUME NEW i \in 1 .. n, NEW j \in 1 .. n, NEW k \in 1 .. Len(parts[i]), NEW h \in 1 .. Len(parts[j]),
             parts[i][k].as = parts[j][h].as
      PROVE i = j /\ k = h
  <2>1. PICK p \in 1 .. Len(B) : row[p] = i /\ column[p] = k
    BY <1>6
  <2>2. PICK r \in 1 .. Len(B) : row[r] = j /\ column[r] = h
    BY <1>6
  <2>3. B[p] = parts[i][k] /\ B[r] = parts[j][h]
    BY <1>6, <2>1, <2>2
  <2>4. p = r
    BY <1>4, <1>9, <2>3
  <2> QED BY <2>1, <2>2, <2>4
<1>10. Entries(m) <=>
         /\ IsFiniteSet(DOMAIN t)
         /\ \A x \in DOMAIN t : \E i \in 1 .. n : \E k \in 1 .. Len(parts[i]) : parts[i][k].as = x
         /\ \A i \in 1 .. n : \A k \in 1 .. Len(parts[i]) :
              /\ parts[i][k].fault = Ok /\ parts[i][k].as \in DOMAIN t
              /\ t[parts[i][k].as] = parts[i][k].sy
         /\ \A i, j \in 1 .. n : \A k \in 1 .. Len(parts[i]) : \A h \in 1 .. Len(parts[j]) :
              parts[i][k].as = parts[j][h].as => i = j /\ k = h
  BY DEF Entries, parts, n, t
<1> QED BY <1>5, <1>7, <1>8, <1>9, <1>10

-----------------------------------------------------------------------------
\* While names are resolved.

LEMMA NamesFacts ==
  ASSUME Invariant, phase = "names"
  PROVE  /\ Shape /\ NamesShape /\ TypeOK /\ Loaded /\ program \in Programs /\ error = Ok
         /\ Len(frames) \in Nat /\ Len(frames) >= 1 /\ Len(frames) \in 1 .. Len(frames)
         /\ DOMAIN frames = 1 .. Len(frames) /\ Top(frames) = frames[Len(frames)]
         /\ Listed(frames) /\ frames # <<>>
         /\ DOMAIN globals = DOMAIN deps /\ DOMAIN exported = DOMAIN deps
         /\ \A m \in DOMAIN deps :
              /\ m \in DOMAIN program /\ DepsMade(m) /\ TablesFinite(m) /\ TheirsFinite(m)
              /\ m \notin After(program, m)
              /\ \A a \in DOMAIN deps[m] :
                   deps[m][a] \in DOMAIN deps /\ deps[m][a] \in R!Wanted(program, m)
         /\ \A i \in DOMAIN frames : FrameShape(i) /\ frames[i].module \in DOMAIN deps
         /\ \A i, j \in DOMAIN frames : i # j => frames[i].module # frames[j].module
<1>1. /\ Shape /\ NamesShape /\ TypeOK /\ Loaded /\ program \in Programs /\ error = Ok
      /\ Listed(frames) /\ frames # <<>> /\ Acyclic(program, Root)
      /\ DOMAIN globals = DOMAIN deps /\ DOMAIN exported = DOMAIN deps
  BY DEF Invariant, Shape, TypeOK, NamesShape
<1>2. /\ Len(frames) \in Nat /\ Len(frames) >= 1 /\ Len(frames) \in 1 .. Len(frames)
      /\ DOMAIN frames = 1 .. Len(frames) /\ Top(frames) = frames[Len(frames)]
  BY <1>1, ListedTop
<1>3. ASSUME NEW m \in DOMAIN deps
      PROVE  /\ m \in DOMAIN program /\ DepsMade(m) /\ TablesFinite(m)
             /\ m \notin After(program, m)
  BY <1>1 DEF Shape, Loaded, NamesShape, Acyclic
<1>4. ASSUME NEW m \in DOMAIN deps, NEW a \in DOMAIN deps[m]
      PROVE deps[m][a] \in DOMAIN deps /\ deps[m][a] \in R!Wanted(program, m)
  <2>1. deps[m][a] \in DOMAIN deps
    BY <1>1 DEF TypeOK
  <2>2. {deps[m][b] : b \in DOMAIN deps[m]} = R!Wanted(program, m)
    BY <1>1, <1>3, DepsWanted
  <2> QED BY <2>1, <2>2
<1>5. \A m \in DOMAIN deps : TheirsFinite(m)
  BY <1>3, <1>4 DEF TheirsFinite, TablesFinite
<1>6. \A i \in DOMAIN frames : FrameShape(i) /\ frames[i].module \in DOMAIN deps
  BY <1>1 DEF NamesShape, TypeOK
<1>7. ASSUME NEW i \in DOMAIN frames, NEW j \in DOMAIN frames, j < i
      PROVE frames[i].module # frames[j].module
  <2>1. j \in 1 .. i - 1
    BY <1>2, <1>7
  <2>2. frames[i].module \in After(program, frames[j].module)
    BY <1>6, <2>1 DEF FrameShape
  <2> QED BY <1>3, <1>6, <2>2
<1>8. \A i, j \in DOMAIN frames : i # j => i < j \/ j < i
  BY <1>2
<1> QED BY <1>1, <1>2, <1>3, <1>4, <1>5, <1>6, <1>7, <1>8

\* A frame that a step does not change.
LEMMA FrameKept ==
  ASSUME program' = program, deps' = deps, NEW i, FrameShape(i), frames'[i] = frames[i],
         visited \subseteq visited', Left \subseteq Left',
         i < Len(frames)' => frames[i].stage = "dependencies",
         \A j \in 1 .. i - 1 : frames'[j].module = frames[j].module,
         \A a \in DOMAIN deps[frames[i].module] : Entered(i, a) => Entered(i, a)',
         globals'[frames[i].module] = globals[frames[i].module],
         exported'[frames[i].module] = exported[frames[i].module],
         TableMade(frames[i].module) => TableMade(frames[i].module)'
  PROVE  FrameShape(i)'
<1> DEFINE m == frames[i].module
<1>1. /\ frames[i] = [module |-> m, stage |-> frames[i].stage, todo |-> frames[i].todo]
      /\ m \in visited
      /\ \A j \in 1 .. i - 1 : m \in After(program, frames[j].module)
  BY DEF FrameShape
<1>2. /\ frames[i].stage = "dependencies" =>
          /\ frames[i].todo \subseteq DOMAIN deps[m]
          /\ \A a \in DOMAIN deps[m] \ frames[i].todo : Entered(i, a)
          /\ Untouched(m)
      /\ frames[i].stage # "dependencies" =>
          /\ \A a \in DOMAIN deps[m] : deps[m][a] \in Left
          /\ TableMade(m) /\ exported[m] = NoNames
      /\ frames[i].stage = "references" => frames[i].todo \subseteq DOMAIN globals[m]
  BY DEF FrameShape
<1>3. frames'[i].module = m /\ frames'[i].stage = frames[i].stage /\ frames'[i].todo = frames[i].todo
  OBVIOUS
<1>4. (Untouched(m) => Untouched(m)') /\ m \in visited'
  BY <1>1 DEF Untouched
<1>5. \A j \in 1 .. i - 1 : m \in After(program, frames'[j].module)
  BY <1>1
<1>6. \A a \in DOMAIN deps[m] : deps[m][a] \in Left => deps[m][a] \in Left'
  OBVIOUS
<1>7. frames'[i] = [module |-> m, stage |-> frames'[i].stage, todo |-> frames'[i].todo]
  BY <1>1, <1>3
<1>8. i < Len(frames)' => frames'[i].stage = "dependencies"
  BY <1>3
<1>9. frames'[i].stage = "dependencies" =>
          /\ frames'[i].todo \subseteq DOMAIN deps'[m]
          /\ \A a \in DOMAIN deps'[m] \ frames'[i].todo : Entered(i, a)'
          /\ Untouched(m)'
  BY <1>2, <1>3, <1>4
<1>10. frames'[i].stage # "dependencies" =>
          /\ \A a \in DOMAIN deps'[m] : deps'[m][a] \in Left'
          /\ TableMade(m)' /\ exported'[m] = NoNames
  BY <1>2, <1>3, <1>6
<1>11. frames'[i].stage = "references" => frames'[i].todo \subseteq DOMAIN globals'[m]
  BY <1>2, <1>3
<1> QED BY <1>3, <1>4, <1>5, <1>7, <1>8, <1>9, <1>10, <1>11 DEF FrameShape

\* What holds of the modules off the stack when a step changes no table.
LEMMA QuietTables ==
  ASSUME program' = program, deps' = deps, globals' = globals, exported' = exported, NEW m
  PROVE  /\ DepsMade(m)' = DepsMade(m) /\ TableMade(m)' = TableMade(m)
         /\ ExportsMade(m)' = ExportsMade(m) /\ Untouched(m)' = Untouched(m)
         /\ TablesFinite(m)' = TablesFinite(m)
<1>1. DepsMade(m)' = DepsMade(m)
  BY SameDepsMade
<1>2. ExportsMade(m)' = ExportsMade(m)
  BY SameExportsMade
<1>3. Untouched(m)' = Untouched(m) /\ TablesFinite(m)' = TablesFinite(m)
  BY DEF Untouched, TablesFinite
<1>4. Bindings(m)' = Bindings(m)
  BY DEF Bindings, ImportSymbols, DeclareSymbols, Couplings
<1>5. TableMade(m)' = TableMade(m)
  BY <1>4 DEF TableMade
<1> QED BY <1>1, <1>2, <1>3, <1>5

\* A step changes the top frame only, and no table.
LEMMA TopKept ==
  ASSUME Invariant, phase = "names",
         program' = program, phase' = phase, error' = error, deps' = deps,
         globals' = globals, exported' = exported, visited' = visited,
         NEW m, m = frames[Len(frames)].module, NEW stage, NEW todo,
         frames' = Advanced(frames, [module |-> m, stage |-> stage, todo |-> todo]),
         stage = "dependencies" =>
           /\ frames[Len(frames)].stage = "dependencies" /\ todo \subseteq DOMAIN deps[m]
           /\ \A a \in DOMAIN deps[m] \ todo : deps[m][a] \in Left,
         stage # "dependencies" => frames[Len(frames)].stage # "dependencies",
         stage = "references" => todo \subseteq DOMAIN globals[m]
  PROVE  Invariant'
<1> DEFINE l == Len(frames)
           frame == [module |-> m, stage |-> stage, todo |-> todo]
<1>f. /\ Shape /\ NamesShape /\ TypeOK /\ Loaded /\ program \in Programs /\ error = Ok
      /\ l \in Nat /\ l >= 1 /\ l \in 1 .. l
      /\ DOMAIN frames = 1 .. l /\ Listed(frames) /\ frames # <<>>
      /\ \A i \in DOMAIN frames : FrameShape(i) /\ frames[i].module \in DOMAIN deps
  BY NamesFacts
<1>1. frame.module = m /\ frame.stage = stage /\ frame.todo = todo
      /\ frame = [module |-> frame.module, stage |-> frame.stage, todo |-> frame.todo]
  OBVIOUS
<1> HIDE DEF frame
<1>2. /\ Listed(frames') /\ Len(frames') = l /\ frames' # <<>> /\ DOMAIN frames' = 1 .. l
      /\ frames'[l] = frame /\ \A i \in 1 .. l : i # l => frames'[i] = frames[i]
  BY <1>f, ListedAdvanced DEF frame
<1> HIDE DEF l
<1>3. \A i \in 1 .. l : frames'[i].module = frames[i].module
  BY <1>1, <1>2 DEF l
<1>4. OnFrames' = OnFrames
  BY <1>2, <1>3, <1>f DEF OnFrames
<1>5. Left' = Left
  BY <1>4 DEF Left
<1>6. \A x : /\ DepsMade(x)' = DepsMade(x) /\ TableMade(x)' = TableMade(x)
             /\ ExportsMade(x)' = ExportsMade(x) /\ Untouched(x)' = Untouched(x)
             /\ TablesFinite(x)' = TablesFinite(x)
  BY QuietTables
<1>7. Loaded'
  BY <1>6, <1>f DEF Loaded
<1>8. ASSUME NEW i \in 1 .. l PROVE FrameShape(i)'
  <2>1. CASE i # l
    <3>1. frames'[i] = frames[i] /\ FrameShape(i)
      BY <1>2, <1>f, <2>1
    <3>2. i < l
      BY <1>f, <2>1
    <3>3. frames[i].stage = "dependencies"
      BY <3>1, <3>2 DEF FrameShape, l
    <3>4. \A j \in 1 .. i - 1 : j \in 1 .. l
      BY <1>f
    <3>5. \A j \in 1 .. i - 1 : frames'[j].module = frames[j].module
      BY <1>3, <3>4
    <3>6. i + 1 \in 1 .. l
      BY <1>f, <3>2
    <3>7. \A a \in DOMAIN deps[frames[i].module] : Entered(i, a) => Entered(i, a)'
      BY <1>2, <1>3, <1>5, <1>f, <3>1, <3>6 DEF Entered
    <3> QED BY <1>5, <1>6, <3>1, <3>3, <3>5, <3>7, FrameKept
  <2>2. CASE i = l
    <3>1. FrameShape(l)
      BY <1>f
    <3>2. \A j \in 1 .. l - 1 : j \in 1 .. l
      BY <1>f
    <3>3. /\ m \in visited /\ \A j \in 1 .. l - 1 : m \in After(program, frames'[j].module)
      BY <1>3, <3>1, <3>2 DEF FrameShape, l
    <3>4. stage = "dependencies" => Untouched(m)'
      BY <1>6, <3>1 DEF FrameShape, l
    <3>0. /\ frames'[i].module = m /\ frames'[i].stage = stage /\ frames'[i].todo = todo
          /\ frames'[i] = [module |-> m, stage |-> stage, todo |-> todo]
      BY <1>1, <1>2, <2>2 DEF frame
    <3>5. ASSUME stage = "dependencies", NEW a \in DOMAIN deps'[m] \ todo PROVE Entered(i, a)'
      <4>1. deps'[frames'[i].module][a] \in Left'
        BY <1>5, <3>0, <3>5
      <4> QED BY <4>1 DEF Entered
    <3>6. stage # "dependencies" =>
            /\ \A a \in DOMAIN deps'[m] : deps'[m][a] \in Left'
            /\ TableMade(m)' /\ exported'[m] = NoNames
      BY <1>5, <1>6, <3>1 DEF FrameShape, l
    <3>7. ~(i < Len(frames)')
      BY <1>2, <1>f, <2>2
    <3>8. (stage = "dependencies" => todo \subseteq DOMAIN deps'[m])
          /\ (stage = "references" => todo \subseteq DOMAIN globals'[m])
          /\ m \in visited'
      BY <3>3
    <3>9. \A j \in 1 .. i - 1 : m \in After(program, frames'[j].module)
      BY <2>2, <3>3
    <3> QED BY <3>0, <3>3, <3>4, <3>5, <3>6, <3>7, <3>8, <3>9 DEF FrameShape
  <2> QED BY <2>1, <2>2
<1>9. \A x \in Left' : Done(x)'
  BY <1>5, <1>6, <1>f DEF NamesShape, Done
<1>10. \A x \in DOMAIN deps' \ visited' : Untouched(x)'
  BY <1>6, <1>f DEF NamesShape
<1>11. \A x \in DOMAIN deps' : TablesFinite(x)'
  BY <1>6, <1>f DEF NamesShape
<1>12. NamesShape'
  BY <1>2, <1>7, <1>8, <1>9, <1>10, <1>11, <1>f DEF NamesShape
<1>13. Shape'
  <2>1. \A i \in DOMAIN frames' : frames'[i].module \in DOMAIN deps
    BY <1>2, <1>3, <1>f
  <2> QED BY <1>f, <2>1 DEF Shape, TypeOK
<1> QED BY <1>12, <1>13, <1>f DEF Invariant, Ok

LEMMA FrameTrimmed ==
  ASSUME NEW m, NEW stage, NEW todo, NEW new
  PROVE  [[module |-> m, stage |-> stage, todo |-> todo] EXCEPT !.todo = new]
           = [module |-> m, stage |-> stage, todo |-> new]
OBVIOUS

LEMMA FrameParts ==
  ASSUME NEW m, NEW stage, NEW todo, NEW x, x = [module |-> m, stage |-> stage, todo |-> todo]
  PROVE  x.module = m /\ x.stage = stage /\ x.todo = todo
OBVIOUS

\* A frame that a step makes.
LEMMA FrameMade ==
  ASSUME NEW i, NEW m, NEW stage, NEW todo,
         frames'[i] = [module |-> m, stage |-> stage, todo |-> todo],
         program' = program, deps' = deps, m \in visited',
         \A j \in 1 .. i - 1 : m \in After(program, frames'[j].module),
         i < Len(frames)' => stage = "dependencies",
         stage = "dependencies" =>
           /\ todo \subseteq DOMAIN deps[m] /\ Untouched(m)'
           /\ \A a \in DOMAIN deps[m] \ todo : Entered(i, a)',
         stage # "dependencies" =>
           /\ \A a \in DOMAIN deps[m] : deps[m][a] \in Left'
           /\ TableMade(m)' /\ exported'[m] = NoNames,
         stage = "references" => todo \subseteq DOMAIN globals'[m]
  PROVE  FrameShape(i)'
<1>1. frames'[i].module = m /\ frames'[i].stage = stage /\ frames'[i].todo = todo
  OBVIOUS
<1>2. \A j \in 1 .. i - 1 : m \in After(program', frames'[j].module)
  OBVIOUS
<1> QED BY <1>1, <1>2 DEF FrameShape

\* The frame that takes a name off the list of the top frame.
LEMMA TopTrimmed ==
  ASSUME Invariant, phase = "names", NEW name
  PROVE  LET top == Top(frames)
         IN [top EXCEPT !.todo = @ \ {name}] =
              [module |-> top.module, stage |-> top.stage, todo |-> top.todo \ {name}]
<1> DEFINE top == Top(frames)
           m == top.module
           stage == top.stage
           todo == top.todo
           new == todo \ {name}
<1>1. FrameShape(Len(frames)) /\ top = frames[Len(frames)]
  BY NamesFacts
<1>2. top = [module |-> m, stage |-> stage, todo |-> todo]
  BY <1>1 DEF FrameShape
<1> DEFINE u == [top EXCEPT !.todo = new]
<1>3. u = [top EXCEPT !.todo = new]
  OBVIOUS
<1> HIDE DEF m, stage, todo, new, u
<1>4. u = [[module |-> m, stage |-> stage, todo |-> todo] EXCEPT !.todo = new]
  BY <1>2, <1>3
<1>5. u = [module |-> m, stage |-> stage, todo |-> new]
  BY <1>4, FrameTrimmed
<1> QED BY <1>5 DEF u, m, stage, todo, new

\* What the top frame has looked at has been left.
LEMMA TopSeen ==
  ASSUME Invariant, phase = "names", NEW m, m = frames[Len(frames)].module,
         frames[Len(frames)].stage = "dependencies"
  PROVE  /\ frames[Len(frames)].todo \subseteq DOMAIN deps[m] /\ Untouched(m)
         /\ \A a \in DOMAIN deps[m] \ frames[Len(frames)].todo : deps[m][a] \in Left
<1> DEFINE l == Len(frames)
<1>1. FrameShape(l) /\ l \in Nat /\ DOMAIN frames = 1 .. l
  BY NamesFacts
<1> HIDE DEF l
<1>2. l + 1 \notin DOMAIN frames
  BY <1>1
<1>3. /\ frames[l].todo \subseteq DOMAIN deps[m] /\ Untouched(m)
      /\ \A a \in DOMAIN deps[m] \ frames[l].todo : Entered(l, a)
  BY <1>1 DEF FrameShape, l
<1>4. ASSUME NEW a \in DOMAIN deps[m] \ frames[l].todo PROVE deps[m][a] \in Left
  <2>1. Entered(l, a)
    BY <1>3
  <2> QED BY <1>2, <2>1 DEF Entered, l
<1> QED BY <1>3, <1>4 DEF l

\* resolve is called for a dependency it has not entered.
LEMMA EnterKeeps ==
  ASSUME Invariant, phase = "names",
         program' = program, phase' = phase, error' = error, deps' = deps,
         globals' = globals, exported' = exported,
         NEW m, m = frames[Len(frames)].module, frames[Len(frames)].stage = "dependencies",
         NEW name \in frames[Len(frames)].todo, NEW todo, todo = frames[Len(frames)].todo \ {name},
         NEW y, y = deps[m][name], y \notin visited, y \in DOMAIN deps,
         \A j \in 1 .. Len(frames) : y \in After(program, frames[j].module),
         frames' = Append(Advanced(frames, [module |-> m, stage |-> "dependencies", todo |-> todo]),
                          Resolving(y)),
         visited' = visited \cup {y}
  PROVE  Invariant'
<1> DEFINE l == Len(frames)
           frame == [module |-> m, stage |-> "dependencies", todo |-> todo]
           rest == Advanced(frames, frame)
<1>f. /\ Shape /\ NamesShape /\ TypeOK /\ Loaded /\ program \in Programs /\ error = Ok
      /\ l \in Nat /\ l >= 1 /\ l \in 1 .. l
      /\ DOMAIN frames = 1 .. l /\ Listed(frames) /\ frames # <<>>
      /\ \A i \in DOMAIN frames : FrameShape(i) /\ frames[i].module \in DOMAIN deps
  BY NamesFacts
<1>a. /\ program' = program /\ phase' = phase /\ error' = error /\ deps' = deps
      /\ globals' = globals /\ exported' = exported /\ phase = "names"
      /\ y \notin visited /\ frames' = Append(rest, Resolving(y)) /\ visited' = visited \cup {y}
  OBVIOUS
<1>b. /\ frames[l].todo \subseteq DOMAIN deps[m] /\ Untouched(m)
      /\ \A a \in DOMAIN deps[m] \ frames[l].todo : deps[m][a] \in Left
      /\ frames[l].stage = "dependencies"
  BY TopSeen
<1>c. y \in DOMAIN deps
  OBVIOUS
<1>d. \A j \in 1 .. l : y \in After(program, frames[j].module)
  OBVIOUS
<1>e. /\ m = frames[l].module /\ name \in frames[l].todo /\ todo = frames[l].todo \ {name}
      /\ y = deps[m][name]
  OBVIOUS
<1> HIDE DEF l, frame, rest
<1> DEFINE new == Resolving(y)
<1>1. frames' = Append(rest, new) /\ visited' = visited \cup {y}
  BY <1>a, <1>a
<1>2. /\ new.module = y /\ new.stage = "dependencies" /\ new.todo = DOMAIN deps[y]
      /\ new = [module |-> new.module, stage |-> new.stage, todo |-> new.todo]
      /\ frame.module = m /\ frame.stage = "dependencies" /\ frame.todo = todo
      /\ frame = [module |-> m, stage |-> frame.stage, todo |-> frame.todo]
  BY DEF Resolving, frame
<1> HIDE DEF new
<1>3. Listed(rest) /\ Len(rest) = l /\ rest[l] = frame /\ \A i \in 1 .. l : i # l => rest[i] = frames[i]
  BY <1>f, ListedAdvanced DEF rest, l
<1>4. /\ Listed(frames') /\ frames' # <<>> /\ DOMAIN frames' = 1 .. l + 1 /\ Len(frames') = l + 1
      /\ frames'[l + 1] = new /\ \A i \in 1 .. l : frames'[i] = rest[i]
  <2> DEFINE q == Append(rest, new)
  <2>1. /\ Listed(q) /\ q # <<>> /\ DOMAIN q = 1 .. l + 1 /\ Len(q) = l + 1
        /\ q[l + 1] = new /\ \A i \in 1 .. l : q[i] = rest[i]
    BY <1>3, ListedPush
  <2>2. frames' = q
    BY <1>1
  <2> HIDE DEF q
  <2> QED BY <2>1, <2>2
<1>5. \A i \in 1 .. l : frames'[i].module = frames[i].module
  BY <1>2, <1>3, <1>4, <1>e
<1>6. \A i \in 1 .. l + 1 : i = l + 1 \/ i \in 1 .. l
  BY <1>f
<1>7. OnFrames' = OnFrames \cup {y}
  <2>1. l + 1 \in 1 .. l + 1 /\ \A i \in 1 .. l : i \in 1 .. l + 1
    BY <1>f
  <2>3. frames'[l + 1].module = y
    BY <1>2, <1>4
  <2>2. {frames'[i].module : i \in 1 .. l + 1} = {frames[i].module : i \in 1 .. l} \cup {y}
    <3> DEFINE A == {frames'[i].module : i \in 1 .. l + 1}
               B == {frames[i].module : i \in 1 .. l}
    <3>1. \A i \in 1 .. l + 1 : frames'[i].module \in B \cup {y}
      BY <1>5, <1>6, <2>3
    <3>2. \A i \in 1 .. l : frames[i].module \in A
      BY <1>5, <2>1
    <3>3. y \in A
      BY <2>1, <2>3
    <3>4. A \subseteq B \cup {y}
      BY <3>1
    <3>5. B \subseteq A
      BY <3>2
    <3> HIDE DEF A, B
    <3>6. A = B \cup {y}
      BY <3>3, <3>4, <3>5
    <3> QED BY <3>6 DEF A, B
  <2> QED BY <1>f, <1>4, <2>2 DEF OnFrames
<1>8. Left' = Left
  BY <1>a, <1>1, <1>7 DEF Left
<1>9. \A x : /\ DepsMade(x)' = DepsMade(x) /\ TableMade(x)' = TableMade(x)
             /\ ExportsMade(x)' = ExportsMade(x) /\ Untouched(x)' = Untouched(x)
             /\ TablesFinite(x)' = TablesFinite(x)
  BY <1>a, QuietTables
<1>10. Loaded'
  BY <1>a, <1>f, <1>9 DEF Loaded
<1>11. ASSUME NEW i \in 1 .. l + 1 PROVE FrameShape(i)'
  <2>0. \A j \in 1 .. i - 1 : j \in 1 .. l
    BY <1>f
  <2>1. \A j \in 1 .. i - 1 : frames'[j].module = frames[j].module
    BY <1>5, <2>0
  <2>2. CASE i = l + 1
    <3>1. \A j \in 1 .. i - 1 : y \in After(program, frames'[j].module)
      BY <1>d, <2>0, <2>1
    <3>2. Untouched(y)'
      BY <1>c, <1>a, <1>f, <1>9 DEF NamesShape
    <3>3. frames'[i] = new /\ ~(i < Len(frames)') /\ y \in visited'
      BY <1>f, <1>1, <1>4, <2>2
    <3>4. new = [module |-> y, stage |-> "dependencies", todo |-> DOMAIN deps[y]]
      BY DEF Resolving, new
    <3>5. frames'[i] = [module |-> y, stage |-> "dependencies", todo |-> DOMAIN deps[y]]
      BY <3>3, <3>4
    <3>6. y \in visited' /\ \A a \in DOMAIN deps[y] \ DOMAIN deps[y] : Entered(i, a)'
      BY <3>3
    <3>7. DOMAIN deps[y] \subseteq DOMAIN deps[y]
      OBVIOUS
    <3>8. \A stage : stage = "dependencies" => (stage # "references" /\ ~(stage # "dependencies"))
      OBVIOUS
    <3> QED BY <1>a, <3>1, <3>2, <3>3, <3>5, <3>6, <3>7, <3>8, FrameMade
  <2>3. CASE i = l
    <3>1. frames'[i] = frame /\ frames'[i] = [module |-> m, stage |-> "dependencies", todo |-> todo]
      BY <1>f, <1>3, <1>4, <2>3 DEF frame
    <3>2. \A j \in 1 .. i - 1 : m \in After(program, frames'[j].module)
      <4>1. FrameShape(i) /\ frames[i].module = m
        BY <1>f, <1>e, <2>3
      <4> QED BY <2>1, <4>1 DEF FrameShape
    <3>3. m \in visited'
      <4>1. FrameShape(i) /\ frames[i].module = m
        BY <1>f, <1>e, <2>3
      <4> QED BY <1>1, <4>1 DEF FrameShape
    <3>4. ASSUME NEW a \in DOMAIN deps'[m] \ todo PROVE Entered(i, a)'
      <4>1. CASE a = name
        <5>1. deps'[frames'[i].module][a] = y /\ i + 1 \in DOMAIN frames' /\ frames'[i + 1].module = y
          BY <1>a, <1>e, <1>f, <1>2, <1>4, <2>3, <3>1, <4>1
        <5> QED BY <5>1 DEF Entered
      <4>2. CASE a # name
        <5>1. deps'[frames'[i].module][a] \in Left'
          <6>1. a \in DOMAIN deps[m] \ frames[l].todo
            BY <1>a, <1>e, <3>4, <4>2
          <6>2. frames'[i].module = m /\ deps'[m][a] \in Left
            <7>1. frames'[i].module = m
              BY <1>2, <3>1
            <7>2. deps[m][a] \in Left
              BY <1>b, <6>1
            <7> QED BY <1>a, <7>1, <7>2
          <6>3. deps'[m][a] \in Left'
            BY <1>8, <6>2
          <6> QED BY <6>2, <6>3
        <5> QED BY <5>1 DEF Entered
      <4> QED BY <4>1, <4>2
    <3>5. todo \subseteq DOMAIN deps[m]
      BY <1>b, <1>e
    <3>6. Untouched(m)'
      BY <1>b, <1>9
    <3>7. \A stage : stage = "dependencies" => (stage # "references" /\ ~(stage # "dependencies"))
      OBVIOUS
    <3>8. \A a \in DOMAIN deps[m] \ todo : Entered(i, a)'
      BY <1>a, <3>4
    <3> QED BY <1>a, <3>1, <3>2, <3>3, <3>5, <3>6, <3>7, <3>8, FrameMade
  <2>4. CASE i \in 1 .. l /\ i # l
    <3>1. frames'[i] = frames[i] /\ FrameShape(i)
      BY <1>f, <1>3, <1>4, <2>4
    <3>2. i < l
      BY <1>f, <2>4
    <3>3. frames[i].stage = "dependencies"
      BY <3>1, <3>2 DEF FrameShape, l
    <3>4. i + 1 \in 1 .. l /\ i + 1 \in 1 .. l + 1
      BY <1>f, <3>2
    <3>5. \A a \in DOMAIN deps[frames[i].module] : Entered(i, a) => Entered(i, a)'
      BY <1>a, <1>f, <1>4, <1>5, <1>8, <3>1, <3>4 DEF Entered
    <3>6. visited \subseteq visited' /\ Left \subseteq Left'
      BY <1>1, <1>8
    <3> QED BY <1>a, <1>9, <2>1, <3>1, <3>3, <3>5, <3>6, FrameKept
  <2> QED BY <1>6, <2>2, <2>3, <2>4
<1>12. \A x \in Left' : Done(x)'
  BY <1>a, <1>f, <1>8, <1>9 DEF NamesShape, Done
<1>13. \A x \in DOMAIN deps' \ visited' : Untouched(x)'
  BY <1>a, <1>f, <1>1, <1>9 DEF NamesShape
<1>14. \A x \in DOMAIN deps' : TablesFinite(x)'
  BY <1>a, <1>f, <1>9 DEF NamesShape
<1>15. NamesShape'
  BY <1>a, <1>f, <1>4, <1>10, <1>11, <1>12, <1>13, <1>14 DEF NamesShape
<1>16. Shape'
  <2>1. \A i \in DOMAIN frames' : frames'[i].module \in DOMAIN deps
    BY <1>c, <1>f, <1>2, <1>4, <1>5, <1>6
  <2>2. visited' \subseteq DOMAIN deps
    BY <1>c, <1>f, <1>1 DEF TypeOK
  <2> QED BY <1>a, <1>f, <2>1, <2>2 DEF Shape, TypeOK
<1> QED BY <1>a, <1>f, <1>15, <1>16 DEF Invariant, Ok

LEMMA ResolveDepKeeps ==
  ASSUME Invariant, ResolveDep
  PROVE  Invariant'
<1> DEFINE l == Len(frames)
           m == frames[l].module
<1>1. /\ phase = "names" /\ Top(frames).stage = "dependencies"
      /\ program' = program /\ phase' = phase /\ error' = error /\ walk' = walk /\ deps' = deps
      /\ globals' = globals /\ exported' = exported /\ refs' = refs
  BY DEF ResolveDep
<1>f. /\ Shape /\ NamesShape /\ TypeOK /\ Loaded /\ program \in Programs /\ error = Ok
      /\ l \in Nat /\ l >= 1 /\ l \in 1 .. l
      /\ DOMAIN frames = 1 .. l /\ Top(frames) = frames[l] /\ Listed(frames) /\ frames # <<>>
      /\ \A i \in DOMAIN frames : FrameShape(i) /\ frames[i].module \in DOMAIN deps
      /\ \A x \in DOMAIN deps :
              /\ x \in DOMAIN program /\ x \notin After(program, x)
              /\ \A a \in DOMAIN deps[x] :
                   deps[x][a] \in DOMAIN deps /\ deps[x][a] \in R!Wanted(program, x)
  BY <1>1, NamesFacts
<1>2. PICK name \in frames[l].todo :
       LET y == deps[m][name]
           rest == Advanced(frames, [Top(frames) EXCEPT !.todo = @ \ {name}])
       IN IF y \in visited
          THEN frames' = rest /\ UNCHANGED visited
          ELSE frames' = Append(rest, Resolving(y)) /\ visited' = visited \cup {y}
  BY <1>f DEF ResolveDep
<1> DEFINE y == deps[m][name]
           todo == frames[l].todo \ {name}
           frame == [module |-> m, stage |-> "dependencies", todo |-> todo]
           rest == Advanced(frames, frame)
<1>3. [Top(frames) EXCEPT !.todo = @ \ {name}] = frame
  <2>1. LET top == Top(frames)
         IN [top EXCEPT !.todo = @ \ {name}] =
              [module |-> top.module, stage |-> top.stage, todo |-> top.todo \ {name}]
    BY <1>1, TopTrimmed
  <2> QED BY <1>1, <1>f, <2>1
<1>4. IF y \in visited
      THEN frames' = rest /\ visited' = visited
      ELSE frames' = Append(rest, Resolving(y)) /\ visited' = visited \cup {y}
  BY <1>2, <1>3
<1>5. /\ frames[l].todo \subseteq DOMAIN deps[m] /\ Untouched(m)
      /\ \A a \in DOMAIN deps[m] \ frames[l].todo : deps[m][a] \in Left
      /\ frames[l].stage = "dependencies"
  <2>1. frames[l].stage = "dependencies" /\ m = frames[Len(frames)].module
    BY <1>1, <1>f
  <2> HIDE DEF m
  <2> QED BY <1>1, <2>1, TopSeen
<1>6. /\ m \in DOMAIN deps /\ m \in DOMAIN program /\ name \in DOMAIN deps[m]
      /\ y \in DOMAIN deps /\ y \in DOMAIN program /\ y \in R!Wanted(program, m) /\ y \notin After(program, y)
  BY <1>2, <1>5, <1>f
<1> HIDE DEF l, m, y, todo, frame, rest
<1>7. ASSUME NEW j \in 1 .. l
      PROVE  /\ m \in {frames[j].module} \cup After(program, frames[j].module)
             /\ y \in After(program, frames[j].module)
  <2>1. m \in {frames[j].module} \cup After(program, frames[j].module)
    <3>1. j = l \/ j \in 1 .. l - 1
      BY <1>f
    <3>2. FrameShape(l)
      BY <1>f
    <3>3. \A k \in 1 .. l - 1 : m \in After(program, frames[k].module)
      BY <3>2 DEF FrameShape, m
    <3> QED BY <3>1, <3>3 DEF m
  <2>2. frames[j].module \in DOMAIN program
    BY <1>f
  <2> DEFINE x == frames[j].module
  <2> HIDE DEF x
  <2>3. y \in After(program, x)
    BY <1>6, <1>f, <2>1, <2>2, ReachMore DEF x
  <2> QED BY <2>1, <2>3 DEF x
<1>8. y \notin OnFrames
  <2>1. SUFFICES ASSUME NEW j \in 1 .. l, y = frames[j].module PROVE FALSE
    BY <1>f DEF OnFrames
  <2> QED BY <1>6, <1>7, <2>1
<1>9. CASE y \in visited
  <2>1. y \in Left
    BY <1>8, <1>9 DEF Left
  <2>2. todo \subseteq DOMAIN deps[m] /\ \A a \in DOMAIN deps[m] \ todo : deps[m][a] \in Left
    BY <1>5, <2>1 DEF todo, y
  <2>3. frames' = Advanced(frames, [module |-> m, stage |-> "dependencies", todo |-> todo])
        /\ visited' = visited
    BY <1>4, <1>9 DEF rest, frame
  <2>4. m = frames[Len(frames)].module /\ frames[Len(frames)].stage = "dependencies"
    BY <1>5 DEF m, l
  <2>5. \A stage : stage = "dependencies" => (stage # "references" /\ ~(stage # "dependencies"))
    OBVIOUS
  <2> QED BY <1>1, <2>2, <2>3, <2>4, <2>5, TopKept
<1>10. CASE y \notin visited
  <2>1. /\ m = frames[Len(frames)].module /\ frames[Len(frames)].stage = "dependencies"
        /\ name \in frames[Len(frames)].todo /\ todo = frames[Len(frames)].todo \ {name}
        /\ y = deps[m][name] /\ \A j \in 1 .. Len(frames) : y \in After(program, frames[j].module)
    BY <1>2, <1>5, <1>7 DEF m, l, y, todo
  <2>2. /\ frames' = Append(Advanced(frames, [module |-> m, stage |-> "dependencies", todo |-> todo]),
                            Resolving(y))
        /\ visited' = visited \cup {y}
    BY <1>4, <1>10 DEF rest, frame
  <2> QED BY <1>1, <1>6, <1>10, <2>1, <2>2, EnterKeeps
<1> QED BY <1>9, <1>10

\* The table of the module on top is made.
LEMMA TableStep ==
  ASSUME Invariant, phase = "names",
         program' = program, phase' = phase, error' = error, deps' = deps,
         exported' = exported, visited' = visited,
         NEW m, m = frames[Len(frames)].module,
         frames[Len(frames)].stage = "dependencies", frames[Len(frames)].todo = {},
         NEW t, t = Table(Bindings(m)), FirstFault(Bindings(m)) = Ok,
         DOMAIN globals' = DOMAIN globals, globals'[m] = t,
         \A x \in DOMAIN deps : x # m => globals'[x] = globals[x],
         frames' = Advanced(frames, [module |-> m, stage |-> "references", todo |-> DOMAIN t])
  PROVE  Invariant'
<1> DEFINE l == Len(frames)
           frame == [module |-> m, stage |-> "references", todo |-> DOMAIN t]
<1>f. /\ Shape /\ NamesShape /\ TypeOK /\ Loaded /\ program \in Programs /\ error = Ok
      /\ l \in Nat /\ l >= 1 /\ l \in 1 .. l
      /\ DOMAIN frames = 1 .. l /\ Listed(frames) /\ frames # <<>>
      /\ \A i \in DOMAIN frames : FrameShape(i) /\ frames[i].module \in DOMAIN deps
      /\ \A i, j \in DOMAIN frames : i # j => frames[i].module # frames[j].module
      /\ \A x \in DOMAIN deps :
            x \in DOMAIN program /\ DepsMade(x) /\ TablesFinite(x) /\ TheirsFinite(x)
  BY NamesFacts
<1>1. frame.module = m
  OBVIOUS
<1>e. m = frames[l].module /\ m \in DOMAIN deps
  BY <1>f
<1>s. /\ \A a \in DOMAIN deps[m] : deps[m][a] \in Left
      /\ Untouched(m)
  BY TopSeen
<1> HIDE DEF frame
<1>2. /\ Listed(frames') /\ Len(frames') = l /\ frames' # <<>> /\ DOMAIN frames' = 1 .. l
      /\ frames'[l] = frame /\ \A i \in 1 .. l : i # l => frames'[i] = frames[i]
  <2> DEFINE q == Advanced(frames, frame)
  <2>1. /\ Listed(q) /\ Len(q) = l /\ q # <<>> /\ DOMAIN q = 1 .. l
        /\ q[l] = frame /\ \A i \in 1 .. l : i # l => q[i] = frames[i]
    <3>1. Listed(frames) /\ frames # <<>>
      BY <1>f
    <3> QED BY ONLY <3>1, ListedAdvanced
  <2>2. frames' = q
    BY DEF frame
  <2> HIDE DEF q, l
  <2> QED BY <2>1, <2>2
<1> HIDE DEF l
<1>3. \A i \in 1 .. l : frames'[i].module = frames[i].module
  BY <1>1, <1>2, <1>e
<1>4. OnFrames' = OnFrames /\ m \in OnFrames
  <2>1. OnFrames' = OnFrames
    BY <1>2, <1>3, <1>f DEF OnFrames
  <2>2. m \in OnFrames
    BY <1>e, <1>f DEF OnFrames
  <2> QED BY <2>1, <2>2
<1>5. Left' = Left /\ m \notin Left
  BY <1>4 DEF Left
<1>6. \A x \in DOMAIN deps : DepsMade(x)'
  BY <1>f, SameDepsMade
<1>7. Loaded'
  BY <1>6, <1>f DEF Loaded
<1>8. ASSUME NEW x \in DOMAIN deps, x # m
      PROVE  /\ TableMade(x)' = TableMade(x) /\ ExportsMade(x)' = ExportsMade(x)
             /\ Untouched(x)' = Untouched(x) /\ TablesFinite(x)' = TablesFinite(x)
  <2>1. globals'[x] = globals[x] /\ exported'[x] = exported[x]
    BY <1>8
  <2>2. TableMade(x)' = TableMade(x)
    BY <1>f, <2>1, SameTableMade
  <2>3. ExportsMade(x)' = ExportsMade(x)
    BY <2>1, SameExportsMade
  <2> QED BY <2>1, <2>2, <2>3 DEF Untouched, TablesFinite
<1>9. TableMade(m)'
  <2>1. Bindings(m)' = Bindings(m)
    BY <1>e, <1>f, SameBindings
  <2> QED BY <2>1 DEF TableMade
<1>10. exported'[m] = NoNames /\ TablesFinite(m)'
  <2>1. Listed(Bindings(m))
    BY <1>e, <1>f, BindingFaults
  <2>2. IsFiniteSet(DOMAIN t)
    BY <2>1, TableIs
  <2>3. TablesFinite(m)
    BY <1>e, <1>f
  <2> QED BY <1>s, <2>2, <2>3 DEF Untouched, TablesFinite
<1>11. ASSUME NEW i \in 1 .. l PROVE FrameShape(i)'
  <2>4. \A j \in 1 .. i - 1 : j \in 1 .. l
    BY <1>f
  <2>5. \A j \in 1 .. i - 1 : frames'[j].module = frames[j].module
    BY <1>3, <2>4
  <2>1. CASE i # l
    <3>1. frames'[i] = frames[i] /\ FrameShape(i)
      BY <1>2, <1>f, <2>1
    <3>2. i < l
      BY <1>f, <2>1
    <3>3. frames[i].stage = "dependencies"
      BY <3>1, <3>2 DEF FrameShape, l
    <3>6. i + 1 \in 1 .. l
      BY <1>f, <3>2
    <3>7. \A a \in DOMAIN deps[frames[i].module] : Entered(i, a) => Entered(i, a)'
      BY <1>2, <1>3, <1>5, <1>f, <3>1, <3>6 DEF Entered
    <3>8. frames[i].module # m /\ frames[i].module \in DOMAIN deps
      BY <1>e, <1>f, <2>1
    <3>9. /\ globals'[frames[i].module] = globals[frames[i].module]
          /\ exported'[frames[i].module] = exported[frames[i].module]
      BY <3>8
    <3>10. TableMade(frames[i].module) => TableMade(frames[i].module)'
      <4>1. \A z \in DOMAIN deps : z # m => (TableMade(z) => TableMade(z)')
        BY <1>8
      <4>2. \A z : z = frames[i].module => (TableMade(z) => TableMade(z)')
        BY <3>8, <4>1
      <4> QED BY <3>1, <4>2
    <3> QED BY <1>5, <2>5, <3>1, <3>3, <3>7, <3>9, <3>10, FrameKept
  <2>2. CASE i = l
    <3>1. frames'[i] = [module |-> m, stage |-> "references", todo |-> DOMAIN t]
      BY <1>2, <2>2 DEF frame
    <3>2. m \in visited' /\ \A j \in 1 .. i - 1 : m \in After(program, frames'[j].module)
      <4>1. FrameShape(i) /\ frames[i].module = m
        BY <1>f, <1>e, <2>2
      <4> QED BY <2>5, <4>1 DEF FrameShape
    <3>3. ~(i < Len(frames)')
      BY <1>2, <1>f, <2>2
    <3>4. \A a \in DOMAIN deps[m] : deps[m][a] \in Left'
      BY <1>5, <1>s
    <3>5. DOMAIN t \subseteq DOMAIN globals'[m]
      OBVIOUS
    <3>6. \A stage : stage = "references" => stage # "dependencies"
      OBVIOUS
    <3> QED BY <1>9, <1>10, <3>1, <3>2, <3>3, <3>4, <3>5, <3>6, FrameMade
  <2> QED BY <2>1, <2>2
<1>12. \A x \in Left' : Done(x)'
  <2>1. SUFFICES ASSUME NEW x \in Left PROVE Done(x)'
    BY <1>5
  <2>2. Done(x) /\ x # m /\ x \in DOMAIN deps
    BY <1>5, <1>f, <2>1 DEF NamesShape, Left, TypeOK
  <2>3. TableMade(x)' /\ ExportsMade(x)'
    BY <1>8, <2>2 DEF Done
  <2> QED BY <1>5, <2>2, <2>3 DEF Done
<1>13. \A x \in DOMAIN deps' \ visited' : Untouched(x)'
  <2>1. m \in visited
    <3>1. FrameShape(l)
      BY <1>f
    <3> QED BY <1>e, <3>1 DEF FrameShape
  <2> QED BY <1>8, <1>f, <2>1 DEF NamesShape
<1>14. \A x \in DOMAIN deps' : TablesFinite(x)'
  <2>1. SUFFICES ASSUME NEW x \in DOMAIN deps PROVE TablesFinite(x)'
    OBVIOUS
  <2>2. CASE x = m
    BY <1>10, <2>2
  <2>3. CASE x # m
    BY <1>8, <1>f, <2>3
  <2> QED BY <2>2, <2>3
<1>15. NamesShape'
  BY <1>2, <1>7, <1>11, <1>12, <1>13, <1>14, <1>f DEF NamesShape
<1>16. Shape'
  <2>1. \A i \in DOMAIN frames' : frames'[i].module \in DOMAIN deps
    BY <1>2, <1>3, <1>f
  <2> QED BY <1>f, <2>1 DEF Shape, TypeOK
<1> QED BY <1>15, <1>16, <1>f DEF Invariant, Ok

LEMMA CreateSymbolsKeeps ==
  ASSUME Invariant, CreateSymbols
  PROVE  Invariant'
<1> DEFINE m == Top(frames).module
           B == Bindings(m)
<1>1. /\ phase = "names" /\ Top(frames).stage = "dependencies" /\ Top(frames).todo = {}
      /\ program' = program /\ deps' = deps /\ exported' = exported /\ visited' = visited
  BY DEF CreateSymbols
<1>2. IF FirstFault(B) # Ok
      THEN Fail(FirstFault(B)) /\ frames' = frames /\ globals' = globals
      ELSE /\ globals' = [globals EXCEPT ![m] = Table(B)]
           /\ frames' = Advanced(frames, [module |-> m, stage |-> "references", todo |-> DOMAIN Table(B)])
           /\ phase' = phase /\ error' = error
  BY DEF CreateSymbols, Bindings
<1>f. /\ Top(frames) = frames[Len(frames)] /\ program \in Programs /\ DOMAIN globals = DOMAIN deps
      /\ m \in DOMAIN deps /\ m \in DOMAIN program /\ DepsMade(m) /\ TheirsFinite(m)
  BY <1>1, NamesFacts
<1>3. CASE FirstFault(B) # Ok
  <2>1. FirstFault(B) \in Faults
    BY <1>f, BindingFaults
  <2>2. FirstFault(B) # "InvalidDependencyCycle"
    BY <2>1 DEF Faults, Ok
  <2> HIDE DEF B
  <2> QED BY <1>1, <1>2, <1>3, <2>2, FailKeeps
<1>4. CASE FirstFault(B) = Ok
  <2> DEFINE t == Table(B)
  <2>1. m = frames[Len(frames)].module /\ frames[Len(frames)].stage = "dependencies"
        /\ frames[Len(frames)].todo = {}
    BY <1>1, <1>f
  <2>2. /\ globals' = [globals EXCEPT ![m] = t]
        /\ frames' = Advanced(frames, [module |-> m, stage |-> "references", todo |-> DOMAIN t])
        /\ phase' = phase /\ error' = error
    BY <1>2, <1>4
  <2>3. t = Table(Bindings(m)) /\ FirstFault(Bindings(m)) = Ok
    BY <1>4
  <2> HIDE DEF t, m, B
  <2>4. /\ DOMAIN globals' = DOMAIN globals /\ globals'[m] = t
        /\ \A x \in DOMAIN deps : x # m => globals'[x] = globals[x]
    BY <1>f, <2>2
  <2> QED BY <1>1, <2>1, <2>2, <2>3, <2>4, TableStep
<1> QED BY <1>3, <1>4

-----------------------------------------------------------------------------
\* Where a name of a module comes from.

IsAlias(m, x, sy) ==
  \E i \in 1 .. Len(Couplings(m)) :
    LET c == Couplings(m)[i]
    IN /\ c.kind = "import" /\ ~c.all
       /\ \E k \in 1 .. Len(c.items) : x = c.items[k].as /\ sy = ModuleSymbol(m, c, k)

IsTaken(m, x, sy) ==
  \E i \in 1 .. Len(Couplings(m)) :
    LET c == Couplings(m)[i]
        theirs == exported[c.module]
    IN /\ c.kind = "from" /\ c.all
       /\ x \in DOMAIN theirs /\ sy = External(theirs[x], x)

IsPicked(m, x, sy) ==
  \E i \in 1 .. Len(Couplings(m)) :
    LET c == Couplings(m)[i]
        theirs == exported[c.module]
    IN /\ c.kind = "from" /\ ~c.all
       /\ \E k \in 1 .. Len(c.items) :
            /\ x = c.items[k].as /\ c.items[k].name \in DOMAIN theirs
            /\ sy = External(theirs[c.items[k].name], theirs[c.items[k].name].name)

IsDeclared(m, x, sy) ==
  \E j \in 1 .. Len(program[m].symbols) :
    LET d == program[m].symbols[j]
    IN d.fault = Ok /\ x = d.name /\ sy = Global(d.kind, m, d.name, FALSE, <<m, d.name>>)

LEMMA EntryOrigin ==
  ASSUME program \in Programs, NEW m \in DOMAIN program, DepsMade(m), TheirsFinite(m),
         TableMade(m), NEW x \in DOMAIN globals[m], NEW sy, sy = globals[m][x]
  PROVE  IsAlias(m, x, sy) \/ IsTaken(m, x, sy) \/ IsPicked(m, x, sy) \/ IsDeclared(m, x, sy)
<1> DEFINE n == Len(Couplings(m))
           parts == Parts(m)
<1>1. PICK i \in 1 .. n + 1 : \E k \in 1 .. Len(parts[i]) : parts[i][k].as = x
  BY TableEntries DEF Entries
<1>2. PICK k \in 1 .. Len(parts[i]) : parts[i][k].as = x
  BY <1>1
<1>3. parts[i][k].fault = Ok /\ sy = parts[i][k].sy
  BY <1>2, TableEntries DEF Entries
<1>4. n \in Nat
  BY FileParts DEF Couplings
<1>5. CASE i = n + 1
  <2> DEFINE ds == program[m].symbols
             s == DeclareSymbols(m)
  <2>1. parts[i] = s
    BY <1>5 DEF Parts
  <2>2. /\ Len(s) = Len(ds)
        /\ \A j \in 1 .. Len(ds) :
               s[j] = IF ds[j].fault # Ok THEN Unbound(ds[j].name, ds[j].fault)
                      ELSE Binding(ds[j].name, Global(ds[j].kind, m, ds[j].name, FALSE,
                                                      <<m, ds[j].name>>))
    BY DeclareSymbolsIs
  <2>3. k \in 1 .. Len(s) /\ s[k].as = x /\ s[k].fault = Ok /\ sy = s[k].sy
    BY <1>2, <1>3, <2>1
  <2> HIDE DEF s, ds
  <2>4. k \in 1 .. Len(ds)
    BY <2>2, <2>3
  <2>5. ds[k].fault = Ok
    <3>1. SUFFICES ASSUME ds[k].fault # Ok PROVE FALSE
      OBVIOUS
    <3>2. s[k] = Unbound(ds[k].name, ds[k].fault)
      BY <2>2, <2>4, <3>1
    <3> QED BY <2>3, <3>1, <3>2 DEF Unbound
  <2>6. s[k] = Binding(ds[k].name, Global(ds[k].kind, m, ds[k].name, FALSE, <<m, ds[k].name>>))
    BY <2>2, <2>4, <2>5
  <2>7. x = ds[k].name /\ sy = Global(ds[k].kind, m, ds[k].name, FALSE, <<m, ds[k].name>>)
    BY <2>3, <2>6 DEF Binding
  <2>8. IsDeclared(m, x, sy)
    BY <2>4, <2>5, <2>7 DEF IsDeclared, ds
  <2> QED BY <2>8
<1>6. CASE i # n + 1
  <2>1. i \in 1 .. n /\ parts[i] = BoundBy(m, i)
    BY <1>4, <1>6 DEF Parts
  <2> DEFINE b == BoundBy(m, i)
             c == Couplings(m)[i]
             theirs == exported[c.module]
             names == SetToSeq(DOMAIN theirs)
  <2>2. BoundAs(m, i) /\ IsCoupling(c)
    BY <2>1, BoundByIs
  <2>3. k \in 1 .. Len(b) /\ b[k].as = x /\ b[k].fault = Ok /\ sy = b[k].sy
    BY <1>2, <1>3, <2>1
  <2> HIDE DEF b, c, theirs, names
  <2>4. CASE c.kind = "import"
    <3>1. ~c.all /\ Len(b) = Len(c.items) /\ b[k] = Binding(c.items[k].as, ModuleSymbol(m, c, k))
      BY <2>2, <2>3, <2>4 DEF BoundAs, b, c
    <3>2. x = c.items[k].as /\ sy = ModuleSymbol(m, c, k) /\ k \in 1 .. Len(c.items)
      BY <2>3, <3>1 DEF Binding
    <3>3. IsAlias(m, x, sy)
      BY <2>1, <2>4, <3>1, <3>2 DEF IsAlias, c, n
    <3> QED BY <3>3
  <2>5. CASE c.kind = "from" /\ c.all
    <3>1. names[k] \in DOMAIN theirs /\ b[k] = Binding(names[k], External(theirs[names[k]], names[k]))
      BY <2>2, <2>3, <2>5 DEF BoundAs, b, c, theirs, names
    <3>2. x \in DOMAIN theirs /\ sy = External(theirs[x], x)
      BY <2>3, <3>1 DEF Binding
    <3>3. IsTaken(m, x, sy)
      BY <2>1, <2>5, <3>2 DEF IsTaken, c, n, theirs
    <3> QED BY <3>3
  <2>6. CASE c.kind = "from" /\ ~c.all
    <3> DEFINE item == c.items[k]
    <3>1. /\ Len(b) = Len(c.items)
          /\ b[k] = IF item.name \in DOMAIN theirs
                    THEN Binding(item.as, External(theirs[item.name], theirs[item.name].name))
                    ELSE Unbound(item.as, "NameNotExported")
      BY <2>2, <2>3, <2>6 DEF BoundAs, b, c, theirs
    <3>2. item.name \in DOMAIN theirs
      <4>1. SUFFICES ASSUME item.name \notin DOMAIN theirs PROVE FALSE
        OBVIOUS
      <4>2. b[k].fault = "NameNotExported"
        BY <3>1, <4>1 DEF Unbound
      <4> QED BY <2>3, <4>2 DEF Ok
    <3>3. x = item.as /\ sy = External(theirs[item.name], theirs[item.name].name) /\ k \in 1 .. Len(c.items)
      BY <2>3, <3>1, <3>2 DEF Binding
    <3>4. IsPicked(m, x, sy)
      BY <2>1, <2>6, <3>2, <3>3 DEF IsPicked, c, n, theirs
    <3> QED BY <3>4
  <2>7. CASE c.kind = "export"
    <3>1. Len(b) = 0
      BY <2>2, <2>7 DEF BoundAs, b, c
    <3> QED BY <2>3, <3>1
  <2> QED BY <2>2, <2>4, <2>5, <2>6, <2>7 DEF IsCoupling
<1> QED BY <1>5, <1>6

\* The symbols that are neither imported nor modules are the declared ones.
LEMMA OwnDeclared ==
  ASSUME program \in Programs, NEW m \in DOMAIN program, DepsMade(m), TheirsFinite(m),
         TableMade(m), NEW x \in DOMAIN globals[m],
         ~globals[m][x].external, globals[m][x].kind # "module"
  PROVE  IsDeclaration(Decl(globals[m][x]))
<1> DEFINE sy == globals[m][x]
           ds == program[m].symbols
<1>1. IsAlias(m, x, sy) \/ IsTaken(m, x, sy) \/ IsPicked(m, x, sy) \/ IsDeclared(m, x, sy)
  BY EntryOrigin
<1>0. ~sy.external /\ sy.kind # "module"
  OBVIOUS
<1> HIDE DEF sy
<1>2. ~IsAlias(m, x, sy) /\ ~IsTaken(m, x, sy) /\ ~IsPicked(m, x, sy)
  <2>1. IsAlias(m, x, sy) => sy.kind = "module"
    BY DEF IsAlias, ModuleSymbol, Global
  <2>2. IsTaken(m, x, sy) => sy.external
    BY DEF IsTaken, External, Global
  <2>3. IsPicked(m, x, sy) => sy.external
    BY DEF IsPicked, External, Global
  <2> QED BY <1>0, <2>1, <2>2, <2>3
<1>3. PICK j \in 1 .. Len(ds) : sy = Global(ds[j].kind, m, ds[j].name, FALSE, <<m, ds[j].name>>)
  BY <1>1, <1>2 DEF IsDeclared
<1>4. sy.decl[1] = m /\ sy.decl[2] = ds[j].name
  BY <1>3 DEF Global
<1>5. DOMAIN ds = 1 .. Len(ds) /\ \A i \in 1 .. Len(ds) : IsDeclaration(ds[i])
  BY DeclareSymbolsIs
<1> DEFINE at == CHOOSE i \in DOMAIN ds : ds[i].name = sy.decl[2]
<1>6. at \in DOMAIN ds
  BY <1>4, <1>5
<1>7. Decl(sy) = ds[at]
  BY <1>4 DEF Decl
<1> QED BY <1>5, <1>6, <1>7 DEF sy

LEMMA RefFaults ==
  ASSUME NEW m, NEW r, r.via \in Forms
  PROVE  RefFault(m, r) # "InvalidDependencyCycle"
BY DEF RefFault, Forms, Ok

\* A symbol is linked, or its first bad reference is reported.
LEMMA LinkSymbolKeeps ==
  ASSUME Invariant, LinkSymbol
  PROVE  Invariant'
<1> DEFINE l == Len(frames)
           m == Top(frames).module
<1>1. /\ phase = "names" /\ Top(frames).stage = "references"
      /\ program' = program /\ deps' = deps /\ globals' = globals /\ exported' = exported
      /\ visited' = visited
  BY DEF LinkSymbol
<1>f. /\ Top(frames) = frames[l] /\ program \in Programs /\ DOMAIN globals = DOMAIN deps
      /\ m \in DOMAIN deps /\ m \in DOMAIN program /\ DepsMade(m) /\ TheirsFinite(m)
      /\ FrameShape(l)
  BY <1>1, NamesFacts
<1>2. PICK n \in Top(frames).todo :
       LET sy == globals[m][n]
           own == ~sy.external /\ sy.kind # "module"
           faulty == {i \in DOMAIN Decl(sy).refs : RefFault(m, Decl(sy).refs[i]) # Ok}
           first == CHOOSE i \in faulty : \A j \in faulty : i <= j
           next == Advanced(frames, [Top(frames) EXCEPT !.todo = @ \ {n}])
       IN \/ frames' = next /\ phase' = phase /\ error' = error
          \/ /\ own /\ faulty # {} /\ frames' = frames
             /\ Fail(RefFault(m, Decl(sy).refs[first]))
  BY DEF LinkSymbol
<1>3. /\ TableMade(m) /\ Top(frames).todo \subseteq DOMAIN globals[m] /\ m = frames[Len(frames)].module
      /\ frames[Len(frames)].stage = "references"
  BY <1>1, <1>f DEF FrameShape
<1> DEFINE next == Advanced(frames, [Top(frames) EXCEPT !.todo = @ \ {n}])
<1>4. CASE frames' = next /\ phase' = phase /\ error' = error
  <2> DEFINE todo == Top(frames).todo \ {n}
  <2>1. [Top(frames) EXCEPT !.todo = @ \ {n}] =
              [module |-> m, stage |-> "references", todo |-> todo]
    <3>1. LET top == Top(frames)
          IN [top EXCEPT !.todo = @ \ {n}] =
              [module |-> top.module, stage |-> top.stage, todo |-> top.todo \ {n}]
      BY <1>1, TopTrimmed
    <3> QED BY <1>1, <3>1
  <2>2. frames' = Advanced(frames, [module |-> m, stage |-> "references", todo |-> todo])
    BY <1>4, <2>1
  <2>3. todo \subseteq DOMAIN globals[m]
    BY <1>3
  <2>4. \A stage : stage = "references" => stage # "dependencies"
    OBVIOUS
  <2> HIDE DEF todo, m
  <2> QED BY <1>1, <1>3, <1>4, <2>2, <2>3, <2>4, TopKept
<1> DEFINE sy == globals[m][n]
           faulty == {i \in DOMAIN Decl(sy).refs : RefFault(m, Decl(sy).refs[i]) # Ok}
           first == CHOOSE i \in faulty : \A j \in faulty : i <= j
           e == RefFault(m, Decl(sy).refs[first])
<1>5. CASE /\ ~sy.external /\ sy.kind # "module" /\ faulty # {} /\ frames' = frames /\ Fail(e)
  <2>1. IsDeclaration(Decl(sy))
    BY <1>f, <1>3, <1>5, OwnDeclared
  <2> DEFINE rs == Decl(sy).refs
  <2>2. DOMAIN rs = 1 .. Len(rs) /\ Len(rs) \in Nat
    BY <2>1, ListedSeq DEF IsDeclaration
  <2>3. \A i \in DOMAIN rs : rs[i].via \in Forms
    BY <2>1 DEF IsDeclaration
  <2>4. faulty \subseteq Nat
    BY <2>2
  <2>5. first \in faulty
    <3> HIDE DEF faulty
    <3>1. \E i \in faulty : \A j \in faulty : i <= j
      BY <1>5, <2>4, Flattening!Least
    <3> QED BY <3>1
  <2> HIDE DEF first
  <2>6. first \in DOMAIN rs /\ e # Ok
    BY <2>5
  <2>7. e # "InvalidDependencyCycle"
    <3>1. rs[first].via \in Forms
      BY <2>3, <2>6
    <3> HIDE DEF rs
    <3>2. RefFault(m, rs[first]) # "InvalidDependencyCycle"
      BY <3>1, RefFaults
    <3> QED BY <3>2 DEF rs
  <2>8. Fail(e) /\ frames' = frames
    BY <1>5
  <2> HIDE DEF e
  <2> QED BY <1>1, <2>6, <2>7, <2>8, FailKeeps
<1> QED BY <1>2, <1>4, <1>5

LEMMA CheckGlobalsKeeps ==
  ASSUME Invariant, CheckGlobals
  PROVE  Invariant'
<1> DEFINE m == Top(frames).module
           todo == UNION {{Node(globals[m][n], p) : p \in {Whole} \cup Fields(globals[m][n])} :
                             n \in DOMAIN globals[m]}
<1>1. /\ phase = "names" /\ Top(frames).stage = "references"
      /\ program' = program /\ phase' = phase /\ error' = error /\ deps' = deps
      /\ globals' = globals /\ exported' = exported /\ visited' = visited
      /\ frames' = Advanced(frames, [module |-> m, stage |-> "cycles", todo |-> todo])
  BY DEF CheckGlobals
<1>2. m = frames[Len(frames)].module /\ frames[Len(frames)].stage = "references"
  BY <1>1, NamesFacts
<1>3. \A stage : stage = "references" => stage # "dependencies"
  OBVIOUS
<1>4. "cycles" # "dependencies" /\ "cycles" # "references"
  OBVIOUS
<1> HIDE DEF m, todo
<1> QED BY <1>1, <1>2, <1>3, <1>4, TopKept

LEMMA StartSymbolCheckKeeps ==
  ASSUME Invariant, StartSymbolCheck
  PROVE  Invariant'
<1> DEFINE m == Top(frames).module
<1>1. /\ phase = "names" /\ Top(frames).stage = "cycles"
      /\ program' = program /\ phase' = phase /\ error' = error /\ deps' = deps
      /\ globals' = globals /\ exported' = exported /\ visited' = visited
  BY DEF StartSymbolCheck
<1>2. PICK node : frames' = Advanced(frames, [Top(frames) EXCEPT !.todo = @ \ {node}])
  BY DEF StartSymbolCheck
<1>3. m = frames[Len(frames)].module /\ frames[Len(frames)].stage = "cycles"
  BY <1>1, NamesFacts
<1> DEFINE todo == Top(frames).todo \ {node}
<1>4. [Top(frames) EXCEPT !.todo = @ \ {node}] = [module |-> m, stage |-> "cycles", todo |-> todo]
  <2>1. LET top == Top(frames)
        IN [top EXCEPT !.todo = @ \ {node}] =
            [module |-> top.module, stage |-> top.stage, todo |-> top.todo \ {node}]
    BY <1>1, TopTrimmed
  <2> QED BY <1>1, <2>1
<1>5. frames' = Advanced(frames, [module |-> m, stage |-> "cycles", todo |-> todo])
  BY <1>2, <1>4
<1>6. \A stage : stage = "cycles" => (stage # "dependencies" /\ stage # "references")
  OBVIOUS
<1> HIDE DEF m, todo
<1> QED BY <1>1, <1>3, <1>5, <1>6, TopKept

-----------------------------------------------------------------------------
\* The exports of a module, coupling by coupling.

Handing(m) ==
  [i \in 1 .. Len(Couplings(m)) |-> Handed(Couplings(m)[i], SetToSeq(Own(m)))]

HandedAs(m, i) ==
  LET c == Couplings(m)[i]
      h == Handing(m)[i]
      names == SetToSeq(Own(m))
  IN /\ c.kind # "export" => Len(h) = 0
     /\ c.kind = "export" /\ c.all =>
          /\ Len(h) = Len(names)
          /\ \A k \in 1 .. Len(h) : names[k] \in Own(m) /\ h[k] = [name |-> names[k], as |-> names[k]]
          /\ \A x \in Own(m) : \E k \in 1 .. Len(h) : names[k] = x
     /\ c.kind = "export" /\ ~c.all =>
          h = c.items /\ Len(h) = Len(c.items)

LEMMA HandingIs ==
  ASSUME program \in Programs, NEW m \in DOMAIN program, IsFiniteSet(DOMAIN globals[m]),
         NEW i \in 1 .. Len(Couplings(m))
  PROVE  Listed(Handing(m)[i]) /\ HandedAs(m, i) /\ IsCoupling(Couplings(m)[i])
<1> DEFINE c == Couplings(m)[i]
           h == Handing(m)[i]
           names == SetToSeq(Own(m))
<1>1. IsCoupling(c)
  BY FileParts DEF Couplings
<1>2. h = Handed(c, names)
  BY DEF Handing
<1>3. IsFiniteSet(Own(m))
  <2>1. Own(m) \subseteq DOMAIN globals[m]
    BY DEF Own
  <2> QED BY <2>1, FS_Subset
<1>4. /\ Len(names) \in Nat /\ DOMAIN names = 1 .. Len(names)
      /\ \A k \in 1 .. Len(names) : names[k] \in Own(m)
      /\ \A x \in Own(m) : \E k \in 1 .. Len(names) : names[k] = x
  BY <1>3, SetListed
<1> HIDE DEF c, h, names
<1>5. CASE c.kind # "export"
  <2>1. h = <<>>
    BY <1>2, <1>5 DEF Handed
  <2>2. Listed(h) /\ Len(h) = 0
    BY <2>1, ListedEmpty
  <2> QED BY <1>1, <1>5, <2>2 DEF HandedAs, c, h
<1>6. CASE c.kind = "export" /\ c.all
  <2>1. h = [k \in 1 .. Len(names) |-> [name |-> names[k], as |-> names[k]]]
    BY <1>2, <1>4, <1>6 DEF Handed
  <2>2. h = [k \in 1 .. Len(names) |-> h[k]]
    BY <2>1
  <2>3. Listed(h) /\ Len(h) = Len(names)
    BY <1>4, <2>2, MadeListed
  <2>4. \A k \in 1 .. Len(h) : names[k] \in Own(m) /\ h[k] = [name |-> names[k], as |-> names[k]]
    BY <1>4, <2>1, <2>3
  <2>5. \A x \in Own(m) : \E k \in 1 .. Len(h) : names[k] = x
    BY <1>4, <2>3
  <2> QED BY <1>1, <1>6, <2>3, <2>4, <2>5 DEF HandedAs, c, h, names
<1>7. CASE c.kind = "export" /\ ~c.all
  <2>1. h = c.items
    BY <1>2, <1>7 DEF Handed
  <2>2. Listed(h)
    BY <1>1, <2>1 DEF IsCoupling
  <2> QED BY <1>1, <1>7, <2>1, <2>2 DEF HandedAs, c, h
<1> QED BY <1>5, <1>6, <1>7

LEMMA ExportsFlat ==
  ASSUME program \in Programs, NEW m \in DOMAIN program, IsFiniteSet(DOMAIN globals[m])
  PROVE  \E S, row, column :
           /\ Exports(m) \in Seq(S)
           /\ Flattened(Exports(m), Handing(m), Len(Couplings(m)), row, column)
<1> DEFINE n == Len(Couplings(m))
           parts == Handing(m)
           S == UNION {ToSet(parts[i]) : i \in 1 .. n}
<1>1. n \in Nat /\ DOMAIN Couplings(m) = 1 .. n
  BY FileParts DEF Couplings
<1>2. \A i \in 1 .. n : Listed(parts[i])
  BY HandingIs
<1>3. parts = [i \in 1 .. n |-> parts[i]]
  BY DEF Handing
<1>4. Exports(m) = FlattenSeq(parts)
  BY <1>1, ExportsIs DEF ExportsBy, Handing
<1> HIDE DEF parts
<1>5. \A i \in 1 .. n : parts[i] \in Seq(S)
  <2>1. ASSUME NEW i \in 1 .. n PROVE parts[i] \in Seq(S)
    <3>1. parts[i] \in Seq(ToSet(parts[i]))
      BY <1>2 DEF Listed
    <3>2. ToSet(parts[i]) \subseteq S
      OBVIOUS
    <3> QED BY <3>1, <3>2, SeqMonotonic
  <2> QED BY <2>1
<1> HIDE DEF S, n
<1>6. parts \in Seq(Seq(S)) /\ Len(parts) = n
  BY <1>1, <1>3, <1>5, MappedSeq
<1>7. FlattenSeq(parts) \in Seq(S)
      /\ \E row, column : Flattened(FlattenSeq(parts), parts, Len(parts), row, column)
  BY <1>6, FlattenPlaces
<1> QED BY <1>4, <1>6, <1>7 DEF n, parts

LEMMA ExportFaultsKnown ==
  ASSUME NEW m, NEW e \in ExportFaults(m)
  PROVE  e # Ok /\ e # "InvalidDependencyCycle"
BY DEF ExportFaults, Ok

LEMMA ExportTableFinite ==
  ASSUME program \in Programs, NEW m \in DOMAIN program, IsFiniteSet(DOMAIN globals[m])
  PROVE  IsFiniteSet(DOMAIN ExportTable(m))
<1>1. \E S : Exports(m) \in Seq(S)
  BY ExportsFlat
<1>2. Listed(Exports(m))
  BY <1>1, SeqListed
<1>3. DOMAIN ExportTable(m) = {Exports(m)[i].as : i \in DOMAIN Exports(m)}
  BY DEF ExportTable
<1> QED BY <1>2, <1>3, NamesFinite

\* What a step says of the tables when it fills in the exports of m.
LEMMA ExportStep ==
  ASSUME Invariant, phase = "names", program' = program, deps' = deps, globals' = globals,
         NEW m, m = frames[Len(frames)].module, frames[Len(frames)].stage # "dependencies",
         exported' = [exported EXCEPT ![m] = ExportTable(m)], ExportFaults(m) = {}
  PROVE  /\ Made(m)' /\ m \in DOMAIN deps /\ m \notin Left
         /\ \A a \in DOMAIN deps[m] : deps[m][a] \in Left
         /\ \A x \in Left : Made(x)'
         /\ \A x \in DOMAIN deps \ {m} : Untouched(x)' = Untouched(x)
         /\ \A x \in DOMAIN deps : TablesFinite(x)'
<1>f. /\ NamesShape /\ TypeOK /\ program \in Programs
      /\ DOMAIN exported = DOMAIN deps
      /\ Len(frames) \in DOMAIN frames /\ FrameShape(Len(frames)) /\ m \in DOMAIN deps
      /\ \A x \in DOMAIN deps :
           x \in DOMAIN program /\ DepsMade(x) /\ TablesFinite(x) /\ TheirsFinite(x)
  BY NamesFacts
<1>1. m \notin Left
  BY <1>f DEF Left, OnFrames
<1>2. /\ \A a \in DOMAIN deps[m] : deps[m][a] \in Left
      /\ TableMade(m) /\ exported[m] = NoNames
  BY <1>f DEF FrameShape
<1>3. /\ exported'[m] = ExportTable(m) /\ \A x \in DOMAIN deps : x # m => exported'[x] = exported[x]
      /\ DOMAIN exported' = DOMAIN exported
  BY <1>f
<1>4. \A x : Exports(x)' = Exports(x)
  BY SameExports
<1>5. ASSUME NEW x \in DOMAIN deps, \A a \in DOMAIN deps[x] : deps[x][a] \in Left
      PROVE TableMade(x)' = TableMade(x)
  <2>1. \A a \in DOMAIN deps[x] : deps[x][a] # m /\ deps[x][a] \in DOMAIN deps
    BY <1>1, <1>5, <1>f DEF TypeOK
  <2>2. \A a \in DOMAIN deps[x] : exported'[deps[x][a]] = exported[deps[x][a]]
    BY <1>3, <2>1
  <2> QED BY <1>f, <2>2, SameTableMade
<1>6. Made(m)'
  <2>1. TableMade(m)'
    BY <1>2, <1>5, <1>f
  <2>2. FaultsOf(Exports(m), globals[m]) = {}
    BY DEF ExportFaults, FaultsOf
  <2>3. ExportTable(m) = TableOf(Exports(m), globals[m])
    BY DEF ExportTable, TableOf
  <2>4. ExportsMade(m)' <=> /\ FaultsOf(Exports(m)', globals'[m]) = {}
                            /\ exported'[m] = TableOf(Exports(m)', globals'[m])
    BY DEF ExportsMade, ExportFaults, ExportTable, FaultsOf, TableOf
  <2>5. FaultsOf(Exports(m)', globals'[m]) = {} /\ exported'[m] = TableOf(Exports(m)', globals'[m])
    BY <1>3, <1>4, <2>2, <2>3
  <2>6. ExportsMade(m)'
    BY <2>4, <2>5
  <2> QED BY <2>1, <2>6 DEF Made
<1>7. ASSUME NEW x \in Left PROVE Made(x)'
  <2>1. Done(x) /\ x # m /\ x \in DOMAIN deps
    BY <1>1, <1>f DEF NamesShape, Left, TypeOK
  <2>2. TableMade(x)'
    BY <1>5, <2>1 DEF Done
  <2>3. ExportsMade(x)' = ExportsMade(x)
    BY <1>3, <2>1, SameExportsMade
  <2> QED BY <2>1, <2>2, <2>3 DEF Done, Made
<1>8. ASSUME NEW x \in DOMAIN deps PROVE TablesFinite(x)'
  <2>1. CASE x = m
    <3>1. IsFiniteSet(DOMAIN ExportTable(m))
      BY <1>f, ExportTableFinite DEF TablesFinite
    <3> QED BY <1>3, <1>f, <2>1, <3>1 DEF TablesFinite
  <2>2. CASE x # m
    BY <1>3, <1>f, <2>2 DEF TablesFinite
  <2> QED BY <2>1, <2>2
<1>9. \A x \in DOMAIN deps \ {m} : Untouched(x)' = Untouched(x)
  BY <1>3 DEF Untouched
<1> QED BY <1>1, <1>2, <1>6, <1>7, <1>8, <1>9, <1>f

\* resolve returns to a caller.
LEMMA LeaveKeeps ==
  ASSUME Invariant, phase = "names", program' = program, deps' = deps, globals' = globals,
         NEW m, m = frames[Len(frames)].module, frames[Len(frames)].stage # "dependencies",
         exported' = [exported EXCEPT ![m] = ExportTable(m)], ExportFaults(m) = {},
         phase' = phase, error' = error, visited' = visited,
         Len(frames) # 1, frames' = Front(frames)
  PROVE  Invariant'
<1> DEFINE l == Len(frames)
<1>f. /\ Shape /\ NamesShape /\ TypeOK /\ Loaded /\ program \in Programs /\ error = Ok
      /\ l \in Nat /\ l >= 1 /\ l \in 1 .. l
      /\ DOMAIN frames = 1 .. l /\ Listed(frames) /\ frames # <<>>
      /\ \A i \in DOMAIN frames : FrameShape(i) /\ frames[i].module \in DOMAIN deps
      /\ \A i, j \in DOMAIN frames : i # j => frames[i].module # frames[j].module
      /\ m = frames[l].module
      /\ DOMAIN exported = DOMAIN deps
  BY NamesFacts
<1>1. /\ Made(m)' /\ m \in DOMAIN deps /\ m \notin Left
      /\ \A a \in DOMAIN deps[m] : deps[m][a] \in Left
      /\ \A x \in Left : Made(x)'
      /\ \A x \in DOMAIN deps \ {m} : Untouched(x)' = Untouched(x)
      /\ \A x \in DOMAIN deps : TablesFinite(x)'
  BY ExportStep
<1>2. /\ Listed(frames') /\ Len(frames') = l - 1 /\ DOMAIN frames' = 1 .. l - 1 /\ frames' # <<>>
      /\ \A i \in 1 .. l - 1 : frames'[i] = frames[i]
  <2>1. Listed(frames) /\ frames # <<>>
    BY <1>f
  <2> DEFINE q == Front(frames)
  <2>2. /\ Listed(q) /\ Len(q) = Len(frames) - 1 /\ DOMAIN q = 1 .. Len(frames) - 1
        /\ \A i \in 1 .. Len(frames) - 1 : q[i] = frames[i]
        /\ (Len(frames) = 1) = (q = <<>>)
    BY ONLY <2>1, ListedPop
  <2>3. frames' = q
    OBVIOUS
  <2> HIDE DEF q
  <2> QED BY <2>2, <2>3
<1> HIDE DEF l
<1>3. l - 1 \in 1 .. l - 1 /\ \A i \in 1 .. l - 1 : i \in 1 .. l /\ i < l /\ i # l
  <2>1. l # 1
    BY DEF l
  <2> QED BY <1>f, <2>1
<1>4. OnFrames' = OnFrames \ {m}
  <2>1. OnFrames' = {frames'[i].module : i \in 1 .. l - 1}
    BY <1>2 DEF OnFrames
  <2>2. OnFrames = {frames[i].module : i \in 1 .. l}
    BY <1>f DEF OnFrames
  <2>3. \A i \in 1 .. l : i = l \/ i \in 1 .. l - 1
    BY <1>f
  <2>4. \A i \in 1 .. l - 1 : frames'[i].module = frames[i].module /\ frames[i].module # m
    BY <1>2, <1>3, <1>f
  <2>5. \A i \in 1 .. l - 1 : frames'[i].module \in OnFrames \ {m}
    BY <1>3, <2>2, <2>4
  <2>6. \A i \in 1 .. l : frames[i].module # m => frames[i].module \in OnFrames'
    BY <1>f, <2>1, <2>3, <2>4
  <2>7. OnFrames' \subseteq OnFrames \ {m}
    BY <2>1, <2>5
  <2>8. OnFrames \ {m} \subseteq OnFrames'
    BY <2>2, <2>6
  <2> QED BY <2>7, <2>8
<1>5. m \in visited /\ m \in OnFrames
  <2>1. FrameShape(l)
    BY <1>f
  <2> QED BY <1>f, <2>1 DEF FrameShape, OnFrames
<1>6. Left' = Left \cup {m}
  BY <1>4, <1>5 DEF Left
<1>7. Loaded'
  <2>1. \A x : DepsMade(x)' = DepsMade(x)
    BY SameDepsMade
  <2> QED BY <1>f, <2>1 DEF Loaded
<1>8. ASSUME NEW i \in 1 .. l - 1 PROVE FrameShape(i)'
  <2>1. frames'[i] = frames[i] /\ FrameShape(i) /\ i < l
    BY <1>2, <1>3, <1>f
  <2>2. PICK x, todo : frames[i] = [module |-> x, stage |-> "dependencies", todo |-> todo]
                       /\ x = frames[i].module /\ todo = frames[i].todo
    BY <2>1 DEF FrameShape, l
  <2>3. x \in visited /\ \A j \in 1 .. i - 1 : x \in After(program, frames[j].module)
    BY <2>1, <2>2 DEF FrameShape
  <2>4. \A j \in 1 .. i - 1 : j \in 1 .. l - 1
    BY <1>f
  <2>5. \A j \in 1 .. i - 1 : x \in After(program, frames'[j].module)
    BY <1>2, <2>3, <2>4
  <2>6. frames[i].stage = "dependencies"
    BY <2>2
  <2>7. /\ todo \subseteq DOMAIN deps[x] /\ Untouched(x)
        /\ \A a \in DOMAIN deps[x] \ todo : Entered(i, a)
    BY <2>1, <2>2, <2>6 DEF FrameShape
  <2>8. x \in DOMAIN deps \ {m}
    BY <1>3, <1>f, <2>2
  <2>9. Untouched(x)'
    BY <1>1, <2>7, <2>8
  <2>10. ASSUME NEW a \in DOMAIN deps[x] \ todo PROVE Entered(i, a)'
    <3>1. Entered(i, a)
      BY <2>7
    <3>2. CASE deps[x][a] \in Left
      <4>1. deps'[frames'[i].module][a] \in Left'
        BY <1>6, <2>1, <2>2, <3>2
      <4> QED BY <4>1 DEF Entered
    <3>3. CASE i + 1 \in DOMAIN frames /\ frames[i + 1].module = deps[x][a]
      <4>1. CASE i + 1 = l
        <5>1. deps'[frames'[i].module][a] \in Left'
          BY <1>6, <1>f, <2>1, <2>2, <3>3, <4>1
        <5> QED BY <5>1 DEF Entered
      <4>2. CASE i + 1 # l
        <5>1. i + 1 \in 1 .. l - 1
          BY <1>f, <4>2
        <5>2. i + 1 \in DOMAIN frames' /\ frames'[i + 1].module = deps'[frames'[i].module][a]
          BY <1>2, <2>1, <2>2, <3>3, <5>1
        <5> QED BY <5>2 DEF Entered
      <4> QED BY <4>1, <4>2
    <3> QED BY <2>2, <3>1, <3>2, <3>3 DEF Entered
  <2>11. \A stage : stage = "dependencies" => (stage # "references" /\ ~(stage # "dependencies"))
    OBVIOUS
  <2>12. frames'[i] = [module |-> x, stage |-> "dependencies", todo |-> todo] /\ x \in visited'
    BY <2>1, <2>2, <2>3
  <2> QED BY <2>5, <2>7, <2>9, <2>10, <2>11, <2>12, FrameMade
<1>9. \A x \in Left' : Done(x)'
  <2>1. SUFFICES ASSUME NEW x \in Left \cup {m} PROVE Done(x)'
    BY <1>6
  <2>2. Made(x)'
    BY <1>1
  <2>3. \A a \in DOMAIN deps[x] : deps[x][a] \in Left
    <3>1. x \in Left => Done(x)
      BY <1>f DEF NamesShape
    <3> QED BY <1>1, <3>1 DEF Done
  <2> QED BY <1>6, <2>2, <2>3 DEF Done, Made
<1>10. \A x \in DOMAIN deps' \ visited' : Untouched(x)'
  BY <1>1, <1>5, <1>f DEF NamesShape
<1>11. NamesShape'
  BY <1>1, <1>2, <1>7, <1>8, <1>9, <1>10, <1>f DEF NamesShape
<1>12. Shape'
  <2>1. \A i \in DOMAIN frames' : frames'[i].module \in DOMAIN deps
    BY <1>2, <1>3, <1>f
  <2>2. DOMAIN exported' = DOMAIN deps
    BY <1>f
  <2> QED BY <1>f, <2>1, <2>2 DEF Shape, TypeOK
<1> QED BY <1>11, <1>12, <1>f DEF Invariant, Ok

\* The first call of resolve returns.
LEMMA ResolvedKeeps ==
  ASSUME Invariant, phase = "names", program' = program, deps' = deps, globals' = globals,
         NEW m, m = frames[Len(frames)].module, frames[Len(frames)].stage # "dependencies",
         exported' = [exported EXCEPT ![m] = ExportTable(m)], ExportFaults(m) = {},
         phase' = "resolved", error' = error, visited' = {},
         Len(frames) = 1, frames' = Front(frames)
  PROVE  Invariant'
<1>f. /\ Shape /\ NamesShape /\ TypeOK /\ Loaded /\ program \in Programs /\ error = Ok
      /\ DOMAIN frames = 1 .. Len(frames) /\ Listed(frames) /\ frames # <<>>
      /\ DOMAIN exported = DOMAIN deps
  BY NamesFacts
<1>1. /\ Made(m)' /\ m \in DOMAIN deps /\ m \notin Left
      /\ \A a \in DOMAIN deps[m] : deps[m][a] \in Left
      /\ \A x \in Left : Made(x)'
      /\ \A x \in DOMAIN deps \ {m} : Untouched(x)' = Untouched(x)
      /\ \A x \in DOMAIN deps : TablesFinite(x)'
  BY ExportStep
<1>2. Front(frames) = <<>>
  BY <1>f, ListedPop
<1>3. OnFrames = {m}
  BY <1>f DEF OnFrames
<1>4. \A x \in DOMAIN deps : x \in Left \/ x = m \/ x \notin visited
  BY <1>3 DEF Left
<1>5. Loaded'
  <2>1. \A x : DepsMade(x)' = DepsMade(x)
    BY SameDepsMade
  <2> QED BY <1>f, <2>1 DEF Loaded
<1>6. ASSUME NEW x \in DOMAIN deps
      PROVE Untouched(x)' \/ (Made(x)' /\ \A a \in DOMAIN deps[x] : Made(deps[x][a])')
  <2>1. CASE x \in Left \/ x = m
    <3>1. Made(x)'
      BY <1>1, <2>1
    <3>2. \A a \in DOMAIN deps[x] : deps[x][a] \in Left
      <4>1. x \in Left => Done(x)
        BY <1>f DEF NamesShape
      <4> QED BY <1>1, <2>1, <4>1 DEF Done
    <3>3. \A y \in Left : Made(y)'
      BY <1>1
    <3>4. ASSUME NEW a \in DOMAIN deps[x] PROVE Made(deps[x][a])'
      <4>1. PICK y \in Left : y = deps[x][a]
        BY <3>2
      <4>2. Made(y)' /\ deps'[x][a] = y
        BY <3>3, <4>1
      <4> QED BY <4>2
    <3> QED BY <3>1, <3>4
  <2>2. CASE x \notin visited /\ x # m
    BY <1>1, <1>f, <2>2 DEF NamesShape
  <2> QED BY <1>4, <2>1, <2>2
<1>7. Resolved'
  <2>1. ASSUME NEW x \in DOMAIN deps'
        PROVE  Untouched(x)' \/ (Made(x)' /\ \A a \in DOMAIN deps'[x] : Made(deps[x][a])')
    BY <1>6
  <2> QED BY <1>1, <1>5, <1>f, <2>1 DEF Resolved, NamesShape
<1>8. Shape'
  <2>1. DOMAIN frames' = {}
    BY <1>2
  <2>2. DOMAIN exported' = DOMAIN deps
    BY <1>f
  <2> QED BY <1>f, <2>1, <2>2 DEF Shape, TypeOK, Ok
<1> QED BY <1>7, <1>8, <1>f DEF Invariant, Ok

LEMMA CheckExportsKeeps ==
  ASSUME Invariant, CheckExports
  PROVE  Invariant'
<1> DEFINE m == Top(frames).module
<1>1. /\ phase = "names" /\ Top(frames).stage = "cycles"
      /\ program' = program /\ deps' = deps /\ globals' = globals
  BY DEF CheckExports
<1>2. \/ /\ \E e \in ExportFaults(m) : Fail(e)
         /\ frames' = frames /\ exported' = exported /\ visited' = visited
      \/ /\ ExportFaults(m) = {}
         /\ exported' = [exported EXCEPT ![m] = ExportTable(m)]
         /\ frames' = Front(frames)
         /\ error' = error
         /\ IF Len(frames) = 1
            THEN phase' = "resolved" /\ visited' = {}
            ELSE phase' = phase /\ visited' = visited
  BY DEF CheckExports
<1>3. m = frames[Len(frames)].module /\ frames[Len(frames)].stage # "dependencies"
  BY <1>1, NamesFacts
<1> HIDE DEF m
<1>4. CASE /\ \E e \in ExportFaults(m) : Fail(e)
           /\ frames' = frames /\ exported' = exported /\ visited' = visited
  <2>1. PICK e \in ExportFaults(m) : Fail(e)
    BY <1>4
  <2>2. e # Ok /\ e # "InvalidDependencyCycle"
    BY ExportFaultsKnown
  <2> QED BY <1>1, <1>4, <2>1, <2>2, FailKeeps
<1>5. CASE /\ ExportFaults(m) = {}
           /\ exported' = [exported EXCEPT ![m] = ExportTable(m)]
           /\ frames' = Front(frames)
           /\ error' = error
           /\ IF Len(frames) = 1
              THEN phase' = "resolved" /\ visited' = {}
              ELSE phase' = phase /\ visited' = visited
  <2>1. CASE Len(frames) = 1
    BY <1>1, <1>3, <1>5, <2>1, ResolvedKeeps
  <2>2. CASE Len(frames) # 1
    BY <1>1, <1>3, <1>5, <2>2, LeaveKeeps
  <2> QED BY <2>1, <2>2
<1> QED BY <1>2, <1>4, <1>5

\* Steps of the symbol walk.
LEMMA WalkKeeps ==
  ASSUME Invariant, phase = "names", program' = program, phase' = phase, error' = error,
         frames' = frames, deps' = deps, globals' = globals, exported' = exported,
         visited' = visited
  PROVE  Invariant'
<1> DEFINE l == Len(frames)
<1>f. /\ NamesShape /\ l \in Nat /\ l >= 1 /\ l \in 1 .. l /\ DOMAIN frames = 1 .. l
      /\ Listed(frames) /\ FrameShape(l) /\ frames # <<>>
  BY NamesFacts
<1>1. PICK m, stage, todo : /\ frames[l] = [module |-> m, stage |-> stage, todo |-> todo]
                            /\ m = frames[l].module /\ stage = frames[l].stage /\ todo = frames[l].todo
  BY <1>f DEF FrameShape
<1>2. frames = Advanced(frames, [module |-> m, stage |-> stage, todo |-> todo])
  <2>1. frames \in Seq(ToSet(frames))
    BY <1>f, ListedSeq
  <2>2. frames = [frames EXCEPT ![l] = frames[l]]
    BY <2>1, <1>f
  <2> QED BY <1>1, <2>2 DEF Advanced
<1>3. stage = "dependencies" =>
        /\ todo \subseteq DOMAIN deps[m]
        /\ \A a \in DOMAIN deps[m] \ todo : deps[m][a] \in Left
  BY <1>1, TopSeen
<1>4. stage = "references" => todo \subseteq DOMAIN globals[m]
  BY <1>1, <1>f DEF FrameShape
<1> QED BY <1>1, <1>2, <1>3, <1>4, TopKept

LEMMA CheckSymbolCycleKeeps ==
  ASSUME Invariant, CheckSymbolCycle
  PROVE  Invariant'
<1>1. /\ phase = "names" /\ program' = program /\ frames' = frames /\ deps' = deps
      /\ globals' = globals /\ exported' = exported /\ visited' = visited
      /\ \/ Fail("InvalidSymbolCycle")
         \/ phase' = phase /\ error' = error
  BY DEF CheckSymbolCycle
<1>2. CASE Fail("InvalidSymbolCycle")
  <2>1. \A e : e = "InvalidSymbolCycle" => e # Ok /\ e # "InvalidDependencyCycle"
    BY DEF Ok
  <2> QED BY <1>1, <1>2, <2>1, FailKeeps
<1>3. CASE phase' = phase /\ error' = error
  BY <1>1, <1>3, WalkKeeps
<1> QED BY <1>1, <1>2, <1>3

LEMMA SymbolCheckedKeeps ==
  ASSUME Invariant, SymbolChecked
  PROVE  Invariant'
BY WalkKeeps DEF SymbolChecked

-----------------------------------------------------------------------------
\* Nothing changes.

LEMMA StutterKeeps ==
  ASSUME Invariant, UNCHANGED vars
  PROVE  Invariant'
<1>1. /\ program' = program /\ phase' = phase /\ error' = error /\ frames' = frames
      /\ walk' = walk /\ deps' = deps /\ globals' = globals /\ exported' = exported
      /\ refs' = refs /\ visited' = visited
  BY DEF vars
<1>2. Shape' = Shape
  BY <1>1 DEF Shape, TypeOK
<1>3. OnFrames' = OnFrames /\ Left' = Left
  BY <1>1 DEF OnFrames, Left
<1>4. \A x : /\ DepsMade(x)' = DepsMade(x) /\ TableMade(x)' = TableMade(x)
             /\ ExportsMade(x)' = ExportsMade(x) /\ Untouched(x)' = Untouched(x)
             /\ TablesFinite(x)' = TablesFinite(x)
  BY <1>1, QuietTables
<1>5. Loaded' = Loaded
  BY <1>1, <1>4 DEF Loaded
<1>6. \A m, n : DepsAre(m, n) => DepsAre(m, n)'
  BY <1>1, DepsKept
<1>7. LoadShape => LoadShape'
  <2>1. SUFFICES ASSUME LoadShape PROVE LoadShape'
    OBVIOUS
  <2>2. /\ Listed(frames) /\ walk = <<>> /\ visited = {} /\ refs = NoNames
        /\ IF frames = <<>> THEN DOMAIN deps = {}
           ELSE frames[1].module = Root /\ DOMAIN deps \subseteq {Root} \cup After(program, Root)
        /\ \A i, j \in DOMAIN frames : i # j => frames[i].module # frames[j].module
        /\ \A m \in DOMAIN deps : Untouched(m)
    BY <2>1 DEF LoadShape
  <2>3. \A i \in DOMAIN frames : DepsAre(frames[i].module, frames[i].next)
    BY <2>1 DEF LoadShape
  <2>4. \A m \in DOMAIN deps \ OnFrames : DepsMade(m)
    BY <2>1 DEF LoadShape
  <2>5. \A i \in DOMAIN frames' : DepsAre(frames[i].module, frames[i].next)'
    BY <1>1, <1>6, <2>3
  <2>6. \A m \in DOMAIN deps' \ OnFrames' : DepsMade(m)'
    BY <1>1, <1>3, <1>4, <2>4
  <2>7. \A m \in DOMAIN deps' : Untouched(m)'
    BY <1>1, <1>4, <2>2
  <2> QED BY <1>1, <2>2, <2>5, <2>6, <2>7 DEF LoadShape
<1>8. CyclesShape => CyclesShape'
  <2>1. SUFFICES ASSUME CyclesShape PROVE CyclesShape'
    OBVIOUS
  <2>2. \A k, a : Checked(k, a)' = Checked(k, a)
    BY <1>1 DEF Checked
  <2> QED BY <1>1, <1>4, <1>5, <2>1, <2>2 DEF CyclesShape
<1>9. Resolved => Resolved'
  BY <1>1, <1>4, <1>5 DEF Resolved, Made
<1>10. ASSUME phase = "names" PROVE Invariant'
  BY <1>1, <1>10, WalkKeeps
<1>11. CASE phase = "names"
  BY <1>10, <1>11
<1>12. CASE phase # "names"
  <2>1. /\ Shape /\ (phase = "load" => LoadShape) /\ (phase = "cycles" => CyclesShape)
        /\ (phase = "resolved" => Resolved)
        /\ (error = "InvalidDependencyCycle" => CycleFound)
    BY DEF Invariant
  <2>2. /\ Shape' /\ (phase' = "load" => LoadShape') /\ (phase' = "cycles" => CyclesShape')
        /\ (phase' = "resolved" => Resolved') /\ phase' # "names"
        /\ (error' = "InvalidDependencyCycle" => CycleFound')
    BY <1>1, <1>2, <1>7, <1>8, <1>9, <1>12, <2>1 DEF CycleFound
  <2> QED BY <2>2 DEF Invariant
<1> QED BY <1>11, <1>12

LEMMA InitHolds == Init => Invariant
<1> SUFFICES ASSUME Init PROVE Invariant
  OBVIOUS
<1>1. /\ program \in Programs /\ phase = "load" /\ error = Ok /\ frames = <<>> /\ walk = <<>>
      /\ deps = NoNames /\ globals = NoNames /\ exported = NoNames /\ refs = NoNames /\ visited = {}
  BY DEF Init
<1>2. DOMAIN NoNames = {} /\ DOMAIN frames = {}
  BY <1>1 DEF NoNames
<1>3. Shape
  BY <1>1, <1>2 DEF Shape, TypeOK
<1>4. LoadShape
  BY <1>1, <1>2, ListedEmpty DEF LoadShape
<1> QED BY <1>1, <1>3, <1>4 DEF Invariant, Ok

LEMMA NextKeeps == Invariant /\ [Next]_vars => Invariant'
<1> SUFFICES ASSUME Invariant, [Next]_vars PROVE Invariant'
  OBVIOUS
<1>1. CASE ResolveRoot
  BY <1>1, ResolveRootKeeps
<1>2. CASE ResolveDependency
  BY <1>2, ResolveDependencyKeeps
<1>3. CASE ModuleLoaded
  BY <1>3, ModuleLoadedKeeps
<1>4. CASE CheckDepCycle
  BY <1>4, CheckDepCycleKeeps
<1>5. CASE DependencyChecked
  BY <1>5, DependencyCheckedKeeps
<1>6. CASE ResolveDep
  BY <1>6, ResolveDepKeeps
<1>7. CASE CreateSymbols
  BY <1>7, CreateSymbolsKeeps
<1>8. CASE LinkSymbol
  BY <1>8, LinkSymbolKeeps
<1>9. CASE CheckGlobals
  BY <1>9, CheckGlobalsKeeps
<1>10. CASE StartSymbolCheck
  BY <1>10, StartSymbolCheckKeeps
<1>11. CASE CheckSymbolCycle
  BY <1>11, CheckSymbolCycleKeeps
<1>12. CASE SymbolChecked
  BY <1>12, SymbolCheckedKeeps
<1>13. CASE CheckExports
  BY <1>13, CheckExportsKeeps
<1>14. CASE Ended \/ UNCHANGED vars
  BY <1>14, StutterKeeps DEF Ended
<1> QED BY <1>1, <1>2, <1>3, <1>4, <1>5, <1>6, <1>7, <1>8, <1>9, <1>10, <1>11, <1>12, <1>13,
           <1>14 DEF Next

LEMMA InvariantHolds == Spec => []Invariant
BY InitHolds, NextKeeps, PTL DEF Spec

-----------------------------------------------------------------------------
\* What the invariant says of the properties.

LEMMA LoadedTables ==
  ASSUME Shape, Loaded
  PROVE  /\ DOMAIN deps = R!Reached(program, Root)
         /\ \A m \in DOMAIN deps :
              {deps[m][a] : a \in DOMAIN deps[m]} = R!Wanted(program, m)
<1>1. program \in Programs /\ DOMAIN deps \subseteq DOMAIN program
  BY DEF Shape
<1>2. DOMAIN deps = {Root} \cup After(program, Root) /\ \A m \in DOMAIN deps : DepsMade(m)
  BY DEF Loaded
<1>3. Root \in DOMAIN program
  BY <1>1, <1>2
<1>4. R!Reached(program, Root) = {Root} \cup After(program, Root)
  BY <1>1, <1>3, FinitePrograms, ReachedIs
<1> QED BY <1>1, <1>2, <1>4, DepsWanted

LEMMA PhaseLoaded ==
  ASSUME Invariant, phase \in {"cycles", "names", "resolved"}
  PROVE  Shape /\ Loaded
BY DEF Invariant, CyclesShape, NamesShape, Resolved

LEMMA InvariantTables == Invariant => TablesHold
<1> SUFFICES ASSUME Invariant PROVE TablesHold
  OBVIOUS
<1>1. Shape /\ TypeOK
  BY DEF Invariant, Shape
<1>2. Loading
  <2>1. ASSUME phase = "load"
        PROVE  /\ \A i, j \in DOMAIN frames : i # j => frames[i].module # frames[j].module
               /\ \A m \in DOMAIN deps \ OnFrames :
                    {deps[m][a] : a \in DOMAIN deps[m]} = R!Wanted(program, m)
    <3>1. LoadShape
      BY <2>1 DEF Invariant
    <3>2. \A m \in DOMAIN deps \ OnFrames : DepsMade(m) /\ m \in DOMAIN program
      BY <1>1, <3>1 DEF LoadShape, Shape
    <3> QED BY <1>1, <3>1, <3>2, DepsWanted DEF LoadShape, Shape
  <2>2. ASSUME phase \in {"cycles", "names", "resolved"}
        PROVE  /\ DOMAIN deps = R!Reached(program, Root)
               /\ \A m \in DOMAIN deps :
                    {deps[m][a] : a \in DOMAIN deps[m]} = R!Wanted(program, m)
    BY <2>2, PhaseLoaded, LoadedTables
  <2> QED BY <2>1, <2>2 DEF Loading
<1>3. ExportsFirst
  <2>1. SUFFICES ASSUME NEW i \in DOMAIN frames, phase = "names", frames[i].stage # "dependencies",
                        NEW a \in DOMAIN deps[frames[i].module]
                 PROVE  deps[frames[i].module][a] \in visited \ OnFrames
    BY DEF ExportsFirst
  <2>2. FrameShape(i)
    BY <2>1, NamesFacts
  <2> QED BY <2>1, <2>2 DEF FrameShape, Left
<1> QED BY <1>1, <1>2, <1>3 DEF TablesHold

LEMMA InvariantCycles == Invariant => CyclesCaught
<1> SUFFICES ASSUME Invariant PROVE CyclesCaught
  OBVIOUS
<1>1. Shape /\ program \in Programs
  BY DEF Invariant, Shape
<1>2. ASSUME Root \in DOMAIN program PROVE R!Cyclic(program, Root) <=> ~Acyclic(program, Root)
  BY <1>1, <1>2, FinitePrograms, CyclicIs
<1>3. ASSUME phase \in {"names", "resolved"} PROVE ~R!Cyclic(program, Root)
  <2>1. Loaded /\ Acyclic(program, Root)
    BY <1>3 DEF Invariant, NamesShape, Resolved
  <2>2. Root \in DOMAIN program
    BY <1>1, <2>1 DEF Loaded, Shape
  <2> QED BY <1>2, <2>1, <2>2
<1>4. ASSUME error = "InvalidDependencyCycle" PROVE R!Cyclic(program, Root)
  <2>1. Root \in DOMAIN program /\ ~Acyclic(program, Root)
    BY <1>4 DEF Invariant, CycleFound
  <2> QED BY <1>2, <2>1
<1> QED BY <1>3, <1>4 DEF CyclesCaught

-----------------------------------------------------------------------------
\* What the names of a module stand for.

LEMMA ElementsAre ==
  ASSUME NEW s, Listed(s)
  PROVE  /\ R!ToSet(s) = {s[i] : i \in 1 .. Len(s)}
         /\ \A i \in 1 .. Len(s) : s[i] \in R!ToSet(s)
         /\ \A x \in R!ToSet(s) : \E i \in 1 .. Len(s) : x = s[i]
<1>1. R!ToSet(s) = {s[i] : i \in DOMAIN s}
  BY SameToSet DEF ToSet
<1>2. DOMAIN s = 1 .. Len(s)
  BY ListedSeq
<1> QED BY <1>1, <1>2

\* The couplings of one kind, by their places.
LEMMA ItemsAre ==
  ASSUME program \in Programs, NEW m \in DOMAIN program, NEW kind
  PROVE  /\ \A c \in R!Items(program, m, kind) :
              \E i \in 1 .. Len(Couplings(m)) : c = Couplings(m)[i] /\ c.kind = kind
         /\ \A i \in 1 .. Len(Couplings(m)) :
              Couplings(m)[i].kind = kind => Couplings(m)[i] \in R!Items(program, m, kind)
<1>1. Listed(Couplings(m))
  BY FileParts DEF Couplings
<1> DEFINE s == Couplings(m)
<1>2. /\ \A i \in 1 .. Len(s) : s[i] \in R!ToSet(s)
      /\ \A x \in R!ToSet(s) : \E i \in 1 .. Len(s) : x = s[i]
  BY <1>1, ElementsAre
<1>3. R!Items(program, m, kind) = {c \in R!ToSet(s) : c.kind = kind}
  BY DEF R!Items, Couplings
<1> HIDE DEF s
<1> QED BY <1>2, <1>3 DEF s

LEMMA AliasesAre ==
  ASSUME program \in Programs, NEW m \in DOMAIN program
  PROVE  /\ \A a \in R!Aliases(program, m) :
              \E i \in 1 .. Len(Couplings(m)) :
                LET c == Couplings(m)[i]
                IN c.kind = "import" /\ ~c.all /\ \E k \in 1 .. Len(c.items) : a = c.items[k]
         /\ \A i \in 1 .. Len(Couplings(m)) :
              LET c == Couplings(m)[i]
              IN c.kind = "import" /\ ~c.all =>
                   \A k \in 1 .. Len(c.items) : c.items[k] \in R!Aliases(program, m)
<1> DEFINE I == R!Items(program, m, "import")
           A == R!Aliases(program, m)
<1>1. A = UNION {R!ToSet(c.items) : c \in {d \in I : ~d.all}}
  BY DEF R!Aliases
<1>2. /\ \A c \in I : \E i \in 1 .. Len(Couplings(m)) : c = Couplings(m)[i] /\ c.kind = "import"
      /\ \A i \in 1 .. Len(Couplings(m)) :
              Couplings(m)[i].kind = "import" => Couplings(m)[i] \in I
  BY ItemsAre
<1>3. \A i \in 1 .. Len(Couplings(m)) : IsCoupling(Couplings(m)[i])
  BY FileParts DEF Couplings
<1> HIDE DEF I, A
<1>4. ASSUME NEW a \in A
      PROVE \E i \in 1 .. Len(Couplings(m)) :
              LET c == Couplings(m)[i]
              IN c.kind = "import" /\ ~c.all /\ \E k \in 1 .. Len(c.items) : a = c.items[k]
  <2>1. PICK c \in I : ~c.all /\ a \in R!ToSet(c.items)
    BY <1>1
  <2>2. PICK i \in 1 .. Len(Couplings(m)) : c = Couplings(m)[i] /\ c.kind = "import"
    BY <1>2
  <2>3. Listed(c.items)
    BY <1>3, <2>2 DEF IsCoupling
  <2>4. \E k \in 1 .. Len(c.items) : a = c.items[k]
    BY <2>1, <2>3, ElementsAre
  <2> QED BY <2>1, <2>2, <2>4
<1>5. ASSUME NEW i \in 1 .. Len(Couplings(m)), Couplings(m)[i].kind = "import", ~Couplings(m)[i].all,
             NEW k \in 1 .. Len(Couplings(m)[i].items)
      PROVE Couplings(m)[i].items[k] \in A
  <2> DEFINE c == Couplings(m)[i]
  <2>1. c \in I /\ ~c.all
    BY <1>2, <1>5
  <2>2. Listed(c.items)
    BY <1>3 DEF IsCoupling
  <2>3. c.items[k] \in R!ToSet(c.items)
    BY <2>2, ElementsAre
  <2> HIDE DEF c
  <2>4. c.items[k] \in A
    BY <1>1, <2>1, <2>3
  <2> QED BY <2>4 DEF c
<1> QED BY <1>4, <1>5 DEF A

LEMMA DeclaredAre ==
  ASSUME program \in Programs, NEW m \in DOMAIN program
  PROVE  /\ \A x \in R!Declared(program, m) :
              \E j \in 1 .. Len(program[m].symbols) : x = program[m].symbols[j].name
         /\ \A j \in 1 .. Len(program[m].symbols) :
              program[m].symbols[j].name \in R!Declared(program, m)
<1> DEFINE ds == program[m].symbols
<1>1. Listed(ds)
  BY ProgramsParsed DEF IsFile
<1>2. R!Declared(program, m) = {d.name : d \in R!ToSet(ds)}
  BY DEF R!Declared
<1>3. /\ \A i \in 1 .. Len(ds) : ds[i] \in R!ToSet(ds)
      /\ \A x \in R!ToSet(ds) : \E i \in 1 .. Len(ds) : x = ds[i]
  BY <1>1, ElementsAre
<1> HIDE DEF ds
<1> QED BY <1>2, <1>3 DEF ds

\* A table has what the couplings and the declarations bring.
LEMMA EntryIs ==
  ASSUME program \in Programs, NEW m \in DOMAIN program, DepsMade(m), TheirsFinite(m),
         TableMade(m), NEW x, NEW sy,
         IsAlias(m, x, sy) \/ IsTaken(m, x, sy) \/ IsPicked(m, x, sy) \/ IsDeclared(m, x, sy)
  PROVE  x \in DOMAIN globals[m] /\ globals[m][x] = sy
<1> DEFINE n == Len(Couplings(m))
           parts == Parts(m)
<1>1. \A i \in 1 .. n + 1 : \A k \in 1 .. Len(parts[i]) :
         parts[i][k].as \in DOMAIN globals[m] /\ globals[m][parts[i][k].as] = parts[i][k].sy
  <2>1. SUFFICES ASSUME NEW i \in 1 .. n + 1, NEW k \in 1 .. Len(parts[i])
                 PROVE  /\ parts[i][k].as \in DOMAIN globals[m]
                        /\ globals[m][parts[i][k].as] = parts[i][k].sy
    OBVIOUS
  <2>2. Entries(m)
    BY TableEntries
  <2> QED BY <2>1, <2>2 DEF Entries
<1>2. n \in Nat
  BY FileParts DEF Couplings
<1>3. \A i \in 1 .. n : i \in 1 .. n + 1 /\ i # n + 1
  BY <1>2
<1>4. \A i \in 1 .. n : parts[i] = BoundBy(m, i)
  BY <1>3 DEF Parts
<1>5. ASSUME NEW i \in 1 .. n, NEW k \in 1 .. Len(BoundBy(m, i)), BoundBy(m, i)[k] = Binding(x, sy)
      PROVE x \in DOMAIN globals[m] /\ globals[m][x] = sy
  <2>1. /\ i \in 1 .. n + 1 /\ k \in 1 .. Len(parts[i]) /\ parts[i][k].as = x /\ parts[i][k].sy = sy
    BY <1>3, <1>4, <1>5 DEF Binding
  <2> HIDE DEF parts, n
  <2> QED BY <1>1, <2>1
<1> HIDE DEF parts, n
<1>6. CASE IsAlias(m, x, sy)
  <2>1. PICK i \in 1 .. n : LET c == Couplings(m)[i]
            IN /\ c.kind = "import" /\ ~c.all
               /\ \E k \in 1 .. Len(c.items) : x = c.items[k].as /\ sy = ModuleSymbol(m, c, k)
    BY <1>6 DEF IsAlias, n
  <2> DEFINE c == Couplings(m)[i]
             b == BoundBy(m, i)
  <2>2. PICK k \in 1 .. Len(c.items) : x = c.items[k].as /\ sy = ModuleSymbol(m, c, k)
    BY <2>1
  <2>3. BoundAs(m, i)
    BY BoundByIs DEF n
  <2>4. k \in 1 .. Len(b) /\ b[k] = Binding(x, sy)
    BY <2>1, <2>2, <2>3 DEF BoundAs
  <2> QED BY <1>5, <2>4
<1>7. CASE IsTaken(m, x, sy)
  <2>1. PICK i \in 1 .. n : LET c == Couplings(m)[i]
                                theirs == exported[c.module]
            IN /\ c.kind = "from" /\ c.all
               /\ x \in DOMAIN theirs /\ sy = External(theirs[x], x)
    BY <1>7 DEF IsTaken, n
  <2> DEFINE c == Couplings(m)[i]
             b == BoundBy(m, i)
             theirs == exported[c.module]
             names == SetToSeq(DOMAIN theirs)
  <2>2. BoundAs(m, i)
    BY BoundByIs DEF n
  <2>3. /\ \A k \in 1 .. Len(b) : b[k] = Binding(names[k], External(theirs[names[k]], names[k]))
        /\ \A z \in DOMAIN theirs : \E k \in 1 .. Len(b) : names[k] = z
    BY <2>1, <2>2 DEF BoundAs
  <2>4. x \in DOMAIN theirs /\ sy = External(theirs[x], x)
    BY <2>1
  <2> HIDE DEF names, theirs
  <2>5. PICK k \in 1 .. Len(b) : names[k] = x
    BY <2>3, <2>4
  <2>6. b[k] = Binding(x, sy)
    BY <2>3, <2>4, <2>5
  <2> QED BY <1>5, <2>6
<1>8. CASE IsPicked(m, x, sy)
  <2>1. PICK i \in 1 .. n : LET c == Couplings(m)[i]
                                theirs == exported[c.module]
            IN /\ c.kind = "from" /\ ~c.all
               /\ \E k \in 1 .. Len(c.items) :
                    /\ x = c.items[k].as /\ c.items[k].name \in DOMAIN theirs
                    /\ sy = External(theirs[c.items[k].name], theirs[c.items[k].name].name)
    BY <1>8 DEF IsPicked, n
  <2> DEFINE c == Couplings(m)[i]
             b == BoundBy(m, i)
             theirs == exported[c.module]
  <2>2. PICK k \in 1 .. Len(c.items) :
            /\ x = c.items[k].as /\ c.items[k].name \in DOMAIN theirs
            /\ sy = External(theirs[c.items[k].name], theirs[c.items[k].name].name)
    BY <2>1
  <2>3. BoundAs(m, i)
    BY BoundByIs DEF n
  <2>4. k \in 1 .. Len(b) /\ b[k] = Binding(x, sy)
    BY <2>1, <2>2, <2>3 DEF BoundAs
  <2> QED BY <1>5, <2>4
<1>9. CASE IsDeclared(m, x, sy)
  <2> DEFINE ds == program[m].symbols
             s == DeclareSymbols(m)
  <2>1. PICK j \in 1 .. Len(ds) : LET d == ds[j]
          IN d.fault = Ok /\ x = d.name /\ sy = Global(d.kind, m, d.name, FALSE, <<m, d.name>>)
    BY <1>9 DEF IsDeclared
  <2>2. /\ Len(s) = Len(ds)
        /\ s[j] = IF ds[j].fault # Ok THEN Unbound(ds[j].name, ds[j].fault)
                  ELSE Binding(ds[j].name, Global(ds[j].kind, m, ds[j].name, FALSE, <<m, ds[j].name>>))
    BY DeclareSymbolsIs
  <2>3. n + 1 \in 1 .. n + 1
    BY <1>2
  <2>4. parts[n + 1] = s
    BY <2>3 DEF Parts, parts, n
  <2> HIDE DEF s
  <2>5. s[j] = Binding(x, sy)
    BY <2>1, <2>2
  <2>6. j \in 1 .. Len(parts[n + 1]) /\ parts[n + 1][j].as = x /\ parts[n + 1][j].sy = sy
    <3>1. j \in 1 .. Len(s) /\ s[j].as = x /\ s[j].sy = sy
      BY <2>1, <2>2, <2>5 DEF Binding
    <3> QED BY <2>4, <3>1
  <2> QED BY <1>1, <2>3, <2>6
<1> QED BY <1>6, <1>7, <1>8, <1>9

\* No declaration of a module with a table is wrong.
LEMMA SymbolsSound ==
  ASSUME program \in Programs, NEW m \in DOMAIN program, DepsMade(m), TheirsFinite(m),
         TableMade(m), NEW j \in 1 .. Len(program[m].symbols)
  PROVE  program[m].symbols[j].fault = Ok
<1> DEFINE n == Len(Couplings(m))
           parts == Parts(m)
           ds == program[m].symbols
           s == DeclareSymbols(m)
<1>1. \A i \in 1 .. n + 1 : \A k \in 1 .. Len(parts[i]) : parts[i][k].fault = Ok
  <2>1. SUFFICES ASSUME NEW i \in 1 .. n + 1, NEW k \in 1 .. Len(parts[i])
                 PROVE  parts[i][k].fault = Ok
    OBVIOUS
  <2>2. Entries(m)
    BY TableEntries
  <2> QED BY <2>1, <2>2 DEF Entries
<1>2. n + 1 \in 1 .. n + 1
  <2>1. n \in Nat
    BY FileParts DEF Couplings
  <2> QED BY <2>1
<1>3. parts[n + 1] = s
  BY <1>2 DEF Parts
<1>4. /\ Len(s) = Len(ds)
      /\ s[j] = IF ds[j].fault # Ok THEN Unbound(ds[j].name, ds[j].fault)
                ELSE Binding(ds[j].name, Global(ds[j].kind, m, ds[j].name, FALSE, <<m, ds[j].name>>))
  BY DeclareSymbolsIs
<1> HIDE DEF n, parts, s
<1>5. s[j].fault = Ok
  <2>1. \A k \in 1 .. Len(parts[n + 1]) : parts[n + 1][k].fault = Ok
    BY <1>1, <1>2
  <2>2. \A k \in 1 .. Len(s) : s[k].fault = Ok
    BY <1>3, <2>1
  <2>3. j \in 1 .. Len(s)
    BY <1>4
  <2> QED BY <2>2, <2>3
<1>6. SUFFICES ASSUME ds[j].fault # Ok PROVE FALSE
  OBVIOUS
<1>7. s[j] = Unbound(ds[j].name, ds[j].fault)
  BY <1>4, <1>6
<1>8. s[j].fault = ds[j].fault
  BY <1>7 DEF Unbound
<1> QED BY <1>5, <1>6, <1>8

\* A module's own names: the declarations and the modules it has imported.
OwnMeans(m) ==
  /\ Own(m) = R!Inner(program, m)
  /\ \A x \in Own(m) :
       /\ globals[m][x].decl = <<m, x>> /\ globals[m][x].module = m
       /\ \A a \in FirstName(program, m, x) : globals[m][x].name = a

LEMMA OwnSymbol ==
  ASSUME NEW m, NEW x, NEW sy, IsAlias(m, x, sy) \/ IsDeclared(m, x, sy)
  PROVE  ~sy.external /\ sy.decl = <<m, x>> /\ sy.module = m
<1>1. CASE IsAlias(m, x, sy)
  BY <1>1 DEF IsAlias, ModuleSymbol, Global
<1>2. CASE IsDeclared(m, x, sy)
  BY <1>2 DEF IsDeclared, Global
<1> QED BY <1>1, <1>2

LEMMA ForeignSymbol ==
  ASSUME NEW m, NEW x, NEW sy, IsTaken(m, x, sy) \/ IsPicked(m, x, sy)
  PROVE  sy.external
<1>1. IsTaken(m, x, sy) => sy.external
  BY DEF IsTaken, External, Global
<1>2. IsPicked(m, x, sy) => sy.external
  <2>1. \A their, name : External(their, name).external
    BY DEF External, Global
  <2>2. IsPicked(m, x, sy) => \E their, name : sy = External(their, name)
    BY DEF IsPicked
  <2> QED BY <2>1, <2>2
<1> QED BY <1>1, <1>2

LEMMA DeclaredSymbol ==
  ASSUME program \in Programs, NEW m \in DOMAIN program, DepsMade(m), TheirsFinite(m),
         TableMade(m), NEW x \in R!Declared(program, m)
  PROVE  \E sy : IsDeclared(m, x, sy) /\ sy.name = x
<1>1. PICK j \in 1 .. Len(program[m].symbols) : x = program[m].symbols[j].name
  BY DeclaredAre
<1> DEFINE d == program[m].symbols[j]
           sy == Global(d.kind, m, d.name, FALSE, <<m, d.name>>)
<1>2. d.fault = Ok
  BY SymbolsSound
<1>3. IsDeclared(m, x, sy)
  BY <1>1, <1>2 DEF IsDeclared
<1>4. sy.name = x
  BY <1>1 DEF Global
<1> QED BY <1>3, <1>4

LEMMA AliasSymbol ==
  ASSUME program \in Programs, NEW m \in DOMAIN program, NEW a \in R!Aliases(program, m)
  PROVE  \E sy : IsAlias(m, a.as, sy) /\ sy.name = a.name
<1>1. PICK i \in 1 .. Len(Couplings(m)) :
        LET c == Couplings(m)[i]
        IN c.kind = "import" /\ ~c.all /\ \E k \in 1 .. Len(c.items) : a = c.items[k]
  BY AliasesAre
<1> DEFINE c == Couplings(m)[i]
<1>2. PICK k \in 1 .. Len(c.items) : a = c.items[k]
  BY <1>1
<1> DEFINE sy == ModuleSymbol(m, c, k)
<1>3. IsAlias(m, a.as, sy)
  BY <1>1, <1>2 DEF IsAlias
<1>4. sy.name = a.name
  BY <1>2 DEF ModuleSymbol, Global
<1> QED BY <1>3, <1>4

LEMMA OwnIs ==
  ASSUME program \in Programs, NEW m \in DOMAIN program, DepsMade(m), TheirsFinite(m),
         TableMade(m)
  PROVE  OwnMeans(m)
<1> DEFINE D == R!Declared(program, m)
           A == R!Aliases(program, m)
<1>1. R!Inner(program, m) = D \cup {a.as : a \in A}
  BY DEF R!Inner
<1>2. ASSUME NEW x, NEW sy, IsAlias(m, x, sy) \/ IsDeclared(m, x, sy)
      PROVE  x \in Own(m) /\ globals[m][x] = sy
  <2>1. x \in DOMAIN globals[m] /\ globals[m][x] = sy
    BY <1>2, EntryIs
  <2>2. ~sy.external
    BY <1>2, OwnSymbol
  <2> QED BY <2>1, <2>2 DEF Own
<1>3. ASSUME NEW x \in Own(m)
      PROVE  \E sy : sy = globals[m][x] /\ (IsAlias(m, x, sy) \/ IsDeclared(m, x, sy))
  <2>1. x \in DOMAIN globals[m] /\ ~globals[m][x].external
    BY DEF Own
  <2> DEFINE sy == globals[m][x]
  <2>2. IsAlias(m, x, sy) \/ IsTaken(m, x, sy) \/ IsPicked(m, x, sy) \/ IsDeclared(m, x, sy)
    BY <2>1, EntryOrigin
  <2>3. ~sy.external
    BY <2>1
  <2> HIDE DEF sy
  <2>4. IsAlias(m, x, sy) \/ IsDeclared(m, x, sy)
    BY <2>2, <2>3, ForeignSymbol
  <2> QED BY <2>4 DEF sy
<1>4. ASSUME NEW x \in Own(m) PROVE x \in D \cup {a.as : a \in A}
  <2>1. PICK sy : sy = globals[m][x] /\ (IsAlias(m, x, sy) \/ IsDeclared(m, x, sy))
    BY <1>3
  <2>2. CASE IsAlias(m, x, sy)
    <3>1. PICK i \in 1 .. Len(Couplings(m)) :
            LET c == Couplings(m)[i]
            IN c.kind = "import" /\ ~c.all /\ \E k \in 1 .. Len(c.items) : x = c.items[k].as
      BY <2>2 DEF IsAlias
    <3>2. PICK k \in 1 .. Len(Couplings(m)[i].items) : x = Couplings(m)[i].items[k].as
      BY <3>1
    <3>3. Couplings(m)[i].items[k] \in A
      BY <3>1, AliasesAre
    <3> QED BY <3>2, <3>3
  <2>3. CASE IsDeclared(m, x, sy)
    <3>1. PICK j \in 1 .. Len(program[m].symbols) : x = program[m].symbols[j].name
      BY <2>3 DEF IsDeclared
    <3>2. x \in D
      BY <3>1, DeclaredAre
    <3> QED BY <3>2
  <2> QED BY <2>1, <2>2, <2>3
<1>5. ASSUME NEW x \in D PROVE x \in Own(m) /\ globals[m][x].name = x
  <2>1. PICK sy : IsDeclared(m, x, sy) /\ sy.name = x
    BY DeclaredSymbol
  <2> QED BY <1>2, <2>1
<1>6. ASSUME NEW a \in A PROVE a.as \in Own(m) /\ globals[m][a.as].name = a.name
  <2>1. PICK sy : IsAlias(m, a.as, sy) /\ sy.name = a.name
    BY AliasSymbol
  <2> QED BY <1>2, <2>1
<1> HIDE DEF D, A
<1>7. Own(m) = D \cup {a.as : a \in A}
  <2>1. Own(m) \subseteq D \cup {a.as : a \in A}
    BY <1>4
  <2>2. D \subseteq Own(m) /\ {a.as : a \in A} \subseteq Own(m)
    BY <1>5, <1>6
  <2> QED BY <2>1, <2>2
<1>8. ASSUME NEW x \in Own(m) PROVE globals[m][x].decl = <<m, x>> /\ globals[m][x].module = m
  BY <1>3, OwnSymbol
<1>9. ASSUME NEW x, NEW b \in FirstName(program, m, x) PROVE globals[m][x].name = b
  <2>1. (b = x /\ x \in D) \/ \E a \in A : a.as = x /\ b = a.name
    BY <1>9 DEF FirstName, D, A
  <2> QED BY <1>5, <1>6, <2>1
<1> QED BY <1>1, <1>7, <1>8, <1>9 DEF OwnMeans

-----------------------------------------------------------------------------
\* What a module exports.

ExportsMean(m) ==
  /\ DOMAIN exported[m] = {e.as : e \in R!Exported(program, m)}
  /\ \A e \in R!Exported(program, m) :
       e.name \in Own(m) /\ exported[m][e.as] = globals[m][e.name]

\* What checkExports goes through is what the rules call exported.
LEMMA ExportedIs ==
  ASSUME program \in Programs, NEW m \in DOMAIN program, IsFiniteSet(DOMAIN globals[m]),
         Own(m) = R!Inner(program, m)
  PROVE  Listed(Exports(m)) /\ R!Exported(program, m) = {Exports(m)[p] : p \in 1 .. Len(Exports(m))}
<1> DEFINE es == Exports(m)
           hs == Handing(m)
           n == Len(Couplings(m))
           I == R!Items(program, m, "export")
           E == R!Exported(program, m)
           Given(c) == IF c.all THEN {[as |-> x, name |-> x] : x \in R!Inner(program, m)}
                       ELSE R!ToSet(c.items)
<1>1. PICK S, row, column : es \in Seq(S) /\ Flattened(es, hs, n, row, column)
  BY ExportsFlat
<1>2. Listed(es)
  BY <1>1, SeqListed
<1>3. E = UNION {Given(c) : c \in I}
  BY DEF R!Exported
<1>4. /\ \A c \in I : \E i \in 1 .. n : c = Couplings(m)[i] /\ c.kind = "export"
      /\ \A i \in 1 .. n : Couplings(m)[i].kind = "export" => Couplings(m)[i] \in I
  BY ItemsAre
<1>5. ASSUME NEW i \in 1 .. n
      PROVE  /\ Couplings(m)[i].kind = "export" =>
                  Given(Couplings(m)[i]) = {hs[i][k] : k \in 1 .. Len(hs[i])}
             /\ Couplings(m)[i].kind # "export" => Len(hs[i]) = 0
  <2> DEFINE c == Couplings(m)[i]
             h == hs[i]
             names == SetToSeq(Own(m))
  <2>1. HandedAs(m, i) /\ IsCoupling(c)
    BY HandingIs
  <2>2. CASE c.kind # "export"
    BY <2>1, <2>2 DEF HandedAs
  <2>3. CASE c.kind = "export" /\ c.all
    <3>1. /\ \A k \in 1 .. Len(h) : names[k] \in Own(m) /\ h[k] = [name |-> names[k], as |-> names[k]]
          /\ \A x \in Own(m) : \E k \in 1 .. Len(h) : names[k] = x
      BY <2>1, <2>3 DEF HandedAs
    <3>2. Given(c) = {[as |-> x, name |-> x] : x \in Own(m)}
      BY <2>3
    <3> HIDE DEF h, names, Given, c
    <3> DEFINE T == {h[k] : k \in 1 .. Len(h)}
    <3>3. \A k \in 1 .. Len(h) : h[k] \in Given(c)
      BY <3>1, <3>2
    <3>4. ASSUME NEW x \in Own(m) PROVE [as |-> x, name |-> x] \in T
      <4>1. PICK k \in 1 .. Len(h) : names[k] = x
        BY <3>1
      <4>2. h[k] = [as |-> x, name |-> x]
        BY <3>1, <4>1
      <4> QED BY <4>2
    <3>5. T \subseteq Given(c)
      BY <3>3
    <3>6. Given(c) \subseteq T
      <4> HIDE DEF T
      <4> QED BY <3>2, <3>4
    <3>7. Given(c) = T
      BY <3>5, <3>6
    <3> QED BY <2>3, <3>7 DEF h, c
  <2>4. CASE c.kind = "export" /\ ~c.all
    <3>1. h = c.items
      BY <2>1, <2>4 DEF HandedAs
    <3>2. Listed(c.items)
      BY <2>1 DEF IsCoupling
    <3>3. R!ToSet(c.items) = {c.items[k] : k \in 1 .. Len(c.items)}
      BY <3>2, ElementsAre
    <3>4. Given(c) = R!ToSet(c.items)
      BY <2>4
    <3> QED BY <2>4, <3>1, <3>3, <3>4
  <2> QED BY <2>2, <2>3, <2>4
<1>6. /\ \A p \in 1 .. Len(es) : row[p] \in 1 .. n /\ column[p] \in 1 .. Len(hs[row[p]])
                                 /\ es[p] = hs[row[p]][column[p]]
      /\ \A i \in 1 .. n : \A k \in 1 .. Len(hs[i]) :
           \E p \in 1 .. Len(es) : row[p] = i /\ column[p] = k
  BY <1>1 DEF Flattened
<1> HIDE DEF es, hs, n, I, E, Given
<1>7. ASSUME NEW p \in 1 .. Len(es) PROVE es[p] \in E
  <2> DEFINE i == row[p]
             c == Couplings(m)[i]
  <2>1. i \in 1 .. n /\ column[p] \in 1 .. Len(hs[i]) /\ es[p] = hs[i][column[p]]
    BY <1>6
  <2> HIDE DEF i
  <2>2. c.kind = "export"
    <3>1. SUFFICES ASSUME c.kind # "export" PROVE FALSE
      OBVIOUS
    <3>2. Len(hs[i]) = 0
      BY <1>5, <2>1, <3>1
    <3> QED BY <2>1, <3>2
  <2>3. c \in I /\ es[p] \in Given(c)
    <3>1. Given(c) = {hs[i][k] : k \in 1 .. Len(hs[i])}
      BY <1>5, <2>1, <2>2
    <3> QED BY <1>4, <2>1, <2>2, <3>1
  <2> QED BY <1>3, <2>3
<1>8. ASSUME NEW e \in E PROVE \E p \in 1 .. Len(es) : e = es[p]
  <2>1. PICK c \in I : e \in Given(c)
    BY <1>3
  <2>2. PICK i \in 1 .. n : c = Couplings(m)[i] /\ c.kind = "export"
    BY <1>4
  <2>3. Given(c) = {hs[i][k] : k \in 1 .. Len(hs[i])}
    BY <1>5, <2>2
  <2>4. PICK k \in 1 .. Len(hs[i]) : e = hs[i][k]
    BY <2>1, <2>3
  <2>5. PICK p \in 1 .. Len(es) : row[p] = i /\ column[p] = k
    BY <1>6
  <2>6. e = es[p]
    BY <1>6, <2>4, <2>5
  <2> QED BY <2>6
<1>9. E = {es[p] : p \in 1 .. Len(es)}
  BY <1>7, <1>8
<1> QED BY <1>2, <1>9 DEF E, es

LEMMA ExportsAre ==
  ASSUME program \in Programs, NEW m \in DOMAIN program, DepsMade(m), TheirsFinite(m),
         Made(m)
  PROVE  ExportsMean(m)
<1> DEFINE es == Exports(m)
           t == globals[m]
           E == R!Exported(program, m)
<1>1. TableMade(m) /\ ExportsMade(m)
  BY DEF Made
<1>2. OwnMeans(m) /\ IsFiniteSet(DOMAIN t)
  BY <1>1, OwnIs, TableEntries DEF Entries
<1>3. Listed(es) /\ E = {es[p] : p \in 1 .. Len(es)}
  BY <1>2, ExportedIs DEF OwnMeans
<1>4. FaultsOf(es, t) = {} /\ exported[m] = TableOf(es, t)
  BY <1>1, ExportsMadeIs
<1>5. DOMAIN es = 1 .. Len(es)
  BY <1>3, ListedSeq
<1> HIDE DEF es, t, E
<1>6. /\ \A p, q \in 1 .. Len(es) : es[p].as = es[q].as => p = q
      /\ \A p \in 1 .. Len(es) : es[p].name \in DOMAIN t /\ ~t[es[p].name].external
  <2> DEFINE again == \E i, j \in DOMAIN es : i # j /\ es[i].as = es[j].as
             undefined == \E i \in DOMAIN es : es[i].name \notin DOMAIN t
             foreign == \E i \in DOMAIN es : es[i].name \in DOMAIN t /\ t[es[i].name].external
  <2>1. FaultsOf(es, t) = IF again THEN {"DuplicatedExport"}
                          ELSE {e \in {"ExportingUndefName", "ExportingExternalName"} :
                                  IF e = "ExportingUndefName" THEN undefined ELSE foreign}
    BY DEF FaultsOf
  <2> HIDE DEF again, undefined, foreign
  <2>2. ~again
    BY <1>4, <2>1
  <2>3. \A e \in {"ExportingUndefName", "ExportingExternalName"} :
          ~(IF e = "ExportingUndefName" THEN undefined ELSE foreign)
    BY <1>4, <2>1, <2>2
  <2>4. ~undefined /\ ~foreign
    BY <2>3
  <2> QED BY <1>5, <2>2, <2>4 DEF again, undefined, foreign
<1>7. ASSUME NEW p \in 1 .. Len(es)
      PROVE  es[p].as \in DOMAIN exported[m] /\ exported[m][es[p].as] = t[es[p].name]
  <2> DEFINE x == es[p].as
             at == CHOOSE i \in DOMAIN es : es[i].as = x
  <2>1. x \in DOMAIN exported[m] /\ exported[m][x] = t[es[at].name]
    BY <1>4, <1>5 DEF TableOf
  <2>2. at \in DOMAIN es /\ es[at].as = x
    BY <1>5
  <2> HIDE DEF at
  <2>3. at = p
    BY <1>5, <1>6, <2>2
  <2> QED BY <2>1, <2>3
<1>8. DOMAIN exported[m] = {es[p].as : p \in 1 .. Len(es)}
  BY <1>4, <1>5 DEF TableOf
<1>9. DOMAIN exported[m] = {e.as : e \in E}
  BY <1>3, <1>8
<1>10. ASSUME NEW e \in E PROVE e.name \in Own(m) /\ exported[m][e.as] = t[e.name]
  <2>1. PICK p \in 1 .. Len(es) : e = es[p]
    BY <1>3
  <2>2. e.name \in Own(m)
    BY <1>6, <2>1 DEF Own, t
  <2> QED BY <1>7, <2>1, <2>2
<1> QED BY <1>9, <1>10 DEF ExportsMean, E, t

-----------------------------------------------------------------------------
\* What the names of a resolved module mean.

\* A module whose table and exports are made, and those of the modules that its
\* from clauses name.
Settled(m) ==
  /\ program \in Programs /\ m \in DOMAIN program
  /\ DepsMade(m) /\ TheirsFinite(m) /\ TableMade(m) /\ OwnMeans(m)
  /\ \A c \in R!Items(program, m, "from") :
       /\ c.module \in DOMAIN deps[m] /\ deps[m][c.module] = c.module
       /\ OwnMeans(c.module) /\ ExportsMean(c.module)

\* What an import that takes everything and one that lists its names bring.
Brought(c, x) ==
  {e \in R!Exported(program, c.module) :
     IF c.all THEN e.as = x ELSE \E i \in R!ToSet(c.items) : i.as = x /\ i.name = e.as}

LEMMA MeaningIs ==
  ASSUME NEW m, NEW x
  PROVE  \A z : z \in R!Meaning(program, m, x) <=>
           \/ x \in R!Inner(program, m) /\ z = <<m, x>>
           \/ \E c \in R!Items(program, m, "from") : \E e \in Brought(c, x) : z = <<c.module, e.name>>
<1> DEFINE I == R!Inner(program, m)
           F == R!Items(program, m, "from")
<1>1. R!Meaning(program, m, x) =
        {<<m, y>> : y \in I \cap {x}} \cup
        UNION {{<<c.module, e.name>> : e \in Brought(c, x)} : c \in F}
  BY DEF R!Meaning, Brought
<1> HIDE DEF I, F
<1>2. \A z : z \in {<<m, y>> : y \in I \cap {x}} <=> x \in I /\ z = <<m, x>>
  OBVIOUS
<1>3. \A z : z \in UNION {{<<c.module, e.name>> : e \in Brought(c, x)} : c \in F}
             <=> \E c \in F : \E e \in Brought(c, x) : z = <<c.module, e.name>>
  OBVIOUS
<1> QED BY <1>1, <1>2, <1>3 DEF I, F

\* What a clause brings is in the table.
LEMMA BroughtIn ==
  ASSUME NEW m, Settled(m), NEW x, NEW c \in R!Items(program, m, "from"), NEW e \in Brought(c, x)
  PROVE  x \in DOMAIN globals[m] /\ globals[m][x].decl = <<c.module, e.name>>
<1> DEFINE theirs == exported[c.module]
<1>1. PICK i \in 1 .. Len(Couplings(m)) : c = Couplings(m)[i] /\ c.kind = "from"
  BY ItemsAre DEF Settled
<1>2. OwnMeans(c.module) /\ ExportsMean(c.module)
  BY DEF Settled
<1>3. e \in R!Exported(program, c.module)
  BY DEF Brought
<1>4. e.as \in DOMAIN theirs /\ theirs[e.as] = globals[c.module][e.name]
  BY <1>2, <1>3 DEF ExportsMean
<1>5. theirs[e.as].decl = <<c.module, e.name>>
  BY <1>2, <1>3, <1>4 DEF ExportsMean, OwnMeans
<1>6. \A name : External(theirs[e.as], name).decl = theirs[e.as].decl
  BY DEF External, Global
<1>7. CASE c.all
  <2>1. e.as = x
    BY <1>7 DEF Brought
  <2>2. IsTaken(m, x, External(theirs[x], x))
    BY <1>1, <1>4, <1>7, <2>1 DEF IsTaken
  <2>3. x \in DOMAIN globals[m] /\ globals[m][x] = External(theirs[x], x)
    BY <2>2, EntryIs DEF Settled
  <2> QED BY <1>5, <1>6, <2>1, <2>3
<1>8. CASE ~c.all
  <2>1. PICK it \in R!ToSet(c.items) : it.as = x /\ it.name = e.as
    BY <1>8 DEF Brought
  <2>2. Listed(c.items)
    BY <1>1, FileParts DEF Settled, Couplings, IsCoupling
  <2>3. PICK k \in 1 .. Len(c.items) : it = c.items[k]
    BY <2>1, <2>2, ElementsAre
  <2> DEFINE sy == External(theirs[e.as], theirs[e.as].name)
  <2>4. IsPicked(m, x, sy)
    BY <1>1, <1>4, <1>8, <2>1, <2>3 DEF IsPicked
  <2>5. x \in DOMAIN globals[m] /\ globals[m][x] = sy
    BY <2>4, EntryIs DEF Settled
  <2> QED BY <1>5, <1>6, <2>5
<1> QED BY <1>7, <1>8

\* Every meaning of a name is that of its entry.
LEMMA MeaningEntry ==
  ASSUME NEW m, Settled(m), NEW x, NEW z \in R!Meaning(program, m, x)
  PROVE  x \in DOMAIN globals[m] /\ z = globals[m][x].decl
<1>1. CASE x \in R!Inner(program, m) /\ z = <<m, x>>
  <2>1. x \in Own(m) /\ globals[m][x].decl = <<m, x>>
    BY <1>1 DEF Settled, OwnMeans
  <2> QED BY <1>1, <2>1 DEF Own
<1>2. CASE \E c \in R!Items(program, m, "from") : \E e \in Brought(c, x) : z = <<c.module, e.name>>
  BY <1>2, BroughtIn
<1> QED BY <1>1, <1>2, MeaningIs

\* Where an entry that is external comes from.
IsBrought(m, x, sy) ==
  \E c \in R!Items(program, m, "from") : \E e \in Brought(c, x) :
    /\ sy.decl = <<c.module, e.name>> /\ sy.external /\ sy.module = c.module
    /\ IF c.all THEN sy.name = e.as ELSE sy.name = globals[c.module][e.name].name

LEMMA EntryBrought ==
  ASSUME NEW m, Settled(m), NEW x \in DOMAIN globals[m], globals[m][x].external
  PROVE  IsBrought(m, x, globals[m][x])
<1> DEFINE sy == globals[m][x]
<1>1. IsAlias(m, x, sy) \/ IsTaken(m, x, sy) \/ IsPicked(m, x, sy) \/ IsDeclared(m, x, sy)
  BY EntryOrigin DEF Settled
<1>2. sy.external
  OBVIOUS
<1> SUFFICES IsBrought(m, x, sy)
  OBVIOUS
<1> HIDE DEF sy
<1>3. IsTaken(m, x, sy) \/ IsPicked(m, x, sy)
  BY <1>1, <1>2, OwnSymbol
<1>4. \A their, name : LET s == External(their, name)
        IN s.external /\ s.name = name /\ s.decl = their.decl /\ s.module = their.module
  BY DEF External, Global
<1>5. ASSUME NEW c \in R!Items(program, m, "from"), NEW y \in DOMAIN exported[c.module]
      PROVE  \E e \in R!Exported(program, c.module) :
               /\ e.as = y /\ exported[c.module][y] = globals[c.module][e.name]
               /\ exported[c.module][y].decl = <<c.module, e.name>>
               /\ exported[c.module][y].module = c.module
  <2>1. OwnMeans(c.module) /\ ExportsMean(c.module)
    BY DEF Settled
  <2>2. PICK e \in R!Exported(program, c.module) : e.as = y
    BY <2>1 DEF ExportsMean
  <2>3. e.name \in Own(c.module) /\ exported[c.module][y] = globals[c.module][e.name]
    BY <2>1, <2>2 DEF ExportsMean
  <2> QED BY <2>1, <2>2, <2>3 DEF OwnMeans
<1>6. CASE IsTaken(m, x, sy)
  <2>1. PICK i \in 1 .. Len(Couplings(m)) :
          LET c == Couplings(m)[i]
          IN c.kind = "from" /\ c.all /\ x \in DOMAIN exported[c.module]
             /\ sy = External(exported[c.module][x], x)
    BY <1>6 DEF IsTaken
  <2> DEFINE c == Couplings(m)[i]
  <2>2. c \in R!Items(program, m, "from")
    BY <2>1, ItemsAre DEF Settled
  <2>3. c.all /\ x \in DOMAIN exported[c.module] /\ sy = External(exported[c.module][x], x)
    BY <2>1
  <2> HIDE DEF c
  <2>4. PICK e \in R!Exported(program, c.module) :
               /\ e.as = x /\ exported[c.module][x].decl = <<c.module, e.name>>
               /\ exported[c.module][x].module = c.module
    BY <1>5, <2>2, <2>3
  <2>5. e \in Brought(c, x)
    BY <2>3, <2>4 DEF Brought
  <2>6. sy.external /\ sy.name = x /\ sy.decl = <<c.module, e.name>> /\ sy.module = c.module
    BY <1>4, <2>3, <2>4
  <2> QED BY <2>2, <2>3, <2>4, <2>5, <2>6 DEF IsBrought
<1>7. CASE IsPicked(m, x, sy)
  <2>1. PICK i \in 1 .. Len(Couplings(m)) :
          LET c == Couplings(m)[i]
              theirs == exported[c.module]
          IN c.kind = "from" /\ ~c.all /\
             \E k \in 1 .. Len(c.items) :
               /\ x = c.items[k].as /\ c.items[k].name \in DOMAIN theirs
               /\ sy = External(theirs[c.items[k].name], theirs[c.items[k].name].name)
    BY <1>7 DEF IsPicked
  <2> DEFINE c == Couplings(m)[i]
  <2>2. c \in R!Items(program, m, "from") /\ ~c.all /\ IsCoupling(c)
    BY <2>1, ItemsAre, FileParts DEF Settled, Couplings
  <2>3. PICK k \in 1 .. Len(c.items) :
          LET theirs == exported[c.module]
          IN /\ x = c.items[k].as /\ c.items[k].name \in DOMAIN theirs
             /\ sy = External(theirs[c.items[k].name], theirs[c.items[k].name].name)
    BY <2>1
  <2> HIDE DEF c
  <2> DEFINE it == c.items[k]
             y == it.name
             their == exported[c.module][y]
  <2>4. it \in R!ToSet(c.items)
    BY <2>2, ElementsAre DEF IsCoupling
  <2>5. y \in DOMAIN exported[c.module] /\ x = it.as /\ sy = External(their, their.name)
    BY <2>3
  <2>6. PICK e \in R!Exported(program, c.module) :
               /\ e.as = y /\ their = globals[c.module][e.name]
               /\ their.decl = <<c.module, e.name>> /\ their.module = c.module
    BY <1>5, <2>2, <2>5
  <2>7. e \in Brought(c, x)
    BY <2>2, <2>4, <2>5, <2>6 DEF Brought
  <2> HIDE DEF it, y, their
  <2>8. sy.external /\ sy.name = their.name /\ sy.decl = their.decl /\ sy.module = their.module
    BY <1>4, <2>5
  <2> QED BY <2>2, <2>6, <2>7, <2>8 DEF IsBrought
<1> QED BY <1>3, <1>6, <1>7

LEMMA EntryMeaning ==
  ASSUME NEW m, Settled(m), NEW x \in DOMAIN globals[m]
  PROVE  globals[m][x].decl \in R!Meaning(program, m, x)
<1>1. CASE globals[m][x].external
  <2>1. IsBrought(m, x, globals[m][x])
    BY <1>1, EntryBrought
  <2> QED BY <2>1, MeaningIs DEF IsBrought
<1>2. CASE ~globals[m][x].external
  <2>1. x \in Own(m)
    BY <1>2 DEF Own
  <2>2. x \in R!Inner(program, m) /\ globals[m][x].decl = <<m, x>>
    BY <2>1 DEF Settled, OwnMeans
  <2> QED BY <2>2, MeaningIs
<1> QED BY <1>1, <1>2

\* An imported symbol is found again in its module, when the import does not
\* rename it.
LEMMA EntryFound ==
  ASSUME NEW m, Settled(m), ~ImportsRenamed(program), NEW x \in DOMAIN globals[m]
  PROVE  ~Lost(m, x) /\ GetSymbol(m, x).decl = globals[m][x].decl
<1> DEFINE sy == globals[m][x]
<1>1. CASE ~sy.external
  BY <1>1 DEF Lost, GetSymbol
<1>2. CASE sy.external
  <2>1. PICK c \in R!Items(program, m, "from") : \E e \in Brought(c, x) :
          /\ sy.decl = <<c.module, e.name>> /\ sy.module = c.module
          /\ IF c.all THEN sy.name = e.as ELSE sy.name = globals[c.module][e.name].name
    BY <1>2, EntryBrought DEF IsBrought
  <2>2. PICK e \in Brought(c, x) :
          /\ sy.decl = <<c.module, e.name>> /\ sy.module = c.module
          /\ IF c.all THEN sy.name = e.as ELSE sy.name = globals[c.module][e.name].name
    BY <2>1
  <2>3. /\ c.module \in DOMAIN deps[m] /\ deps[m][c.module] = c.module
        /\ OwnMeans(c.module) /\ ExportsMean(c.module)
    BY DEF Settled
  <2>4. e \in R!Exported(program, c.module)
    BY DEF Brought
  <2>5. /\ e.name \in Own(c.module)
        /\ e.as \in DOMAIN exported[c.module]
        /\ exported[c.module][e.as] = globals[c.module][e.name]
    BY <2>3, <2>4 DEF ExportsMean
  <2>6. globals[c.module][e.name].decl = <<c.module, e.name>>
    BY <2>3, <2>5 DEF OwnMeans
  <2>7. sy.name = e.as
    <3>1. CASE c.all
      BY <2>2, <3>1
    <3>2. CASE ~c.all
      <4>1. PICK i \in 1 .. Len(Couplings(m)) : c = Couplings(m)[i] /\ c.kind = "from"
        BY ItemsAre DEF Settled
      <4>2. DOMAIN Couplings(m) = 1 .. Len(Couplings(m)) /\ IsCoupling(c)
        BY <4>1, FileParts DEF Settled, Couplings
      <4>3. PICK it \in R!ToSet(c.items) : it.name = e.as
        BY <3>2 DEF Brought
      <4>4. DOMAIN c.items = 1 .. Len(c.items)
        BY <4>2, ListedSeq DEF IsCoupling
      <4>5. PICK k \in DOMAIN c.items : it = c.items[k]
        BY <4>2, <4>3, <4>4, ElementsAre DEF IsCoupling
      <4>6. e.as \in FirstName(program, c.module, e.name)
        <5>1. SUFFICES ASSUME e.as \notin FirstName(program, c.module, e.name)
                       PROVE  ImportsRenamed(program)
          OBVIOUS
        <5>2. program[m].couplings[i] = c /\ i \in DOMAIN program[m].couplings /\ m \in DOMAIN program
          BY <4>1, <4>2 DEF Couplings, Settled
        <5>3. /\ c.kind = "from" /\ ~c.all /\ e.as = c.items[k].name
          BY <3>2, <4>1, <4>3, <4>5
        <5> QED BY <2>4, <4>5, <5>1, <5>2, <5>3 DEF ImportsRenamed
      <4>7. globals[c.module][e.name].name = e.as
        BY <2>3, <2>5, <4>6 DEF OwnMeans
      <4> QED BY <2>2, <3>2, <4>7
    <3> QED BY <3>1, <3>2
  <2>8. sy.module \in DOMAIN deps[m] /\ deps[m][sy.module] = c.module
    BY <2>2, <2>3
  <2>9. ~Lost(m, x)
    BY <2>5, <2>7, <2>8 DEF Lost
  <2>10. GetSymbol(m, x) = exported[c.module][e.as]
    BY <1>2, <2>7, <2>8 DEF GetSymbol
  <2> QED BY <2>2, <2>5, <2>6, <2>9, <2>10
<1> QED BY <1>1, <1>2

LEMMA ResolvedSettled ==
  ASSUME Invariant, phase = "resolved", NEW m \in DOMAIN globals, ~Untouched(m)
  PROVE  Settled(m)
<1>1. /\ Shape /\ TypeOK /\ Resolved /\ Loaded /\ program \in Programs
      /\ DOMAIN globals = DOMAIN deps
  BY DEF Invariant, Shape, TypeOK, Resolved
<1>2. ASSUME NEW a \in DOMAIN deps
      PROVE /\ a \in DOMAIN program /\ DepsMade(a) /\ TablesFinite(a) /\ TheirsFinite(a)
  <2>1. \A b \in DOMAIN deps : b \in DOMAIN program /\ DepsMade(b) /\ TablesFinite(b)
    BY <1>1 DEF Shape, Loaded, Resolved
  <2>2. \A b \in DOMAIN deps[a] : deps[a][b] \in DOMAIN deps
    BY <1>1 DEF TypeOK
  <2>3. TheirsFinite(a)
    BY <2>1, <2>2 DEF TheirsFinite, TablesFinite
  <2> QED BY <2>1, <2>3
<1>3. Made(m) /\ \A a \in DOMAIN deps[m] : Made(deps[m][a])
  BY <1>1 DEF Resolved
<1>4. ASSUME NEW a \in DOMAIN deps, Made(a) PROVE OwnMeans(a) /\ ExportsMean(a)
  <2>1. OwnMeans(a)
    BY <1>1, <1>2, <1>4, OwnIs DEF Made
  <2>2. ExportsMean(a)
    BY <1>1, <1>2, <1>4, ExportsAre
  <2> QED BY <2>1, <2>2
<1>5. ASSUME NEW c \in R!Items(program, m, "from")
      PROVE  /\ c.module \in DOMAIN deps[m] /\ deps[m][c.module] = c.module
             /\ OwnMeans(c.module) /\ ExportsMean(c.module)
  <2>1. PICK i \in 1 .. Len(Couplings(m)) : c = Couplings(m)[i] /\ c.kind = "from"
    BY <1>1, <1>2, ItemsAre
  <2>2. c.module \in DOMAIN deps[m] /\ deps[m][c.module] = c.module
    BY <1>1, <1>2, <2>1, CouplingDeps
  <2>3. Made(c.module)
    BY <1>3, <2>2
  <2>4. c.module \in DOMAIN deps
    BY <1>1, <2>2 DEF TypeOK
  <2> QED BY <1>4, <2>2, <2>3, <2>4
<1>6. m \in DOMAIN deps /\ OwnMeans(m) /\ TableMade(m)
  BY <1>1, <1>3, <1>4 DEF Made
<1> QED BY <1>1, <1>2, <1>5, <1>6 DEF Settled

LEMMA InvariantNames ==
  ASSUME Invariant, ~ImportsRenamed(program)
  PROVE  NamesMean
<1> SUFFICES ASSUME phase = "resolved", NEW m \in DOMAIN globals, NEW n \in DOMAIN globals[m]
             PROVE  ~Lost(m, n) /\ {GetSymbol(m, n).decl} = R!Meaning(program, m, n)
  BY DEF NamesMean
<1>1. ~Untouched(m)
  BY DEF Untouched, NoNames
<1>2. Settled(m)
  BY <1>1, ResolvedSettled
<1>3. ~Lost(m, n) /\ GetSymbol(m, n).decl = globals[m][n].decl
  BY <1>2, EntryFound
<1>4. globals[m][n].decl \in R!Meaning(program, m, n)
  BY <1>2, EntryMeaning
<1>5. \A z \in R!Meaning(program, m, n) : z = globals[m][n].decl
  BY <1>2, MeaningEntry
<1> QED BY <1>3, <1>4, <1>5

-----------------------------------------------------------------------------
\* The tables of a module, at every moment: a module is loaded once and has its
\* dependencies when resolveModule leaves it, after loading the program is what
\* Root reaches, and a module's names are only bound when the modules it takes
\* names from have their exports.
THEOREM TablesSound == Spec => []TablesHold
BY InvariantHolds, InvariantTables, PTL

\* checkDependencyCycles reports a cycle only if there is one, and names are
\* resolved only if there is none.
THEOREM CyclesReported == Spec => []CyclesCaught
BY InvariantHolds, InvariantCycles, PTL

\* Once a program is resolved, every name of a module is found by GetSymbol, and
\* is the one declaration that the rules of imports give it, unless an import
\* lists a name under which its module exports something renamed.
THEOREM NamesResolved ==
  ASSUME \A p \in Programs : ~ImportsRenamed(p)
  PROVE  Spec => []NamesMean
<1>1. Invariant => program \in Programs
  BY DEF Invariant, Shape
<1>2. Invariant => NamesMean
  BY <1>1, InvariantNames
<1> QED BY <1>2, InvariantHolds, PTL
=============================================================================

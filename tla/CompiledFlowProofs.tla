------------------------- MODULE CompiledFlowProofs -------------------------
(***************************************************************************)
(* The source, the blocks and the assembly agree, for every set of parsed  *)
(* procedures that are lowered as they stand (Straight): whatever the      *)
(* conditions of the branches come out as, none of the three comes to      *)
(* something the other two do not.                                         *)
(*                                                                         *)
(* Agree says nothing before the three run, so most of the invariant is    *)
(* about what is built.  M names the machine of the source that stands     *)
(* where each item of a block starts: while the blocks are generated, each *)
(* frame of work says what its open blocks wait for (FrameMeans, Stack),   *)
(* so that whatever is appended means the rest of the source (Gen); once   *)
(* they stand, every item leads to the next one's machine (Flows, Sound).  *)
(* While they are laid out, the lines written so far are code of visited   *)
(* blocks, and next and trues hold those still to come (Laid).  At last    *)
(* the machines step together, the assembly taking labels and jumps that   *)
(* say nothing (Path, Running).                                            *)
(*                                                                         *)
(* Way says beside it where the source is when the generator is somewhere, *)
(* so that no way is lost and the verdicts are the source's; Tight, how    *)
(* the blocks hang together (Tidy, Sealed), so that gen comes to each of   *)
(* them once (Order).                                                      *)
(***************************************************************************)
EXTENDS CompiledFlow, SequenceTheorems, FiniteSetTheorems, TLAPS

-----------------------------------------------------------------------------
\* Sequences.

LEMMA ListedSeq ==
  ASSUME NEW S, NEW s \in Seq(S)
  PROVE  Listed(s) /\ Elements(s) \subseteq S
<1>1. \A i \in DOMAIN s : s[i] \in S
  BY ElementOfSeq
<1>2. s \in [1 .. Len(s) -> Elements(s)] /\ Len(s) \in Nat
  BY DEF Elements
<1> QED BY <1>1, <1>2, IsASeq DEF Listed, Elements

LEMMA SeqListed ==
  ASSUME NEW S, NEW s, Listed(s), Elements(s) \subseteq S
  PROVE  s \in Seq(S)
<1>1. s \in Seq(Elements(s))
  BY DEF Listed
<1> QED BY <1>1, SeqMonotonic

LEMMA ListedIs ==
  ASSUME NEW s, Listed(s)
  PROVE  /\ Len(s) \in Nat /\ DOMAIN s = 1 .. Len(s)
         /\ s = <<>> <=> Len(s) = 0
         /\ s \in Seq(Elements(s))
<1>1. s \in Seq(Elements(s))
  BY DEF Listed
<1> QED BY <1>1, LenProperties, EmptySeq

LEMMA ListedJoin ==
  ASSUME NEW s, NEW t, Listed(s), Listed(t)
  PROVE  /\ Listed(s \o t) /\ Len(s \o t) = Len(s) + Len(t)
         /\ \A i \in 1 .. Len(s) : (s \o t)[i] = s[i]
         /\ \A i \in Len(s) + 1 .. Len(s) + Len(t) : (s \o t)[i] = t[i - Len(s)]
<1> DEFINE S == Elements(s) \cup Elements(t)
<1>1. s \in Seq(S) /\ t \in Seq(S)
  BY SeqListed
<1> HIDE DEF S
<1>2. s \o t \in Seq(S) /\ Len(s \o t) = Len(s) + Len(t)
  BY <1>1, ConcatProperties
<1>3. /\ \A i \in 1 .. Len(s) : (s \o t)[i] = s[i]
      /\ \A i \in Len(s) + 1 .. Len(s) + Len(t) : (s \o t)[i] = t[i - Len(s)]
  BY <1>1
<1> QED BY <1>2, <1>3, ListedSeq

LEMMA ListedAppend ==
  ASSUME NEW s, NEW x, Listed(s)
  PROVE  /\ Listed(Append(s, x)) /\ Len(Append(s, x)) = Len(s) + 1
         /\ \A i \in 1 .. Len(s) : Append(s, x)[i] = s[i]
         /\ Append(s, x)[Len(s) + 1] = x
<1> DEFINE S == Elements(s) \cup {x}
<1>1. s \in Seq(S) /\ x \in S
  BY SeqListed
<1> HIDE DEF S
<1>2. Append(s, x) \in Seq(S) /\ Len(Append(s, x)) = Len(s) + 1
  BY <1>1, AppendProperties
<1>3. /\ \A i \in 1 .. Len(s) : Append(s, x)[i] = s[i]
      /\ Append(s, x)[Len(s) + 1] = x
  BY <1>1, AppendProperties
<1> QED BY <1>2, <1>3, ListedSeq

\* A stack whose top is its head.
LEMMA ListedPush ==
  ASSUME NEW s, NEW x, Listed(s)
  PROVE  /\ Listed(<<x>> \o s) /\ Len(<<x>> \o s) = Len(s) + 1
         /\ (<<x>> \o s)[1] = x
         /\ \A i \in 1 .. Len(s) : (<<x>> \o s)[i + 1] = s[i]
         /\ Head(<<x>> \o s) = x /\ Tail(<<x>> \o s) = s
<1> DEFINE S == Elements(s) \cup {x}
<1>1. s \in Seq(S) /\ x \in S
  BY SeqListed
<1> HIDE DEF S
<1>2. <<x>> \in Seq(S) /\ Len(<<x>>) = 1 /\ <<x>>[1] = x
  BY <1>1
<1>3. <<x>> \o s \in Seq(S) /\ Len(<<x>> \o s) = Len(s) + 1
  BY <1>1, <1>2
<1>4. (<<x>> \o s)[1] = x /\ \A i \in 1 .. Len(s) : (<<x>> \o s)[i + 1] = s[i]
  BY <1>1, <1>2
<1>5. Head(<<x>> \o s) = x
  BY <1>3, <1>4
<1>6. Tail(<<x>> \o s) = s
  BY <1>1, <1>2, <1>3, <1>4
<1> QED BY <1>3, <1>4, <1>5, <1>6, ListedSeq

LEMMA ListedTail ==
  ASSUME NEW s, Listed(s), s # <<>>
  PROVE  /\ Listed(Tail(s)) /\ Len(Tail(s)) = Len(s) - 1
         /\ \A i \in 1 .. Len(s) - 1 : Tail(s)[i] = s[i + 1]
         /\ Head(s) = s[1] /\ 1 \in DOMAIN s
         /\ s = <<Head(s)>> \o Tail(s)
         /\ Elements(Tail(s)) \subseteq Elements(s)
<1> DEFINE S == Elements(s)
<1>1. s \in Seq(S) /\ Len(s) \in Nat /\ Len(s) # 0 /\ DOMAIN s = 1 .. Len(s)
  BY ListedIs
<1> HIDE DEF S
<1>2. Tail(s) \in Seq(S) /\ Len(Tail(s)) = Len(s) - 1
  BY <1>1
<1>3. \A i \in 1 .. Len(s) - 1 : Tail(s)[i] = s[i + 1]
  BY <1>1
<1>4. Head(s) = s[1]
  BY <1>1
<1>5. s = <<Head(s)>> \o Tail(s)
  BY <1>1, HeadTailProperties
<1>6. Listed(Tail(s)) /\ Elements(Tail(s)) \subseteq S
  BY <1>2, ListedSeq
<1>7. 1 \in DOMAIN s
  BY <1>1
<1> QED BY <1>2, <1>3, <1>4, <1>5, <1>6, <1>7 DEF S

LEMMA ListedEmpty == Listed(<<>>) /\ Elements(<<>>) = {}
BY EmptySeq DEF Listed, Elements

LEMMA ListedOne ==
  ASSUME NEW x
  PROVE  Listed(<<x>>)
<1>1. <<x>> \in Seq({x})
  OBVIOUS
<1> QED BY <1>1, ListedSeq

LEMMA JoinAssociative ==
  ASSUME NEW s, NEW t, NEW u, Listed(s), Listed(t), Listed(u)
  PROVE  (s \o t) \o u = s \o (t \o u)
<1> DEFINE S == Elements(s) \cup Elements(t) \cup Elements(u)
<1>1. s \in Seq(S) /\ t \in Seq(S) /\ u \in Seq(S)
  BY SeqListed
<1> HIDE DEF S
<1> QED BY <1>1, ConcatAssociative

LEMMA JoinEmpty ==
  ASSUME NEW s, Listed(s)
  PROVE  s \o <<>> = s /\ <<>> \o s = s
<1>1. s \in Seq(Elements(s))
  BY DEF Listed
<1> QED BY <1>1, ConcatEmptySeq

-----------------------------------------------------------------------------
\* The graph of the blocks bs.

IdsOf(bs) == 0 .. Len(bs) - 1

TargetsOf(o) == CASE o.t = "branch" -> {o.true, o.false}
                  [] o.t = "jmp"    -> {o.true}
                  [] OTHER          -> {}

To(bs, b) == TargetsOf(bs[b + 1].out)

IsBlock(x) == x = [code |-> x.code, out |-> x.out] /\ Listed(x.code)

Made(bs) == Listed(bs) /\ \A b \in IdsOf(bs) : IsBlock(bs[b + 1])

\* Of bs, block b becomes one of this code and flow, and n blocks are new.
Alters(bs, us, b, code, out, n) ==
  /\ Listed(us) /\ Len(us) = Len(bs) + n
  /\ us[b + 1] = [code |-> code, out |-> out]
  /\ \A x \in IdsOf(us) : x # b => us[x + 1] = IF x \in IdsOf(bs) THEN bs[x + 1] ELSE EmptyBlock

LEMMA MadeIs ==
  ASSUME NEW bs, Made(bs)
  PROVE  /\ Listed(bs) /\ Len(bs) \in Nat /\ DOMAIN bs = 1 .. Len(bs)
         /\ \A b : b \in IdsOf(bs) <=> b \in Int /\ 0 <= b /\ b < Len(bs)
         /\ \A b \in IdsOf(bs) : /\ b + 1 \in 1 .. Len(bs)
                                 /\ bs[b + 1] = [code |-> bs[b + 1].code, out |-> bs[b + 1].out]
                                 /\ Listed(bs[b + 1].code)
<1>1. Listed(bs) /\ Len(bs) \in Nat /\ DOMAIN bs = 1 .. Len(bs)
  BY ListedIs DEF Made
<1>2. \A b : b \in IdsOf(bs) <=> b \in Int /\ 0 <= b /\ b < Len(bs)
  BY <1>1 DEF IdsOf
<1>3. \A b \in IdsOf(bs) : b + 1 \in 1 .. Len(bs)
  BY <1>1, <1>2
<1>4. \A b \in IdsOf(bs) : /\ bs[b + 1] = [code |-> bs[b + 1].code, out |-> bs[b + 1].out]
                           /\ Listed(bs[b + 1].code)
  BY DEF Made, IsBlock
<1> QED BY <1>1, <1>2, <1>3, <1>4

\* One block is replaced.
LEMMA ReplaceAlters ==
  ASSUME NEW bs, Made(bs), NEW b \in IdsOf(bs), NEW code, NEW o,
         NEW us, us = [bs EXCEPT ![b + 1] = [code |-> code, out |-> o]]
  PROVE  Alters(bs, us, b, code, o, 0)
<1> DEFINE y == [code |-> code, out |-> o]
           S == Elements(bs) \cup {y}
<1>1. /\ Listed(bs) /\ Len(bs) \in Nat /\ DOMAIN bs = 1 .. Len(bs) /\ b + 1 \in 1 .. Len(bs)
      /\ bs \in Seq(S)
  <2>1. Elements(bs) \subseteq S
    OBVIOUS
  <2>2. Listed(bs) /\ Len(bs) \in Nat /\ DOMAIN bs = 1 .. Len(bs) /\ b + 1 \in 1 .. Len(bs)
    BY MadeIs
  <2> HIDE DEF S
  <2> QED BY <2>1, <2>2, SeqListed
<1>2. y \in S
  OBVIOUS
<1> HIDE DEF S, y
<1>3. us = [bs EXCEPT ![b + 1] = y]
  BY DEF y
<1>4. us \in Seq(S) /\ Len(us) = Len(bs)
  BY <1>1, <1>2, <1>3, ExceptSeq
<1>5. us[b + 1] = y
  BY <1>1, <1>3
<1>6. \A x \in IdsOf(bs) : x # b => us[x + 1] = bs[x + 1]
  BY <1>1, <1>3, MadeIs
<1>7. Listed(us) /\ Len(us) = Len(bs) + 0 /\ IdsOf(us) = IdsOf(bs)
  <2>1. Listed(us)
    BY <1>4, ListedSeq
  <2>2. Len(us) = Len(bs) + 0
    BY <1>1, <1>4
  <2> QED BY <1>4, <2>1, <2>2 DEF IdsOf
<1>8. us[b + 1] = [code |-> code, out |-> o]
  BY <1>5 DEF y
<1> QED BY <1>6, <1>7, <1>8 DEF Alters

LEMMA SetOutAlters ==
  ASSUME NEW bs, Made(bs), NEW b \in IdsOf(bs), NEW o
  PROVE  Alters(bs, SetOut(bs, b, o), b, bs[b + 1].code, o, 0)
<1>1. bs[b + 1] = [code |-> bs[b + 1].code, out |-> bs[b + 1].out]
  BY MadeIs
<1>2. [bs[b + 1] EXCEPT !.out = o] = [code |-> bs[b + 1].code, out |-> o]
  BY <1>1
<1>3. SetOut(bs, b, o) = [bs EXCEPT ![b + 1] = [bs[b + 1] EXCEPT !.out = o]]
  BY DEF SetOut
<1> QED BY <1>2, <1>3, ReplaceAlters

LEMMA GenExprAlters ==
  ASSUME NEW bs, Made(bs), NEW b \in IdsOf(bs), NEW e
  PROVE  Alters(bs, GenExpr(bs, b, e), b, Append(bs[b + 1].code, Eval(e)), bs[b + 1].out, 0)
<1> DEFINE x == bs[b + 1]
           c == x.code
           d == Append(c, Eval(e))
<1>1. x = [code |-> c, out |-> x.out]
  BY MadeIs
<1>2. GenExpr(bs, b, e) = [bs EXCEPT ![b + 1] = [x EXCEPT !.code = d]]
  BY DEF GenExpr
<1>3. [x EXCEPT !.code = d] = [code |-> d, out |-> x.out]
  <2> HIDE DEF d, x
  <2> QED BY <1>1
<1>4. GenExpr(bs, b, e) = [bs EXCEPT ![b + 1] = [code |-> d, out |-> x.out]]
  <2> HIDE DEF d, x
  <2> QED BY <1>2, <1>3
<1> QED BY <1>4, ReplaceAlters

LEMMA EmptyIs == EmptyBlock.code = <<>> /\ EmptyBlock.out = NoFlow /\ IsBlock(EmptyBlock)
BY ListedEmpty DEF EmptyBlock, IsBlock

LEMMA AlteredMade ==
  ASSUME NEW bs, Made(bs), NEW us, NEW b \in IdsOf(bs), NEW code, Listed(code), NEW o,
         NEW n \in Nat, Alters(bs, us, b, code, o, n)
  PROVE  /\ Made(us) /\ Len(us) = Len(bs) + n /\ b \in IdsOf(us) /\ IdsOf(bs) \subseteq IdsOf(us)
         /\ \A x : x \in IdsOf(us) <=> x \in IdsOf(bs) \/ (x \in Int /\ Len(bs) <= x /\ x < Len(bs) + n)
<1>1. Len(bs) \in Nat /\ Listed(us) /\ Len(us) = Len(bs) + n
      /\ \A x : x \in IdsOf(bs) <=> x \in Int /\ 0 <= x /\ x < Len(bs)
  BY MadeIs DEF Alters
<1>2. \A x : x \in IdsOf(us) <=> x \in IdsOf(bs) \/ (x \in Int /\ Len(bs) <= x /\ x < Len(bs) + n)
  BY <1>1 DEF IdsOf
<1>3. \A x \in IdsOf(us) : IsBlock(us[x + 1])
  <2>1. IsBlock(us[b + 1])
    BY DEF IsBlock, Alters
  <2>2. \A x \in IdsOf(bs) : IsBlock(bs[x + 1])
    BY DEF Made
  <2> QED BY <2>1, <2>2, EmptyIs DEF Alters
<1> QED BY <1>1, <1>2, <1>3 DEF Made

LEMMA SameIds ==
  ASSUME NEW bs, Made(bs), NEW us, NEW b, NEW code, NEW o, Alters(bs, us, b, code, o, 0)
  PROVE  IdsOf(us) = IdsOf(bs)
<1>1. Len(us) = Len(bs)
  BY MadeIs DEF Alters
<1> QED BY <1>1 DEF IdsOf

LEMMA ThenSetOut ==
  ASSUME NEW bs, Made(bs), NEW us, NEW b \in IdsOf(bs), NEW code, Listed(code), NEW o, NEW p,
         Alters(bs, us, b, code, o, 0)
  PROVE  Alters(bs, SetOut(us, b, p), b, code, p, 0)
<1>1. Made(us) /\ Len(us) = Len(bs) + 0 /\ b \in IdsOf(us) /\ Len(bs) \in Nat
  BY AlteredMade, MadeIs
<1>2. Alters(us, SetOut(us, b, p), b, us[b + 1].code, p, 0)
  BY <1>1, SetOutAlters
<1>3. us[b + 1].code = code
  BY DEF Alters
<1>4. Len(us) = Len(bs) /\ IdsOf(us) = IdsOf(bs)
  BY <1>1 DEF IdsOf
<1> HIDE DEF SetOut
<1>5. Listed(SetOut(us, b, p)) /\ Len(SetOut(us, b, p)) = Len(bs) + 0
      /\ IdsOf(SetOut(us, b, p)) = IdsOf(bs)
  BY <1>1, <1>2, <1>4 DEF Alters, IdsOf
<1> QED BY <1>2, <1>3, <1>4, <1>5 DEF Alters

LEMMA ThenNew ==
  ASSUME NEW bs, Made(bs), NEW us, NEW b \in IdsOf(bs), NEW code, NEW o, NEW n \in Nat,
         Alters(bs, us, b, code, o, 0)
  PROVE  Alters(bs, WithNew(us, n), b, code, o, n)
<1> DEFINE new == [i \in 1 .. n |-> EmptyBlock]
           ws  == WithNew(us, n)
<1>1. new \in Seq({EmptyBlock}) /\ Len(new) = n
  <2>1. \A i \in 1 .. n : new[i] \in {EmptyBlock}
    OBVIOUS
  <2>2. new \in [1 .. n -> {EmptyBlock}]
    BY <2>1
  <2> HIDE DEF new
  <2> QED BY <2>2
<1>2. Listed(new) /\ Listed(us) /\ Len(us) = Len(bs) + 0 /\ Len(bs) \in Nat
  <2>1. Listed(new)
    <3> HIDE DEF new
    <3> QED BY <1>1, ListedSeq
  <2>2. Listed(us) /\ Len(us) = Len(bs) + 0
    BY DEF Alters
  <2>3. Len(bs) \in Nat
    BY MadeIs
  <2> QED BY <2>1, <2>2, <2>3
<1>3. \A i \in 1 .. n : new[i] = EmptyBlock
  OBVIOUS
<1>4. ws = us \o new
  BY DEF WithNew
<1> HIDE DEF new, ws
<1>5. /\ Listed(ws) /\ Len(ws) = Len(bs) + n
      /\ \A i \in 1 .. Len(bs) : ws[i] = us[i]
      /\ \A i \in Len(bs) + 1 .. Len(bs) + n : ws[i] = new[i - Len(bs)]
  <2>1. Len(us) = Len(bs)
    BY <1>2
  <2>2. /\ Listed(us \o new) /\ Len(us \o new) = Len(us) + Len(new)
        /\ \A i \in 1 .. Len(us) : (us \o new)[i] = us[i]
        /\ \A i \in Len(us) + 1 .. Len(us) + Len(new) : (us \o new)[i] = new[i - Len(us)]
    BY <1>2, ListedJoin
  <2> QED BY <1>1, <1>4, <2>1, <2>2
<1>6. IdsOf(us) = IdsOf(bs)
  BY <1>2 DEF IdsOf
<1>7. \A x \in IdsOf(bs) : ws[x + 1] = us[x + 1]
  BY <1>2, <1>5, MadeIs
<1>8. ASSUME NEW x \in IdsOf(ws), x \notin IdsOf(bs) PROVE ws[x + 1] = EmptyBlock
  <2>1. x \in Int /\ Len(bs) <= x /\ x < Len(bs) + n
    BY <1>2, <1>5, <1>8 DEF IdsOf
  <2>2. x + 1 \in Len(bs) + 1 .. Len(bs) + n /\ (x + 1) - Len(bs) \in 1 .. n
    BY <2>1, <1>2
  <2> QED BY <2>2, <1>3, <1>5
<1>9. ws[b + 1] = [code |-> code, out |-> o]
  BY <1>7 DEF Alters
<1>10. \A x \in IdsOf(bs) : x # b => ws[x + 1] = bs[x + 1]
  BY <1>6, <1>7 DEF Alters
<1> QED BY <1>5, <1>8, <1>9, <1>10 DEF Alters, ws

-----------------------------------------------------------------------------
\* What the blocks mean: M gives every position in them, <<block, instruction>>,
\* the source machine it stands for.

Leads(m, k) == m = k \/ (Silent(m) /\ Enter(m) = k)

Flows(M, m, o, D) ==
  \/ o = NoFlow
  \/ o.t = "jmp" /\ o.true \in D /\ Leads(m, M[<<o.true, 1>>])
  \/ /\ o.t = "branch" /\ o.true \in D /\ o.false \in D
     /\ ~Silent(m) /\ Shows(m) = Take("branch", o.e)
     /\ Leads(After(m, TRUE), M[<<o.true, 1>>])
     /\ Leads(After(m, FALSE), M[<<o.false, 1>>])
  \/ o.t \in {"return", "exit"} /\ ~Silent(m) /\ Shows(m) = Take(o.t, o.e)

Evaluates(M, b, code, i) ==
  /\ ~Silent(M[<<b, i>>]) /\ Shows(M[<<b, i>>]) = code[i]
  /\ \A holds \in BOOLEAN : M[<<b, i + 1>>] = After(M[<<b, i>>], holds)

Means(M, bs, b) ==
  /\ \A i \in 1 .. Len(bs[b + 1].code) : Evaluates(M, b, bs[b + 1].code, i)
  /\ Flows(M, M[<<b, Len(bs[b + 1].code) + 1>>], bs[b + 1].out, IdsOf(bs))

Keeps(M, P, bs) ==
  \A x \in IdsOf(bs) : \A i \in 1 .. Len(bs[x + 1].code) + 1 : P[<<x, i>>] = M[<<x, i>>]

LEMMA FlowsKept ==
  ASSUME NEW bs, Made(bs), NEW M, NEW P, Keeps(M, P, bs), NEW m, NEW o, NEW D, NEW E,
         D \subseteq IdsOf(bs), D \subseteq E, Flows(M, m, o, D)
  PROVE  Flows(P, m, o, E)
<1>1. \A x \in D : P[<<x, 1>>] = M[<<x, 1>>]
  <2>1. \A x \in D : Len(bs[x + 1].code) \in Nat
    BY MadeIs, ListedIs
  <2>2. \A x \in D : 1 \in 1 .. Len(bs[x + 1].code) + 1
    BY <2>1
  <2> QED BY <2>2 DEF Keeps
<1>2. CASE o.t = "jmp" /\ o.true \in D /\ Leads(m, M[<<o.true, 1>>])
  BY <1>1, <1>2 DEF Flows
<1>3. CASE /\ o.t = "branch" /\ o.true \in D /\ o.false \in D
           /\ ~Silent(m) /\ Shows(m) = Take("branch", o.e)
           /\ Leads(After(m, TRUE), M[<<o.true, 1>>])
           /\ Leads(After(m, FALSE), M[<<o.false, 1>>])
  <2>1. P[<<o.true, 1>>] = M[<<o.true, 1>>] /\ P[<<o.false, 1>>] = M[<<o.false, 1>>]
    BY <1>1, <1>3
  <2> QED BY <1>3, <2>1 DEF Flows
<1>4. CASE o = NoFlow
  BY <1>4 DEF Flows
<1>5. CASE o.t \in {"return", "exit"} /\ ~Silent(m) /\ Shows(m) = Take(o.t, o.e)
  BY <1>5 DEF Flows
<1> QED BY <1>2, <1>3, <1>4, <1>5 DEF Flows

\* What is appended to a block's code, if anything, evaluates the machine
\* the block ended with.
Continued(M, P, b, old, code) ==
  \/ code = old
  \/ \E e : /\ code = Append(old, Eval(e))
            /\ ~Silent(M[<<b, Len(old) + 1>>])
            /\ Shows(M[<<b, Len(old) + 1>>]) = Eval(e)
            /\ \A holds \in BOOLEAN :
                 P[<<b, Len(old) + 2>>] = After(M[<<b, Len(old) + 1>>], holds)

LEMMA AlterMeans ==
  ASSUME NEW bs, Made(bs), NEW M, NEW P, Keeps(M, P, bs),
         \A x \in IdsOf(bs) : Means(M, bs, x),
         NEW b \in IdsOf(bs), NEW code, Listed(code), NEW o, NEW n \in Nat, NEW us,
         Alters(bs, us, b, code, o, n),
         Continued(M, P, b, bs[b + 1].code, code),
         Flows(P, P[<<b, Len(code) + 1>>], o, IdsOf(us))
  PROVE  \A x \in IdsOf(us) : Means(P, us, x)
<1>0. Made(us) /\ IdsOf(bs) \subseteq IdsOf(us)
  BY AlteredMade
<1>1. ASSUME NEW x \in IdsOf(bs), x # b PROVE Means(P, us, x)
  <2>1. us[x + 1] = bs[x + 1] /\ Means(M, bs, x)
    BY <1>0, <1>1 DEF Alters
  <2> DEFINE c == bs[x + 1].code
             l == Len(c)
  <2>2. Listed(c) /\ l \in Nat
    BY MadeIs, ListedIs
  <2>3. \A i \in 1 .. l + 1 : P[<<x, i>>] = M[<<x, i>>]
    BY DEF Keeps
  <2>4. ASSUME NEW i \in 1 .. l PROVE Evaluates(P, x, c, i)
    <3>1. i \in 1 .. l + 1 /\ i + 1 \in 1 .. l + 1
      BY <2>2
    <3>2. P[<<x, i>>] = M[<<x, i>>] /\ P[<<x, i + 1>>] = M[<<x, i + 1>>]
      <4> HIDE DEF l, c
      <4> QED BY <2>3, <3>1
    <3> QED BY <2>1, <3>2 DEF Means, Evaluates
  <2>5. P[<<x, l + 1>>] = M[<<x, l + 1>>]
    <3> HIDE DEF l
    <3> QED BY <2>2, <2>3
  <2>6. Flows(M, M[<<x, l + 1>>], bs[x + 1].out, IdsOf(bs))
    BY <2>1 DEF Means
  <2>7. Flows(P, P[<<x, l + 1>>], us[x + 1].out, IdsOf(us))
    <3> HIDE DEF l
    <3> QED BY <1>0, <2>1, <2>5, <2>6, FlowsKept
  <2> QED BY <2>1, <2>4, <2>7 DEF Means
<1>2. ASSUME NEW x \in IdsOf(us), x \notin IdsOf(bs) PROVE Means(P, us, x)
  <2>1. us[x + 1] = EmptyBlock
    BY <1>2 DEF Alters
  <2>2. us[x + 1].code = <<>> /\ us[x + 1].out = NoFlow
    BY <2>1, EmptyIs
  <2>3. \A i \in 1 .. Len(<<>>) : FALSE
    OBVIOUS
  <2> QED BY <2>2, <2>3 DEF Means, Flows
<1>3. Means(P, us, b)
  <2> DEFINE c == bs[b + 1].code
             l == Len(c)
  <2>1. Listed(c) /\ l \in Nat
    BY MadeIs, ListedIs
  <2>2. us[b + 1].code = code /\ us[b + 1].out = o
    BY DEF Alters
  <2>3. \A i \in 1 .. l + 1 : P[<<b, i>>] = M[<<b, i>>]
    BY DEF Keeps
  <2>4. ASSUME NEW i \in 1 .. l PROVE Evaluates(P, b, c, i)
    <3>1. i \in 1 .. l + 1 /\ i + 1 \in 1 .. l + 1
      BY <2>1
    <3>2. P[<<b, i>>] = M[<<b, i>>] /\ P[<<b, i + 1>>] = M[<<b, i + 1>>]
      <4> HIDE DEF l, c
      <4> QED BY <2>3, <3>1
    <3> QED BY <3>2 DEF Means, Evaluates
  <2>5. ASSUME NEW i \in 1 .. Len(code) PROVE Evaluates(P, b, code, i)
    <3>1. CASE code = c
      BY <2>4, <3>1
    <3>2. CASE code # c
      <4>1. PICK e : /\ code = Append(c, Eval(e))
                     /\ ~Silent(M[<<b, l + 1>>])
                     /\ Shows(M[<<b, l + 1>>]) = Eval(e)
                     /\ \A holds \in BOOLEAN : P[<<b, l + 2>>] = After(M[<<b, l + 1>>], holds)
        BY <3>2 DEF Continued
      <4> HIDE DEF c
      <4>2. /\ Len(code) = l + 1 /\ code[l + 1] = Eval(e)
            /\ \A j \in 1 .. l : code[j] = c[j]
        BY <2>1, <4>1, ListedAppend
      <4> HIDE DEF l
      <4>3. CASE i = l + 1
        <5>1. P[<<b, i>>] = M[<<b, i>>] /\ i + 1 = l + 2
          BY <2>1, <2>3, <4>3
        <5> QED BY <4>1, <4>2, <4>3, <5>1 DEF Evaluates
      <4>4. CASE i # l + 1
        <5>1. i \in 1 .. l
          BY <2>1, <4>2, <4>4
        <5>2. Evaluates(P, b, c, i) /\ code[i] = c[i]
          BY <2>4, <4>2, <5>1
        <5> QED BY <5>2 DEF Evaluates
      <4> QED BY <4>3, <4>4
    <3> QED BY <3>1, <3>2
  <2> QED BY <2>2, <2>5 DEF Means
<1> QED BY <1>1, <1>2, <1>3

-----------------------------------------------------------------------------
\* A stack.
Push(x, s) == <<x>> \o s
First(s)   == Head(s)

\* What the frames wait for.  The continuation ks[i] is what is left to
\* execute where frame i goes on, ks[i + 1] where it has ended.

Due(M, b, k) == M[<<b, 1>>] = Machine(k, FALSE)

\* An empty block that code for k is still to come to.
Waits(M, bs, b, k) == b \in IdsOf(bs) /\ bs[b + 1] = EmptyBlock /\ Due(M, b, k)

Open(fr) ==
  CASE fr.k \in {"true", "elseif"}   -> {fr.f, fr.outbl} \ {Nil}
    [] fr.k \in {"chain", "else"}    -> {fr.outbl} \ {Nil}
    [] fr.k \in {"while", "dowhile"} -> {fr.end}
    [] OTHER -> {}

IfMeans(fr, k, M, bs) ==
  /\ fr = IfFrame(fr.k, fr.st, fr.f, fr.outbl, fr.outblID)
  /\ fr.st \in Stmts /\ fr.st.k = "if"
  /\ fr.f \in IdsOf(bs) /\ fr.outbl # fr.f
  /\ fr.outbl # Nil => fr.outblID = fr.outbl /\ Waits(M, bs, fr.outbl, k)

Test(st) == [st EXCEPT !.k = "test"]

FrameMeans(fr, k, l, M, bs) ==
  CASE fr.k = "statements" -> /\ fr = Statements(fr.s) /\ Listed(fr.s)
                              /\ Elements(fr.s) \subseteq Stmts
                              /\ k = fr.s \o l
    [] fr.k \in {"true", "elseif"} -> /\ IfMeans(fr, l, M, bs) /\ k = l
                                      /\ fr.k = "true" => fr.outbl = Nil
                                      /\ Waits(M, bs, fr.f, Chosen(fr.st, FALSE) \o l)
    [] fr.k = "chain" -> IfMeans(fr, l, M, bs) /\ k = Chosen(fr.st, FALSE) \o l
    [] fr.k = "else"  -> IfMeans(fr, l, M, bs) /\ k = l
    [] fr.k = "while" -> /\ \E st \in Stmts : st.k = "while" /\ st.e = fr.e /\ k = Push(st, l)
                         /\ fr.start \in IdsOf(bs) /\ Due(M, fr.start, k)
                         /\ Waits(M, bs, fr.end, l)
    [] fr.k = "dowhile" -> /\ \E st \in Stmts : /\ st.k = "dowhile" /\ st.e = fr.e
                                                /\ k = Push(Test(st), l)
                                                /\ Due(M, fr.start, st.body \o k)
                           /\ fr.start \in IdsOf(bs)
                           /\ Waits(M, bs, fr.end, l)
    [] OTHER -> FALSE

\* Statements and what handles one of them take turns; only the top of the
\* stack is on its way along a chain.
Below(fr, w) ==
  w # <<>> => /\ fr.k = "statements" <=> First(w).k # "statements"
              /\ First(w).k # "chain"

OpenOf(w) == UNION {Open(w[i]) : i \in 1 .. Len(w)}

Stack(w, ks, M, bs) ==
  /\ Listed(w) /\ Listed(ks) /\ Len(ks) = Len(w) + 1
  /\ ks[Len(w) + 1] = <<>>
  /\ \A i \in 1 .. Len(w) + 1 : Listed(ks[i])
  /\ \A i \in 1 .. Len(w) : FrameMeans(w[i], ks[i], ks[i + 1], M, bs)
  /\ \A i, j \in 1 .. Len(w) : i # j => Open(w[i]) \cap Open(w[j]) = {}
  /\ \A i \in 1 .. Len(w) - 1 : /\ w[i].k = "statements" <=> w[i + 1].k # "statements"
                                /\ w[i + 1].k # "chain"

LEMMA StackIs ==
  ASSUME NEW w, NEW ks, NEW M, NEW bs, Stack(w, ks, M, bs)
  PROVE  /\ Listed(w) /\ Listed(ks) /\ Len(w) \in Nat /\ Len(ks) = Len(w) + 1
         /\ w = <<>> <=> Len(w) = 0
         /\ Listed(ks[1]) /\ (w = <<>> => ks[1] = <<>>) /\ ks # <<>>
<1>1. Listed(w) /\ Listed(ks) /\ Len(w) \in Nat /\ Len(ks) = Len(w) + 1 /\ (w = <<>> <=> Len(w) = 0)
  BY ListedIs DEF Stack
<1>2. 1 \in 1 .. Len(w) + 1
  BY <1>1
<1>3. ks # <<>>
  BY <1>1, ListedIs
<1> QED BY <1>1, <1>2, <1>3 DEF Stack

LEMMA StackPop ==
  ASSUME NEW w, NEW ks, NEW M, NEW bs, Stack(w, ks, M, bs), w # <<>>
  PROVE  \E ls :
         /\ Stack(Tail(w), ls, M, bs)
         /\ FrameMeans(First(w), ks[1], ls[1], M, bs)
         /\ Listed(ks[1]) /\ Listed(ls[1])
         /\ OpenOf(w) = Open(First(w)) \cup OpenOf(Tail(w))
         /\ Open(First(w)) \cap OpenOf(Tail(w)) = {}
         /\ Below(First(w), Tail(w))
<1> DEFINE v == Tail(w)
           ls == Tail(ks)
           n == Len(v)
<1>1. /\ Listed(v) /\ n \in Nat /\ Len(w) = n + 1 /\ Head(w) = w[1]
      /\ \A i \in 1 .. n : v[i] = w[i + 1]
  <2>1. Listed(w)
    BY DEF Stack
  <2>2. Listed(v) /\ Len(v) = Len(w) - 1 /\ (\A i \in 1 .. Len(w) - 1 : v[i] = w[i + 1]) /\ Head(w) = w[1]
    BY <2>1, ListedTail
  <2>3. Len(w) \in Nat /\ n \in Nat
    BY <2>1, <2>2, ListedIs
  <2>4. Len(w) = n + 1 /\ Len(w) - 1 = n
    BY <2>2, <2>3
  <2> QED BY <2>2, <2>3, <2>4
<1>2. ks # <<>> /\ Listed(ks)
  BY StackIs
<1>3. /\ Listed(ls) /\ Len(ls) = n + 1
      /\ \A i \in 1 .. n + 1 : ls[i] = ks[i + 1]
  <2>1. Len(ks) = Len(w) + 1
    BY StackIs
  <2>2. Listed(ls) /\ Len(ls) = Len(ks) - 1 /\ \A i \in 1 .. Len(ks) - 1 : ls[i] = ks[i + 1]
    BY <1>2, ListedTail
  <2> HIDE DEF ls, n, v
  <2> QED BY <1>1, <2>1, <2>2
<1> HIDE DEF v, ls, n
<1>4. \A i \in 1 .. n + 1 : i + 1 \in 1 .. Len(w) + 1 /\ ls[i] = ks[i + 1]
  BY <1>1, <1>3
<1>5. \A i \in 1 .. n : /\ i + 1 \in 1 .. Len(w) /\ v[i] = w[i + 1] /\ i + 1 \in 1 .. n + 1
                        /\ ls[i] = ks[i + 1] /\ ls[i + 1] = ks[(i + 1) + 1]
  BY <1>1, <1>3
<1>6. 1 \in 1 .. Len(w) /\ 1 \in 1 .. Len(w) + 1 /\ 2 \in 1 .. Len(w) + 1 /\ 1 \in 1 .. n + 1
      /\ n + 1 \in 1 .. n + 1
  BY <1>1
<1>7. /\ FrameMeans(Head(w), ks[1], ks[2], M, bs)
      /\ ls[1] = ks[2] /\ Listed(ks[1]) /\ Listed(ks[2])
  <2>1. 1 + 1 = 2
    OBVIOUS
  <2> QED BY <1>1, <1>4, <1>6, <2>1 DEF Stack
<1>8. Stack(v, ls, M, bs)
  <2>1. ls[n + 1] = <<>>
    <3>1. ls[n + 1] = ks[(n + 1) + 1]
      BY <1>4, <1>6
    <3> QED BY <1>1, <3>1 DEF Stack
  <2>2. \A i \in 1 .. n + 1 : Listed(ls[i])
    BY <1>4 DEF Stack
  <2>3. \A i \in 1 .. n : FrameMeans(v[i], ls[i], ls[i + 1], M, bs)
    BY <1>5 DEF Stack
  <2>4. \A i, j \in 1 .. n : i # j => Open(v[i]) \cap Open(v[j]) = {}
    <3>1. \A i, j \in 1 .. n : i # j => i + 1 # j + 1
      BY <1>1
    <3> QED BY <3>1, <1>5 DEF Stack
  <2>5. \A i \in 1 .. n - 1 : /\ v[i].k = "statements" <=> v[i + 1].k # "statements"
                              /\ v[i + 1].k # "chain"
    <3>1. \A i \in 1 .. n - 1 : i \in 1 .. n /\ i + 1 \in 1 .. n /\ i + 1 \in 1 .. Len(w) - 1
      BY <1>1
    <3> QED BY <3>1, <1>5 DEF Stack
  <2> QED BY <1>1, <1>3, <2>1, <2>2, <2>3, <2>4, <2>5 DEF Stack, n
<1>9. OpenOf(w) = Open(Head(w)) \cup OpenOf(v)
  <2>1. \A i \in 1 .. Len(w) : i = 1 \/ (i - 1 \in 1 .. n /\ w[i] = v[i - 1])
    BY <1>1
  <2>2. OpenOf(w) \subseteq Open(Head(w)) \cup OpenOf(v)
    <3>1. SUFFICES ASSUME NEW x, NEW i \in 1 .. Len(w), x \in Open(w[i])
                   PROVE x \in Open(Head(w)) \cup OpenOf(v)
      BY DEF OpenOf
    <3>2. CASE i = 1
      BY <1>1, <3>1, <3>2
    <3>3. CASE i - 1 \in 1 .. n /\ w[i] = v[i - 1]
      BY <3>1, <3>3 DEF OpenOf, n
    <3> QED BY <2>1, <3>2, <3>3
  <2>3. Open(Head(w)) \subseteq OpenOf(w)
    BY <1>1, <1>6 DEF OpenOf
  <2>4. OpenOf(v) \subseteq OpenOf(w)
    <3>1. SUFFICES ASSUME NEW x, NEW i \in 1 .. n, x \in Open(v[i]) PROVE x \in OpenOf(w)
      BY DEF OpenOf, n
    <3> QED BY <1>5, <3>1 DEF OpenOf
  <2> QED BY <2>2, <2>3, <2>4
<1>10. Open(Head(w)) \cap OpenOf(v) = {}
  <2>1. SUFFICES ASSUME NEW x, NEW i \in 1 .. n, x \in Open(v[i]), x \in Open(w[1]) PROVE FALSE
    BY <1>1 DEF OpenOf, n
  <2>2. i + 1 \in 1 .. Len(w) /\ i + 1 # 1 /\ v[i] = w[i + 1]
    BY <1>1, <1>5
  <2> QED BY <1>6, <2>1, <2>2 DEF Stack
<1>11. Below(Head(w), v)
  <2>1. SUFFICES ASSUME v # <<>> PROVE /\ w[1].k = "statements" <=> Head(v).k # "statements"
                                       /\ Head(v).k # "chain"
    BY <1>1 DEF Below, First
  <2>2. Head(v) = v[1] /\ n # 0
    BY <1>1, <2>1, ListedTail, ListedIs DEF n
  <2>3. 1 \in 1 .. n /\ 1 \in 1 .. Len(w) - 1 /\ v[1] = w[1 + 1]
    BY <1>1, <1>5, <2>2
  <2> QED BY <2>2, <2>3 DEF Stack
<1>12. First(w) = Head(w)
  BY DEF First
<1>13. Stack(Tail(w), ls, M, bs)
  BY <1>8 DEF v
<1>14. FrameMeans(First(w), ks[1], ls[1], M, bs) /\ Listed(ks[1]) /\ Listed(ls[1])
  BY <1>7, <1>12
<1>15. OpenOf(w) = Open(First(w)) \cup OpenOf(Tail(w)) /\ Open(First(w)) \cap OpenOf(Tail(w)) = {}
       /\ Below(First(w), Tail(w))
  BY <1>9, <1>10, <1>11, <1>12 DEF v
<1> QED BY <1>13, <1>14, <1>15

LEMMA StackPush ==
  ASSUME NEW w, NEW ks, NEW M, NEW bs, Stack(w, ks, M, bs), NEW fr, NEW k, Listed(k),
         FrameMeans(fr, k, ks[1], M, bs), Open(fr) \cap OpenOf(w) = {}, Below(fr, w)
  PROVE  \E ls :
         /\ Stack(Push(fr, w), ls, M, bs)
         /\ ls[1] = k
         /\ OpenOf(Push(fr, w)) = Open(fr) \cup OpenOf(w)
         /\ Push(fr, w) # <<>> /\ First(Push(fr, w)) = fr
<1> DEFINE v == <<fr>> \o w
           ls == <<k>> \o ks
           n == Len(w)
<1>1. Listed(w) /\ Listed(ks) /\ n \in Nat /\ Len(ks) = n + 1 /\ Listed(ks[1])
  BY StackIs
<1>2. /\ Listed(v) /\ Len(v) = n + 1 /\ v[1] = fr
      /\ \A i \in 1 .. n : v[i + 1] = w[i]
      /\ Head(v) = fr /\ Tail(v) = w
  BY <1>1, ListedPush
<1>3. /\ Listed(ls) /\ Len(ls) = (n + 1) + 1 /\ ls[1] = k
      /\ \A i \in 1 .. n + 1 : ls[i + 1] = ks[i]
  BY <1>1, ListedPush
<1> HIDE DEF v, ls, n
<1>4. \A i \in 1 .. n + 1 : i = 1 \/ (i - 1 \in 1 .. n /\ i - 1 \in 1 .. n + 1 /\ v[i] = w[i - 1]
                                    /\ ls[i] = ks[i - 1] /\ ls[i + 1] = ks[(i - 1) + 1])
  <2>1. SUFFICES ASSUME NEW i \in 1 .. n + 1, i # 1
                 PROVE /\ i - 1 \in 1 .. n /\ i - 1 \in 1 .. n + 1 /\ v[i] = w[i - 1]
                       /\ ls[i] = ks[i - 1] /\ ls[i + 1] = ks[(i - 1) + 1]
    OBVIOUS
  <2>2. i - 1 \in 1 .. n /\ i - 1 \in 1 .. n + 1 /\ (i - 1) + 1 = i /\ i \in 1 .. n + 1
    BY <1>1, <2>1
  <2> QED BY <1>2, <1>3, <2>2
<1>5. OpenOf(v) = Open(fr) \cup OpenOf(w)
  <2>1. OpenOf(v) \subseteq Open(fr) \cup OpenOf(w)
    <3>1. SUFFICES ASSUME NEW x, NEW i \in 1 .. n + 1, x \in Open(v[i])
                   PROVE x \in Open(fr) \cup OpenOf(w)
      BY <1>2 DEF OpenOf
    <3>2. CASE i = 1
      BY <1>2, <3>1, <3>2
    <3>3. CASE i # 1
      BY <1>4, <3>1, <3>3 DEF OpenOf, n
    <3> QED BY <3>2, <3>3
  <2>2. Open(fr) \subseteq OpenOf(v)
    <3>1. 1 \in 1 .. Len(v) /\ Open(v[1]) = Open(fr)
      BY <1>1, <1>2
    <3>2. Open(v[1]) \subseteq UNION {Open(v[i]) : i \in 1 .. Len(v)}
      BY <3>1
    <3> QED BY <3>1, <3>2 DEF OpenOf
  <2>3. OpenOf(w) \subseteq OpenOf(v)
    <3>1. ASSUME NEW x, NEW i \in 1 .. n, x \in Open(w[i]) PROVE x \in OpenOf(v)
      <4>1. i + 1 \in 1 .. Len(v) /\ x \in Open(v[i + 1])
        BY <1>1, <1>2, <3>1
      <4> QED BY <4>1 DEF OpenOf
    <3>2. ASSUME NEW x \in OpenOf(w) PROVE \E i \in 1 .. n : x \in Open(w[i])
      BY DEF OpenOf, n
    <3> QED BY <3>1, <3>2
  <2> QED BY <2>1, <2>2, <2>3
<1>6. Stack(v, ls, M, bs)
  <2>1. ls[(n + 1) + 1] = <<>>
    <3>1. n + 1 \in 1 .. n + 1
      BY <1>1
    <3> QED BY <1>3, <3>1 DEF Stack, n
  <2>2. ASSUME NEW i \in 1 .. (n + 1) + 1 PROVE Listed(ls[i])
    <3>1. i = 1 \/ (i - 1 \in 1 .. n + 1 /\ (i - 1) + 1 = i)
      BY <1>1
    <3>2. CASE i = 1
      BY <1>3, <3>2
    <3>3. CASE i # 1
      <4>1. ls[i] = ks[i - 1] /\ i - 1 \in 1 .. n + 1
        BY <1>3, <3>1, <3>3
      <4> QED BY <4>1 DEF Stack, n
    <3> QED BY <3>2, <3>3
  <2>3. ASSUME NEW i \in 1 .. n + 1 PROVE FrameMeans(v[i], ls[i], ls[i + 1], M, bs)
    <3>1. CASE i = 1
      <4>1. ls[1 + 1] = ks[1]
        <5>1. 1 \in 1 .. n + 1
          BY <1>1
        <5> QED BY <1>3, <5>1
      <4> QED BY <1>2, <1>3, <3>1, <4>1
    <3>2. CASE i # 1
      BY <1>4, <3>2 DEF Stack, n
    <3> QED BY <3>1, <3>2
  <2>4. ASSUME NEW i \in 1 .. n + 1, NEW j \in 1 .. n + 1, i # j
        PROVE Open(v[i]) \cap Open(v[j]) = {}
    <3>1. \A x \in 1 .. n + 1 : x # 1 => Open(v[x]) \subseteq OpenOf(w)
      BY <1>4 DEF OpenOf, n
    <3>2. CASE i = 1
      <4>1. j # 1
        BY <2>4, <3>2
      <4> QED BY <1>2, <3>1, <3>2, <4>1
    <3>3. CASE j = 1
      <4>1. i # 1
        BY <2>4, <3>3
      <4> QED BY <1>2, <3>1, <3>3, <4>1
    <3>4. CASE i # 1 /\ j # 1
      <4>1. i - 1 \in 1 .. n /\ j - 1 \in 1 .. n /\ i - 1 # j - 1
            /\ v[i] = w[i - 1] /\ v[j] = w[j - 1]
        BY <1>1, <1>4, <2>4, <3>4
      <4> QED BY <4>1 DEF Stack, n
    <3> QED BY <3>2, <3>3, <3>4
  <2>5. ASSUME NEW i \in 1 .. (n + 1) - 1
        PROVE /\ v[i].k = "statements" <=> v[i + 1].k # "statements"
              /\ v[i + 1].k # "chain"
    <3>1. i \in 1 .. n /\ v[i + 1] = w[i]
      BY <1>1, <1>2
    <3>2. CASE i = 1
      <4>1. n # 0 /\ w # <<>>
        BY <1>1, <3>1, ListedIs DEF n
      <4>2. First(w) = w[1]
        BY <1>1, <4>1, ListedTail DEF First
      <4> QED BY <1>2, <3>1, <3>2, <4>1, <4>2 DEF Below
    <3>3. CASE i # 1
      <4>1. i - 1 \in 1 .. n - 1 /\ (i - 1) + 1 = i /\ i \in 1 .. n + 1
        BY <1>1, <3>1, <3>3
      <4> QED BY <1>4, <3>1, <3>3, <4>1 DEF Stack, n
    <3> QED BY <3>2, <3>3
  <2> QED BY <1>2, <1>3, <2>1, <2>2, <2>3, <2>4, <2>5 DEF Stack
<1>7. v # <<>>
  BY <1>1, <1>2, ListedIs
<1>8. v = Push(fr, w) /\ First(v) = fr
  BY <1>2 DEF Push, First, v
<1> QED BY <1>3, <1>5, <1>6, <1>7, <1>8


\* Blocks that are not open can change, and new ones be made.
LEMMA KeepsDue ==
  ASSUME NEW bs, Made(bs), NEW M, NEW P, Keeps(M, P, bs), NEW b \in IdsOf(bs)
  PROVE  P[<<b, 1>>] = M[<<b, 1>>]
<1>1. Len(bs[b + 1].code) \in Nat
  BY MadeIs, ListedIs
<1>2. 1 \in 1 .. Len(bs[b + 1].code) + 1
  BY <1>1
<1> QED BY <1>2 DEF Keeps

LEMMA FrameKept ==
  ASSUME NEW fr, NEW k, NEW l, NEW M, NEW bs, FrameMeans(fr, k, l, M, bs), Made(bs),
         NEW P, Keeps(M, P, bs), NEW us, IdsOf(bs) \subseteq IdsOf(us),
         \A b \in Open(fr) : us[b + 1] = bs[b + 1]
  PROVE  FrameMeans(fr, k, l, P, us)
<1>1. \A b \in IdsOf(bs) : P[<<b, 1>>] = M[<<b, 1>>]
  BY KeepsDue
<1>2. \A b, x : Waits(M, bs, b, x) /\ b \in Open(fr) => Waits(P, us, b, x)
  BY <1>1 DEF Waits, Due
<1>3. \A x : IfMeans(fr, x, M, bs) /\ (fr.outbl # Nil => fr.outbl \in Open(fr)) => IfMeans(fr, x, P, us)
  BY <1>2 DEF IfMeans
<1>4. CASE fr.k = "statements"
  BY <1>4 DEF FrameMeans
<1>5. CASE fr.k \in {"true", "elseif"}
  <2>1. fr.f \in Open(fr) /\ (fr.outbl # Nil => fr.outbl \in Open(fr))
    <3>1. fr.f # Nil
      <4>1. fr.f \in IdsOf(bs)
        BY <1>5 DEF FrameMeans, IfMeans
      <4> QED BY <4>1, MadeIs DEF Nil
    <3>2. Open(fr) = {fr.f, fr.outbl} \ {Nil}
      BY <1>5 DEF Open
    <3> QED BY <3>1, <3>2
  <2> QED BY <1>2, <1>3, <1>5, <2>1 DEF FrameMeans
<1>6. CASE fr.k \in {"chain", "else"}
  <2>1. Open(fr) = {fr.outbl} \ {Nil}
    BY <1>6 DEF Open
  <2> QED BY <1>3, <1>6, <2>1 DEF FrameMeans
<1>7. CASE fr.k = "while"
  <2>1. Open(fr) = {fr.end}
    BY <1>7 DEF Open
  <2> QED BY <1>1, <1>2, <1>7, <2>1 DEF FrameMeans, Due
<1>8. CASE fr.k = "dowhile"
  <2>1. Open(fr) = {fr.end}
    BY <1>8 DEF Open
  <2> QED BY <1>1, <1>2, <1>8, <2>1 DEF FrameMeans, Due
<1>9. fr.k \in {"statements", "true", "elseif", "chain", "else", "while", "dowhile"}
  BY DEF FrameMeans
<1> QED BY <1>4, <1>5, <1>6, <1>7, <1>8, <1>9

LEMMA StackKept ==
  ASSUME NEW w, NEW ks, NEW M, NEW bs, Stack(w, ks, M, bs), Made(bs),
         NEW P, Keeps(M, P, bs), NEW us, IdsOf(bs) \subseteq IdsOf(us),
         \A b \in OpenOf(w) : us[b + 1] = bs[b + 1]
  PROVE  Stack(w, ks, P, us)
<1>1. ASSUME NEW i \in 1 .. Len(w) PROVE FrameMeans(w[i], ks[i], ks[i + 1], P, us)
  <2>1. FrameMeans(w[i], ks[i], ks[i + 1], M, bs)
    BY DEF Stack
  <2>2. \A b \in Open(w[i]) : us[b + 1] = bs[b + 1]
    BY DEF OpenOf
  <2> QED BY <2>1, <2>2, FrameKept
<1> QED BY <1>1 DEF Stack

LEMMA OpenEmpty ==
  ASSUME NEW w, NEW ks, NEW M, NEW bs, Stack(w, ks, M, bs), NEW b \in OpenOf(w)
  PROVE  b \in IdsOf(bs) /\ bs[b + 1] = EmptyBlock
<1>1. PICK i \in 1 .. Len(w) : b \in Open(w[i])
  BY DEF OpenOf
<1>2. FrameMeans(w[i], ks[i], ks[i + 1], M, bs)
  BY DEF Stack
<1> DEFINE fr == w[i]
<1> HIDE DEF fr
<1>3. FrameMeans(fr, ks[i], ks[i + 1], M, bs) /\ b \in Open(fr)
  BY <1>1, <1>2 DEF fr
<1>4. \A l : IfMeans(fr, l, M, bs) /\ fr.outbl # Nil => \E x : Waits(M, bs, fr.outbl, x)
  BY DEF IfMeans
<1>5. \E x : Waits(M, bs, b, x)
  <2>1. CASE fr.k \in {"true", "elseif"}
    BY <1>3, <1>4, <2>1 DEF Open, FrameMeans
  <2>2. CASE fr.k \in {"chain", "else"}
    BY <1>3, <1>4, <2>2 DEF Open, FrameMeans
  <2>3. CASE fr.k \in {"while", "dowhile"}
    BY <1>3, <2>3 DEF Open, FrameMeans
  <2> QED BY <1>3, <2>1, <2>2, <2>3 DEF Open
<1> QED BY <1>5 DEF Waits

-----------------------------------------------------------------------------
\* Machines.

LEMMA NextStatement ==
  ASSUME NEW s, NEW k, Listed(s), Listed(k), s # <<>>
  PROVE  /\ s \o k = Push(Head(s), Tail(s) \o k)
         /\ Listed(Tail(s)) /\ Listed(Tail(s) \o k) /\ Listed(s \o k)
<1>1. Listed(Tail(s)) /\ s = <<Head(s)>> \o Tail(s)
  BY ListedTail
<1>2. Listed(<<Head(s)>>)
  BY ListedOne
<1>3. (<<Head(s)>> \o Tail(s)) \o k = <<Head(s)>> \o (Tail(s) \o k)
  BY <1>1, <1>2, JoinAssociative
<1> QED BY <1>1, <1>3, ListedJoin DEF Push

LEMMA MachineAt ==
  ASSUME NEW st, NEW k, Listed(k), NEW v \in BOOLEAN
  PROVE  /\ Silent(Machine(Push(st, k), v)) <=> st.k = "dowhile"
         /\ Shows(Machine(Push(st, k), FALSE)) = Eval(st.e)
         /\ Shows(Machine(Push(st, k), TRUE))
              = Take(IF Branching(st) THEN "branch" ELSE st.k, st.e)
         /\ st.k = "do" => \A holds \in BOOLEAN :
              After(Machine(Push(st, k), FALSE), holds) = Machine(k, FALSE)
         /\ st.k # "do" => \A holds \in BOOLEAN :
              /\ After(Machine(Push(st, k), FALSE), holds) = Machine(Push(st, k), TRUE)
              /\ Branching(st) => After(Machine(Push(st, k), TRUE), holds)
                                    = Machine(Chosen(st, holds) \o k, FALSE)
<1> DEFINE r == Push(st, k)
<1>1. r # <<>> /\ Head(r) = st /\ Tail(r) = k
  <2>1. Len(r) = Len(k) + 1 /\ Head(r) = st /\ Tail(r) = k /\ Listed(r) /\ Len(k) \in Nat
    BY ListedPush, ListedIs DEF Push
  <2> HIDE DEF r
  <2>2. Len(r) # 0
    BY <2>1
  <2> QED BY <2>1, <2>2, ListedIs
<1>2. <<>> \o k = k
  BY JoinEmpty
<1> HIDE DEF r
<1>3. \A x \in BOOLEAN : Machine(r, x).rest = r /\ Machine(r, x).evaluated = x
  BY DEF Machine
<1>4. Silent(Machine(r, v)) <=> st.k = "dowhile"
  BY <1>1, <1>3 DEF Silent
<1>5. Shows(Machine(r, FALSE)) = Eval(st.e)
  BY <1>1, <1>3 DEF Shows
<1>6. Shows(Machine(r, TRUE)) = Take(IF Branching(st) THEN "branch" ELSE st.k, st.e)
  BY <1>1, <1>3 DEF Shows
<1>7. ASSUME st.k = "do", NEW holds \in BOOLEAN
      PROVE  After(Machine(r, FALSE), holds) = Machine(k, FALSE)
  BY <1>1, <1>2, <1>3, <1>7 DEF After, Branching
<1>8. ASSUME st.k # "do", NEW holds \in BOOLEAN
      PROVE  /\ After(Machine(r, FALSE), holds) = Machine(r, TRUE)
             /\ Branching(st) => After(Machine(r, TRUE), holds)
                                   = Machine(Chosen(st, holds) \o k, FALSE)
  BY <1>1, <1>3, <1>8 DEF After
<1> QED BY <1>4, <1>5, <1>6, <1>7, <1>8 DEF r

\* A position for every new instruction: one more of block c, the first of
\* three new blocks, and a second of the first of them.
Extension(M, bs, c, x, y, y1, y2, z) ==
  LET n == Len(bs)
      l == Len(bs[c + 1].code)
      V(b, i) == IF b = c /\ i = l + 2 THEN x
                 ELSE IF b = n /\ i = 1 THEN y
                 ELSE IF b = n + 1 THEN y1
                 ELSE IF b = n + 2 THEN y2
                 ELSE IF b = n /\ i = 2 THEN z ELSE M[<<b, i>>]
  IN [p \in Nat \X Nat |-> V(p[1], p[2])]

Extends(P, M, bs, c, x, y, y1, y2, z) ==
  /\ Keeps(M, P, bs)
  /\ P[<<c, Len(bs[c + 1].code) + 2>>] = x
  /\ P[<<Len(bs), 1>>] = y /\ P[<<Len(bs) + 1, 1>>] = y1
  /\ P[<<Len(bs) + 2, 1>>] = y2 /\ P[<<Len(bs), 2>>] = z

LEMMA Extended ==
  ASSUME NEW bs, Made(bs), NEW c \in IdsOf(bs), NEW M,
         NEW x, NEW y, NEW y1, NEW y2, NEW z
  PROVE  Extends(Extension(M, bs, c, x, y, y1, y2, z), M, bs, c, x, y, y1, y2, z)
<1> DEFINE n == Len(bs)
           l == Len(bs[c + 1].code)
           V(b, i) == IF b = c /\ i = l + 2 THEN x
                      ELSE IF b = n /\ i = 1 THEN y
                      ELSE IF b = n + 1 THEN y1
                      ELSE IF b = n + 2 THEN y2
                      ELSE IF b = n /\ i = 2 THEN z ELSE M[<<b, i>>]
           P == Extension(M, bs, c, x, y, y1, y2, z)
<1>1. n \in Nat /\ c \in Nat /\ c < n /\ l \in Nat
  BY MadeIs, ListedIs
<1>2. \A b, i \in Nat : P[<<b, i>>] = V(b, i)
  BY DEF Extension
<1> HIDE DEF P
<1>3. ASSUME NEW b \in IdsOf(bs), NEW i \in 1 .. Len(bs[b + 1].code) + 1
      PROVE  P[<<b, i>>] = M[<<b, i>>]
  <2>1. b \in Nat /\ b < n /\ Len(bs[b + 1].code) \in Nat
    BY <1>1, MadeIs, ListedIs
  <2>2. i \in Nat
    BY <2>1
  <2>3. b # n /\ b # n + 1 /\ b # n + 2
    BY <1>1, <2>1
  <2>4. b = c => i # l + 2
    <3> SUFFICES ASSUME b = c PROVE i # l + 2
      OBVIOUS
    <3>1. i \in 1 .. l + 1
      OBVIOUS
    <3> HIDE DEF l
    <3> QED BY <1>1, <3>1
  <2> HIDE DEF n, l
  <2> QED BY <1>2, <2>1, <2>2, <2>3, <2>4
<1>4. P[<<c, l + 2>>] = x /\ P[<<n, 1>>] = y /\ P[<<n + 1, 1>>] = y1 /\ P[<<n + 2, 1>>] = y2
      /\ P[<<n, 2>>] = z
  <2> HIDE DEF n, l
  <2>1. l + 2 \in Nat /\ n + 1 \in Nat /\ n + 2 \in Nat /\ n # c /\ n + 1 # c /\ n + 2 # c
        /\ n + 1 # n /\ n + 2 # n /\ n + 2 # n + 1
    BY <1>1
  <2> QED BY <1>1, <1>2, <2>1
<1>5. Keeps(M, P, bs)
  BY <1>3 DEF Keeps
<1> QED BY <1>4, <1>5 DEF Extends, P


-----------------------------------------------------------------------------
\* While the generator runs: every block does what its positions stand for,
\* and where the code to come is due is where control is, or an open block.

Gen(M, ks, w, bs, c) ==
  /\ Stack(w, ks, M, bs) /\ Made(bs) /\ 0 \in IdsOf(bs)
  /\ \A x \in IdsOf(bs) : Means(M, bs, x)
  /\ c \in IdsOf(bs) \cup {Nil} /\ c \notin OpenOf(w)
  /\ \A b \in IdsOf(bs) : bs[b + 1].out = NoFlow => b = c \/ b \in OpenOf(w)
  /\ c # Nil /\ bs[c + 1].out = NoFlow =>
       M[<<c, Len(bs[c + 1].code) + 1>>] = Machine(ks[1], FALSE)
  /\ w # <<>> /\ First(w).k \in {"statements", "chain"} /\ c # Nil => bs[c + 1].out = NoFlow
  /\ w # <<>> /\ First(w).k = "chain" => c # Nil

GenAgain(M) ==
  \E P, ls : Gen(P, ls, work', blocks', curr') /\ P[<<0, 1>>] = M[<<0, 1>>]

\* The block that control is in is given a flow, or more code, and frames
\* are left.
Fills(M, P, w, v, ls, bs, c, us, code, o, n) ==
  /\ c # Nil /\ Stack(v, ls, M, bs) /\ OpenOf(v) \subseteq OpenOf(w)
  /\ Keeps(M, P, bs) /\ Listed(code) /\ n \in Nat
  /\ Alters(bs, us, c, code, o, n)
  /\ Continued(M, P, c, bs[c + 1].code, code)
  /\ Flows(P, P[<<c, Len(code) + 1>>], o, IdsOf(us))

Full(M, P, w, v, ls, bs, c, us, code, o) ==
  /\ Made(us)
  /\ c \in IdsOf(bs) /\ IdsOf(bs) \subseteq IdsOf(us) /\ 0 \in IdsOf(us)
  /\ \A x \in IdsOf(us) : Means(P, us, x)
  /\ Stack(v, ls, P, us)
  /\ \A b \in OpenOf(w) : b # c /\ b \in IdsOf(bs) /\ us[b + 1] = EmptyBlock
  /\ us[c + 1] = [code |-> code, out |-> o]
  /\ \A b \in IdsOf(us) : us[b + 1].out = NoFlow =>
       (b = c /\ o = NoFlow) \/ b \in OpenOf(w) \/ b \notin IdsOf(bs)
  /\ \A b \in IdsOf(us) : b \notin IdsOf(bs) => us[b + 1] = EmptyBlock
  /\ P[<<0, 1>>] = M[<<0, 1>>]

LEMMA Filled ==
  ASSUME NEW M, NEW ks, NEW w, NEW bs, NEW c, Gen(M, ks, w, bs, c),
         NEW P, NEW v, NEW ls, NEW us, NEW code, NEW o, NEW n,
         Fills(M, P, w, v, ls, bs, c, us, code, o, n)
  PROVE  Full(M, P, w, v, ls, bs, c, us, code, o)
<1> USE DEF Fills
<1>1. c \in IdsOf(bs) /\ Made(bs) /\ Len(bs) \in Nat /\ 0 \in IdsOf(bs)
      /\ Stack(w, ks, M, bs) /\ \A x \in IdsOf(bs) : Means(M, bs, x)
  BY MadeIs DEF Gen
<1>2. /\ Made(us) /\ Len(us) = Len(bs) + n /\ IdsOf(bs) \subseteq IdsOf(us)
      /\ \A x : x \in IdsOf(us) <=> x \in IdsOf(bs) \/ (x \in Int /\ Len(bs) <= x /\ x < Len(bs) + n)
  BY <1>1, AlteredMade
<1>3. \A x \in IdsOf(us) : Means(P, us, x)
  BY <1>1, AlterMeans
<1>4. us[c + 1] = [code |-> code, out |-> o]
      /\ \A x \in IdsOf(us) : x # c => us[x + 1] = IF x \in IdsOf(bs) THEN bs[x + 1] ELSE EmptyBlock
  BY DEF Alters
<1>5. \A b \in OpenOf(w) : b # c /\ b \in IdsOf(bs) /\ us[b + 1] = bs[b + 1] /\ bs[b + 1] = EmptyBlock
  <2>1. ASSUME NEW b \in OpenOf(w)
        PROVE  b # c /\ b \in IdsOf(bs) /\ us[b + 1] = bs[b + 1] /\ bs[b + 1] = EmptyBlock
    <3>1. b \in IdsOf(bs) /\ bs[b + 1] = EmptyBlock
      BY <1>1, OpenEmpty
    <3>2. b # c
      BY DEF Gen
    <3> QED BY <1>2, <1>4, <3>1, <3>2
  <2> QED BY <2>1
<1>6. Stack(v, ls, P, us)
  BY <1>1, <1>2, <1>5, StackKept
<1>7. \A b \in IdsOf(us) : us[b + 1].out = NoFlow =>
        (b = c /\ o = NoFlow) \/ b \in OpenOf(w) \/ b \notin IdsOf(bs)
  <2>1. ASSUME NEW b \in IdsOf(us), us[b + 1].out = NoFlow, b \in IdsOf(bs), b # c
        PROVE  b \in OpenOf(w)
    <3>1. bs[b + 1].out = NoFlow
      BY <1>4, <2>1
    <3> QED BY <2>1, <3>1 DEF Gen
  <2>2. us[c + 1].out = o
    BY <1>4
  <2> QED BY <2>1, <2>2
<1>8. \A b \in IdsOf(us) : b \notin IdsOf(bs) => us[b + 1] = EmptyBlock
  BY <1>1, <1>4
<1>9. P[<<0, 1>>] = M[<<0, 1>>]
  BY <1>1, KeepsDue
<1>10. \A b \in OpenOf(w) : b # c /\ b \in IdsOf(bs) /\ us[b + 1] = EmptyBlock
  BY <1>5
<1>11. 0 \in IdsOf(us)
  BY <1>1, <1>2
<1> QED BY <1>1, <1>2, <1>3, <1>4, <1>6, <1>7, <1>8, <1>9, <1>10, <1>11 DEF Full

\* A statement's handler runs above the statements that follow it.
UnderTop(ls, ks, M) ==
  /\ Stack(Rest, ls, M, blocks)
  /\ FrameMeans(Top, ks[1], ls[1], M, blocks)
  /\ Listed(ks[1]) /\ Listed(ls[1])
  /\ OpenOf(work) = Open(Top) \cup OpenOf(Rest)
  /\ Open(Top) \cap OpenOf(Rest) = {}
  /\ Below(Top, Rest)
  /\ Top.k \in {"statements", "chain"} /\ curr # Nil => blocks[curr + 1].out = NoFlow
  /\ Top.k = "chain" => curr # Nil

LEMMA Popped ==
  ASSUME NEW M, NEW ks, Gen(M, ks, work, blocks, curr), work # <<>>
  PROVE  \E ls : UnderTop(ls, ks, M)
<1>1. First(work) = Top /\ Tail(work) = Rest
  BY DEF First, Top, Rest
<1>2. Stack(work, ks, M, blocks)
      /\ (Top.k \in {"statements", "chain"} /\ curr # Nil => blocks[curr + 1].out = NoFlow)
      /\ (Top.k = "chain" => curr # Nil)
  BY <1>1 DEF Gen
<1> QED BY <1>1, <1>2, StackPop DEF UnderTop

LEMMA AtOne ==
  ASSUME NEW M, NEW ks, Gen(M, ks, work, blocks, curr), work # <<>>,
         Top.k = "statements", Top.s # <<>>, curr # Nil
  PROVE  \E ls :
         /\ Stack(Later, ls, M, blocks) /\ Listed(ls[1]) /\ Later # <<>>
         /\ First(Later).k = "statements" /\ OpenOf(Later) = OpenOf(work)
         /\ M[<<curr, Len(blocks[curr + 1].code) + 1>>] = Machine(Push(St, ls[1]), FALSE)
         /\ St \in Stmts
<1> DEFINE s  == Top.s
           fr == Statements(Tail(s))
<1>2. PICK ms : /\ Stack(Rest, ms, M, blocks)
                /\ FrameMeans(Top, ks[1], ms[1], M, blocks)
                /\ Listed(ms[1])
                /\ OpenOf(work) = Open(Top) \cup OpenOf(Rest)
                /\ Below(Top, Rest)
                /\ blocks[curr + 1].out = NoFlow
  BY Popped DEF UnderTop
<1> DEFINE k2 == ms[1]
           r  == Tail(s) \o k2
<1>3. Listed(s) /\ Elements(s) \subseteq Stmts /\ ks[1] = s \o k2
  BY <1>2 DEF FrameMeans
<1>4. s \o k2 = Push(Head(s), r) /\ Listed(Tail(s)) /\ Listed(r)
  BY <1>2, <1>3, NextStatement
<1>5. Elements(Tail(s)) \subseteq Stmts /\ Head(s) \in Stmts
  <2>1. Elements(Tail(s)) \subseteq Elements(s) /\ Head(s) = s[1] /\ 1 \in DOMAIN s
    BY <1>3, ListedTail
  <2> QED BY <1>3, <2>1 DEF Elements
<1>6. Open(Top) = {} /\ Open(fr) = {} /\ fr.k = "statements"
  BY DEF Open, Statements
<1>7. FrameMeans(fr, r, k2, M, blocks)
  BY <1>4, <1>5 DEF FrameMeans, Statements
<1>8. Below(fr, Rest)
  BY <1>2 DEF Below, Statements
<1>9. Later = Push(fr, Rest)
  BY DEF Later, Push
<1> HIDE DEF fr, r
<1>10. PICK ls : /\ Stack(Later, ls, M, blocks) /\ ls[1] = r
                 /\ OpenOf(Later) = Open(fr) \cup OpenOf(Rest)
                 /\ Later # <<>> /\ First(Later) = fr
  <2>1. Open(fr) \cap OpenOf(Rest) = {}
    BY <1>6
  <2> QED BY <1>2, <1>4, <1>7, <1>8, <1>9, <2>1, StackPush
<1>11. OpenOf(Later) = OpenOf(work)
  BY <1>2, <1>6, <1>10
<1>12. M[<<curr, Len(blocks[curr + 1].code) + 1>>] = Machine(Push(St, ls[1]), FALSE)
  <2>1. M[<<curr, Len(blocks[curr + 1].code) + 1>>] = Machine(ks[1], FALSE)
    BY <1>2 DEF Gen
  <2>2. St = Head(s)
    BY DEF St
  <2> QED BY <1>3, <1>4, <1>10, <2>1, <2>2
<1>13. St \in Stmts
  BY <1>5 DEF St
<1> QED BY <1>4, <1>6, <1>10, <1>11, <1>12, <1>13

LEMMA GenBlockEndGen ==
  ASSUME NEW M, NEW ks, Gen(M, ks, work, blocks, curr), GenBlockEnd
  PROVE  GenAgain(M)
<1>1. work # <<>> /\ Top.k = "statements" /\ Top.s = <<>>
      /\ work' = Rest /\ blocks' = blocks /\ curr' = curr
  BY DEF GenBlockEnd, AtFrame, Go
<1>2. PICK ls : /\ Stack(Rest, ls, M, blocks)
                /\ FrameMeans(Top, ks[1], ls[1], M, blocks)
                /\ Listed(ls[1])
                /\ OpenOf(work) = Open(Top) \cup OpenOf(Rest)
                /\ curr # Nil => blocks[curr + 1].out = NoFlow
                /\ Below(Top, Rest)
  BY <1>1, Popped DEF UnderTop
<1>3. ks[1] = ls[1]
  BY <1>1, <1>2, JoinEmpty DEF FrameMeans
<1>4. OpenOf(Rest) = OpenOf(work)
  BY <1>1, <1>2 DEF Open
<1>5. Rest # <<>> => First(Rest).k # "chain"
  BY <1>2 DEF Below
<1>6. Gen(M, ls, Rest, blocks, curr)
  BY <1>2, <1>3, <1>4, <1>5 DEF Gen
<1> QED BY <1>1, <1>6 DEF GenAgain

LEMMA GenStatementGen ==
  ASSUME NEW M, NEW ks, Gen(M, ks, work, blocks, curr), GenStatement
  PROVE  GenAgain(M)
<1> DEFINE code == blocks[curr + 1].code
           code2 == Append(code, Eval(St.e))
           us == GenExpr(blocks, curr, St.e)
           l == Len(code)
<1>1. /\ work # <<>> /\ Top.k = "statements" /\ Top.s # <<>> /\ curr # Nil /\ St.k = "do"
      /\ work' = Later /\ blocks' = us /\ curr' = curr
  BY DEF GenStatement, AtStatement, AtFrame, Go, St
<1>2. PICK ls : /\ Stack(Later, ls, M, blocks) /\ Listed(ls[1])
                /\ OpenOf(Later) = OpenOf(work) /\ First(Later).k = "statements"
                /\ M[<<curr, l + 1>>] = Machine(Push(St, ls[1]), FALSE)
  BY <1>1, AtOne
<1>3. curr \in IdsOf(blocks) /\ Made(blocks) /\ Listed(code) /\ l \in Nat
      /\ blocks[curr + 1].out = NoFlow
  <2>1. curr \in IdsOf(blocks) /\ Made(blocks)
    BY <1>1 DEF Gen
  <2> QED BY <1>1, <2>1, MadeIs, ListedIs, Popped DEF UnderTop
<1> DEFINE x == Machine(ls[1], FALSE)
           P == Extension(M, blocks, curr, x, x, x, x, x)
<1> HIDE DEF P, us, code2
<1>4. Keeps(M, P, blocks) /\ P[<<curr, l + 2>>] = x
  <2>1. Extends(P, M, blocks, curr, x, x, x, x, x)
    BY <1>3, Extended DEF P
  <2> QED BY <2>1 DEF Extends
<1>5. Alters(blocks, us, curr, code2, NoFlow, 0)
  BY <1>3, GenExprAlters DEF us, code2
<1>6. Listed(code2) /\ Len(code2) = l + 1
  BY <1>3, ListedAppend DEF code2
<1>7. Continued(M, P, curr, code, code2)
  <2>1. /\ ~Silent(Machine(Push(St, ls[1]), FALSE))
        /\ Shows(Machine(Push(St, ls[1]), FALSE)) = Eval(St.e)
        /\ \A holds \in BOOLEAN : After(Machine(Push(St, ls[1]), FALSE), holds) = x
    BY <1>1, <1>2, MachineAt
  <2> HIDE DEF x
  <2> QED BY <1>2, <1>4, <2>1 DEF Continued, code2
<1>8. Flows(P, P[<<curr, Len(code2) + 1>>], NoFlow, IdsOf(us))
  BY DEF Flows
<1> HIDE DEF x
<1>10. /\ Made(us)
       /\ curr \in IdsOf(us) /\ 0 \in IdsOf(us)
       /\ \A b \in IdsOf(us) : Means(P, us, b)
       /\ Stack(Later, ls, P, us)
       /\ us[curr + 1] = [code |-> code2, out |-> NoFlow]
       /\ \A b \in IdsOf(us) : us[b + 1].out = NoFlow =>
            b = curr \/ b \in OpenOf(work) \/ b \notin IdsOf(blocks)
       /\ P[<<0, 1>>] = M[<<0, 1>>]
  <2>1. Fills(M, P, work, Later, ls, blocks, curr, us, code2, NoFlow, 0)
    BY <1>1, <1>2, <1>4, <1>5, <1>6, <1>7, <1>8 DEF Fills
  <2>2. Full(M, P, work, Later, ls, blocks, curr, us, code2, NoFlow)
    BY <2>1, Filled
  <2> QED BY <2>2 DEF Full
<1>11. \A b \in IdsOf(us) : us[b + 1].out = NoFlow => b = curr \/ b \in OpenOf(Later)
  <2>1. IdsOf(us) = IdsOf(blocks)
    BY <1>3, <1>5, SameIds
  <2> QED BY <1>2, <1>10, <2>1
<1>12. P[<<curr, Len(us[curr + 1].code) + 1>>] = x
  <2>1. us[curr + 1].code = code2 /\ (l + 1) + 1 = l + 2
    BY <1>3, <1>10
  <2> QED BY <1>4, <1>6, <2>1
<1>13. curr \notin OpenOf(Later)
  BY <1>2 DEF Gen
<1>14. us[curr + 1].out = NoFlow
  BY <1>10
<1>15. Gen(P, ls, Later, us, curr)
  BY <1>2, <1>10, <1>11, <1>12, <1>13, <1>14 DEF Gen, x
<1> QED BY <1>1, <1>10, <1>15 DEF GenAgain


\* The code of a statement whose expression is evaluated first.
Coded(code, e) == Append(code, Eval(e))

\* What M gives the position after a block's code, and the one after that.
Ends(M, b, code, m)  == M[<<b, Len(code) + 1>>] = m
Further(M, b, code, m) == M[<<b, Len(code) + 2>>] = m

LEMMA Evaluated ==
  ASSUME NEW M, NEW P, NEW c, NEW code, Listed(code), NEW st, st.k \notin {"do", "dowhile"},
         NEW k, Listed(k), Ends(M, c, code, Machine(Push(st, k), FALSE)),
         Further(P, c, code, Machine(Push(st, k), TRUE))
  PROVE  /\ Continued(M, P, c, code, Coded(code, st.e)) /\ Listed(Coded(code, st.e))
         /\ Ends(P, c, Coded(code, st.e), Machine(Push(st, k), TRUE))
<1> DEFINE code2 == Coded(code, st.e)
<1>1. Listed(code2) /\ Len(code2) = Len(code) + 1 /\ Len(code) \in Nat
  BY ListedAppend, ListedIs DEF Coded
<1>2. Len(code2) + 1 = Len(code) + 2
  BY <1>1
<1>3. /\ ~Silent(Machine(Push(st, k), FALSE))
      /\ Shows(Machine(Push(st, k), FALSE)) = Eval(st.e)
      /\ \A holds \in BOOLEAN :
           After(Machine(Push(st, k), FALSE), holds) = Machine(Push(st, k), TRUE)
  BY MachineAt
<1>4. Continued(M, P, c, code, code2)
  BY <1>3 DEF Continued, Coded, Ends, Further
<1> QED BY <1>1, <1>2, <1>4 DEF Ends, Further

\* Control enters a frame at a block that is waiting for it.
LEMMA PushGen ==
  ASSUME NEW w, NEW ls, NEW P, NEW us, Stack(w, ls, P, us), Made(us), 0 \in IdsOf(us),
         \A x \in IdsOf(us) : Means(P, us, x),
         NEW fr, NEW k, Listed(k), FrameMeans(fr, k, ls[1], P, us),
         Open(fr) \cap OpenOf(w) = {}, Below(fr, w),
         NEW c, Waits(P, us, c, k), c \notin OpenOf(w), c \notin Open(fr),
         \A b \in IdsOf(us) : us[b + 1].out = NoFlow => b = c \/ b \in Open(fr) \/ b \in OpenOf(w)
  PROVE  \E ms : Gen(P, ms, Push(fr, w), us, c)
<1>1. PICK ms : /\ Stack(Push(fr, w), ms, P, us) /\ ms[1] = k
                /\ OpenOf(Push(fr, w)) = Open(fr) \cup OpenOf(w)
                /\ Push(fr, w) # <<>> /\ First(Push(fr, w)) = fr
  BY StackPush
<1>2. c \in IdsOf(us) /\ us[c + 1].out = NoFlow /\ us[c + 1].code = <<>>
      /\ P[<<c, 1>>] = Machine(k, FALSE)
  BY EmptyIs DEF Waits, Due
<1>3. Len(us[c + 1].code) + 1 = 1
  BY <1>2
<1>4. P[<<c, Len(us[c + 1].code) + 1>>] = Machine(ms[1], FALSE)
  BY <1>1, <1>2, <1>3
<1>5. c # Nil
  BY <1>2, MadeIs DEF Nil
<1>6. Gen(P, ms, Push(fr, w), us, c)
  BY <1>1, <1>2, <1>4, <1>5 DEF Gen
<1> QED BY <1>6

LEMMA NotNoFlow ==
  \A e, t, f : /\ JmpTo(t) # NoFlow /\ Branch(e, t, f) # NoFlow
               /\ ReturnOf(e) # NoFlow /\ ExitOf(e) # NoFlow
<1>1. NoFlow.t = "invalid"
  BY DEF NoFlow, Flow
<1>2. \A e, t, f : /\ JmpTo(t).t = "jmp" /\ Branch(e, t, f).t = "branch"
                   /\ ReturnOf(e).t = "return" /\ ExitOf(e).t = "exit"
  BY DEF JmpTo, Branch, ReturnOf, ExitOf, Flow
<1> QED BY <1>1, <1>2

\* A return or an exit.
LEMMA LeaveGen ==
  ASSUME NEW M, NEW ks, Gen(M, ks, work, blocks, curr), NEW kind \in {"return", "exit"},
         AtStatement(kind), NEW o, o.t = kind, o.e = St.e,
         work' = Rest, curr' = curr,
         blocks' = SetOut(GenExpr(blocks, curr, St.e), curr, o)
  PROVE  GenAgain(M)
<1> DEFINE code == blocks[curr + 1].code
           code2 == Coded(code, St.e)
           us == SetOut(GenExpr(blocks, curr, St.e), curr, o)
           l == Len(code)
<1>1. /\ work # <<>> /\ Top.k = "statements" /\ Top.s # <<>> /\ curr # Nil /\ St.k = kind
      /\ blocks' = us
  BY DEF AtStatement, AtFrame, St
<1>2. PICK ks2 : /\ Listed(ks2[1]) /\ M[<<curr, l + 1>>] = Machine(Push(St, ks2[1]), FALSE)
  BY <1>1, AtOne
<1>3. PICK ls : /\ Stack(Rest, ls, M, blocks)
                /\ OpenOf(work) = Open(Top) \cup OpenOf(Rest) /\ Below(Top, Rest)
                /\ blocks[curr + 1].out = NoFlow
  BY <1>1, Popped DEF UnderTop
<1>4. OpenOf(Rest) = OpenOf(work)
  BY <1>1, <1>3 DEF Open
<1>5. curr \in IdsOf(blocks) /\ Made(blocks) /\ Listed(code)
  <2>1. curr \in IdsOf(blocks) /\ Made(blocks)
    BY <1>1 DEF Gen
  <2> QED BY <2>1, MadeIs
<1> DEFINE x == Machine(Push(St, ks2[1]), TRUE)
           P == Extension(M, blocks, curr, x, x, x, x, x)
<1> HIDE DEF P, us
<1>6. Keeps(M, P, blocks) /\ P[<<curr, l + 2>>] = x
  <2> HIDE DEF x
  <2>1. Extends(P, M, blocks, curr, x, x, x, x, x)
    BY <1>5, Extended DEF P
  <2> QED BY <2>1 DEF Extends
<1>7. Alters(blocks, us, curr, code2, o, 0)
  <2> DEFINE vs == GenExpr(blocks, curr, St.e)
  <2>1. Alters(blocks, vs, curr, code2, blocks[curr + 1].out, 0) /\ Listed(code2)
    BY <1>5, GenExprAlters, ListedAppend DEF Coded
  <2>2. us = SetOut(vs, curr, o)
    BY DEF us
  <2> HIDE DEF vs, code2
  <2> QED BY <1>5, <2>1, <2>2, ThenSetOut
<1>8. /\ Continued(M, P, curr, code, code2) /\ Listed(code2)
      /\ P[<<curr, Len(code2) + 1>>] = x
  <2>1. St.k \notin {"do", "dowhile"}
    BY <1>1
  <2>2. Ends(M, curr, code, Machine(Push(St, ks2[1]), FALSE))
        /\ Further(P, curr, code, Machine(Push(St, ks2[1]), TRUE))
    BY <1>2, <1>6 DEF Ends, Further
  <2> HIDE DEF code
  <2>3. /\ Continued(M, P, curr, code, Coded(code, St.e)) /\ Listed(Coded(code, St.e))
        /\ Ends(P, curr, Coded(code, St.e), Machine(Push(St, ks2[1]), TRUE))
    BY <1>2, <1>5, <2>1, <2>2, Evaluated
  <2> QED BY <2>3 DEF Ends
<1>9. Flows(P, P[<<curr, Len(code2) + 1>>], o, IdsOf(us))
  <2>1. ~Silent(x) /\ Shows(x) = Take(kind, St.e)
    <3>1. ~Branching(St) /\ St.k # "dowhile"
      BY <1>1 DEF Branching
    <3>2. Shows(x) = Take(IF Branching(St) THEN "branch" ELSE St.k, St.e)
      BY <1>2, MachineAt
    <3>3. ~Silent(x)
      BY <1>2, <3>1, MachineAt
    <3> QED BY <1>1, <3>1, <3>2, <3>3
  <2> HIDE DEF x, code2
  <2> QED BY <1>8, <2>1 DEF Flows
<1> HIDE DEF x, code2
<1>10. o # NoFlow
  BY DEF NoFlow, Flow
<1>11. /\ Made(us)
       /\ curr \in IdsOf(us) /\ 0 \in IdsOf(us)
       /\ \A b \in IdsOf(us) : Means(P, us, b)
       /\ Stack(Rest, ls, P, us)
       /\ us[curr + 1] = [code |-> code2, out |-> o]
       /\ \A b \in IdsOf(us) : us[b + 1].out = NoFlow =>
            (b = curr /\ o = NoFlow) \/ b \in OpenOf(work) \/ b \notin IdsOf(blocks)
       /\ P[<<0, 1>>] = M[<<0, 1>>]
  <2>1. Fills(M, P, work, Rest, ls, blocks, curr, us, code2, o, 0)
    BY <1>1, <1>3, <1>4, <1>6, <1>7, <1>8, <1>9 DEF Fills
  <2>2. Full(M, P, work, Rest, ls, blocks, curr, us, code2, o)
    BY <2>1, Filled
  <2> QED BY <2>2 DEF Full
<1>12. \A b \in IdsOf(us) : us[b + 1].out = NoFlow => b = curr \/ b \in OpenOf(Rest)
  <2>1. IdsOf(us) = IdsOf(blocks)
    BY <1>5, <1>7, SameIds
  <2> QED BY <1>4, <1>11, <2>1
<1>13. curr \notin OpenOf(Rest)
  BY <1>4 DEF Gen
<1>14. us[curr + 1].out # NoFlow
  BY <1>10, <1>11
<1>15. Rest # <<>> => First(Rest).k \notin {"statements", "chain"}
  BY <1>1, <1>3 DEF Below
<1>16. Gen(P, ls, Rest, us, curr)
  BY <1>11, <1>12, <1>13, <1>14, <1>15 DEF Gen
<1> QED BY <1>1, <1>11, <1>16 DEF GenAgain

LEMMA GenReturnGen ==
  ASSUME NEW M, NEW ks, Gen(M, ks, work, blocks, curr), GenReturn
  PROVE  GenAgain(M)
<1>1. AtStatement("return") /\ work' = Rest /\ curr' = curr
      /\ blocks' = IF IsTerminal(curr) THEN blocks
                   ELSE SetOut(GenExpr(blocks, curr, St.e), curr, ReturnOf(St.e))
  BY DEF GenReturn, Go
<1>2. ~IsTerminal(curr)
  <2>1. work # <<>> /\ Top.k = "statements" /\ curr # Nil
    BY <1>1 DEF AtStatement, AtFrame
  <2>2. blocks[curr + 1].out = NoFlow
    BY <2>1, Popped DEF UnderTop
  <2> QED BY <2>2 DEF IsTerminal, Out, NoFlow, Flow
<1>3. ReturnOf(St.e).t = "return" /\ ReturnOf(St.e).e = St.e
  BY DEF ReturnOf, Flow
<1> QED BY <1>1, <1>2, <1>3, LeaveGen

LEMMA GenExitGen ==
  ASSUME NEW M, NEW ks, Gen(M, ks, work, blocks, curr), GenExit
  PROVE  GenAgain(M)
<1>1. AtStatement("exit") /\ work' = Rest /\ curr' = curr
      /\ blocks' = SetOut(GenExpr(blocks, curr, St.e), curr, ExitOf(St.e))
  BY DEF GenExit, Go
<1>2. ExitOf(St.e).t = "exit" /\ ExitOf(St.e).e = St.e
  BY DEF ExitOf, Flow
<1> QED BY <1>1, <1>2, LeaveGen


\* What statements are made of.
LEMMA InStmts ==
  ASSUME NEW st \in Stmts
  PROVE  Parsed(st) /\ Parts(st) \subseteq Stmts
BY ProceduresParsed

LEMMA IfParts ==
  ASSUME NEW st \in Stmts, st.k = "if"
  PROVE  /\ Listed(Head(st.arms).body) /\ Elements(Head(st.arms).body) \subseteq Stmts
         /\ Chosen(st, TRUE) = Head(st.arms).body
         /\ Listed(Chosen(st, FALSE)) /\ Len(st.arms) \in Nat /\ Len(st.arms) >= 1
         /\ Len(st.arms) = 1 => /\ Chosen(st, FALSE) = st.else /\ Listed(st.else)
                                /\ Elements(st.else) \subseteq Stmts
         /\ Len(st.arms) > 1 =>
              LET later == If(Tail(st.arms), st.else)
              IN /\ Chosen(st, FALSE) = <<later>> /\ later \in Stmts /\ later.k = "if"
                 /\ later.arms = Tail(st.arms) /\ later.else = st.else
<1>1. /\ Listed(st.else) /\ Listed(st.arms) /\ st.arms # <<>>
      /\ \A i \in DOMAIN st.arms : Listed(st.arms[i].body)
  BY InStmts DEF Parsed
<1>2. Parts(st) = (UNION {Elements(st.arms[i].body) : i \in DOMAIN st.arms})
                    \cup (IF Len(st.arms) = 1 THEN Elements(st.else)
                          ELSE {If(Tail(st.arms), st.else)})
  BY DEF Parts
<1>3. Head(st.arms) = st.arms[1] /\ 1 \in DOMAIN st.arms /\ Len(st.arms) \in Nat
      /\ Len(st.arms) # 0
  BY <1>1, ListedTail, ListedIs
<1> DEFINE b == Head(st.arms).body
           later == If(Tail(st.arms), st.else)
           n == Len(st.arms)
<1>4. Listed(b) /\ Elements(b) \subseteq Stmts
  <2>1. b = st.arms[1].body /\ Elements(st.arms[1].body) \subseteq Parts(st)
    BY <1>2, <1>3
  <2> QED BY <1>1, <1>3, <2>1, InStmts
<1>5. Chosen(st, TRUE) = b
  BY DEF Chosen
<1>6. Chosen(st, FALSE) = IF n = 1 THEN st.else ELSE <<later>>
  <2> HIDE DEF n, later
  <2>1. Chosen(st, FALSE) = IF Len(st.arms) = 1 THEN st.else ELSE <<If(Tail(st.arms), st.else)>>
    BY DEF Chosen
  <2> QED BY <2>1 DEF n, later
<1>7. n = 1 => Elements(st.else) \subseteq Stmts
  <2>1. n = 1 => Elements(st.else) \subseteq Parts(st)
    BY <1>2
  <2> QED BY <2>1, InStmts
<1>8. n > 1 => later \in Stmts
  <2>1. n > 1 => n # 1
    <3>1. n \in Nat
      BY <1>3
    <3> HIDE DEF n
    <3> QED BY <3>1
  <2>2. n # 1 => later \in Parts(st)
    BY <1>2
  <2> QED BY <2>1, <2>2, InStmts
<1>9. later.k = "if" /\ later.arms = Tail(st.arms) /\ later.else = st.else
  BY DEF If
<1> HIDE DEF later, b, n
<1>10. Listed(Chosen(st, FALSE))
  BY <1>1, <1>6, ListedOne
<1>11. n \in Nat /\ n >= 1 /\ (n > 1 => n # 1)
  <2>1. n \in Nat /\ n # 0
    BY <1>3 DEF n
  <2> QED BY <2>1
<1> QED BY <1>1, <1>4, <1>5, <1>6, <1>7, <1>8, <1>9, <1>10, <1>11 DEF later, b, n

LEMMA LoopParts ==
  ASSUME NEW st \in Stmts, st.k \in {"while", "dowhile"}
  PROVE  /\ Listed(st.body) /\ Elements(st.body) \subseteq Stmts
         /\ st.k = "while" => /\ Chosen(st, TRUE) = st.body \o <<st>>
                              /\ Chosen(st, FALSE) = <<>> /\ Branching(st)
         /\ st.k = "dowhile" =>
              /\ Test(st).k = "test" /\ Test(st).e = st.e /\ Branching(Test(st))
              /\ Chosen(Test(st), TRUE) = <<st>> /\ Chosen(Test(st), FALSE) = <<>>
<1>1. st = [k |-> st.k, e |-> st.e, body |-> st.body] /\ Listed(st.body)
  BY InStmts DEF Parsed
<1>2. Elements(st.body) \subseteq Stmts
  BY InStmts DEF Parts
<1>3. ASSUME st.k = "while"
      PROVE  /\ Chosen(st, TRUE) = st.body \o <<st>>
             /\ Chosen(st, FALSE) = <<>> /\ Branching(st)
  BY <1>3 DEF Chosen, Branching
<1>4. ASSUME st.k = "dowhile"
      PROVE  /\ Test(st).k = "test" /\ Test(st).e = st.e /\ Branching(Test(st))
             /\ Chosen(Test(st), TRUE) = <<st>> /\ Chosen(Test(st), FALSE) = <<>>
  <2>1. Test(st) = [k |-> "test", e |-> st.e, body |-> st.body]
    BY <1>1 DEF Test
  <2>2. [Test(st) EXCEPT !.k = "dowhile"] = st
    BY <1>1, <1>4, <2>1
  <2>3. Chosen(Test(st), TRUE) = <<[Test(st) EXCEPT !.k = "dowhile"]>>
    BY <2>1 DEF Chosen
  <2>4. Chosen(Test(st), FALSE) = <<>>
    BY <2>1 DEF Chosen
  <2>5. Test(st).k = "test" /\ Test(st).e = st.e
    BY <2>1
  <2>6. Branching(Test(st))
    BY <2>5 DEF Branching
  <2>7. Chosen(Test(st), TRUE) = <<st>>
    BY <2>2, <2>3
  <2> QED BY <2>4, <2>5, <2>6, <2>7
<1> QED BY <1>1, <1>2, <1>3, <1>4

LEMMA PushTwo ==
  ASSUME NEW w, Listed(w), NEW x, NEW y
  PROVE  <<x, y>> \o w = Push(x, Push(y, w))
<1>1. Listed(<<x>>) /\ Listed(<<y>>)
  BY ListedOne
<1>2. (<<x>> \o <<y>>) \o w = <<x>> \o (<<y>> \o w)
  BY <1>1, JoinAssociative
<1>3. <<x>> \o <<y>> = <<x, y>>
  <2> DEFINE a == <<x>>
             b == <<y>>
  <2>1. a \in Seq({x, y}) /\ b \in Seq({x, y}) /\ Len(a) = 1 /\ Len(b) = 1 /\ a[1] = x /\ b[1] = y
    OBVIOUS
  <2>2. <<x, y>> \in Seq({x, y}) /\ Len(<<x, y>>) = 2 /\ <<x, y>>[1] = x /\ <<x, y>>[2] = y
    OBVIOUS
  <2> HIDE DEF a, b
  <2>3. a \o b \in Seq({x, y}) /\ Len(a \o b) = 2 /\ (a \o b)[1] = x /\ (a \o b)[2] = y
    <3>1. a \o b \in Seq({x, y}) /\ Len(a \o b) = Len(a) + Len(b)
      BY <2>1, ConcatProperties
    <3>2. /\ \A i \in 1 .. Len(a) : (a \o b)[i] = a[i]
          /\ \A i \in Len(a) + 1 .. Len(a) + Len(b) : (a \o b)[i] = b[i - Len(a)]
      <4>1. Listed(a) /\ Listed(b)
        BY <2>1, ListedSeq
      <4> QED BY <4>1, ListedJoin
    <3> DEFINE c == a \o b
    <3> HIDE DEF c
    <3>3. c[1] = a[1]
      BY <2>1, <3>2 DEF c
    <3>4. c[2] = b[1]
      <4>1. 2 \in Len(a) + 1 .. Len(a) + Len(b) /\ 2 - Len(a) = 1
        BY <2>1
      <4> QED BY <3>2, <4>1 DEF c
    <3> QED BY <2>1, <3>1, <3>3, <3>4 DEF c
  <2>4. \A i \in 1 .. 2 : (a \o b)[i] = <<x, y>>[i]
    BY <2>2, <2>3
  <2>5. a \o b = <<x, y>>
    BY <2>2, <2>3, <2>4, SeqEqual
  <2> QED BY <2>5 DEF a, b
<1> QED BY <1>2, <1>3 DEF Push

LEMMA ArmGen ==
  ASSUME NEW M, NEW ks, Gen(M, ks, work, blocks, curr),
         curr # Nil, blocks[curr + 1].out = NoFlow,
         NEW w, NEW ls, Stack(w, ls, M, blocks), Listed(ls[1]),
         w # <<>> => First(w).k = "statements",
         NEW st \in Stmts, st.k = "if",
         Ends(M, curr, blocks[curr + 1].code, Machine(Push(st, ls[1]), FALSE)),
         NEW kind \in {"true", "elseif"}, NEW outbl, NEW outblID,
         kind = "true" => outbl = Nil,
         outbl # Nil => outblID = outbl /\ Waits(M, blocks, outbl, ls[1]) /\ outbl \notin OpenOf(w),
         OpenOf(work) = OpenOf(w) \cup ({outbl} \ {Nil}),
         work' = <<Statements(Head(st.arms).body), IfFrame(kind, st, N + 1, outbl, outblID)>> \o w,
         blocks' = WithNew(SetOut(GenExpr(blocks, curr, st.e), curr, Branch(st.e, N, N + 1)), 2),
         curr' = N
  PROVE  GenAgain(M)
<1> DEFINE code == blocks[curr + 1].code
           code2 == Coded(code, st.e)
           k == ls[1]
           o == Branch(st.e, N, N + 1)
           us == WithNew(SetOut(GenExpr(blocks, curr, st.e), curr, o), 2)
           body == Head(st.arms).body
           x == Machine(Push(st, k), TRUE)
           y == Machine(body \o k, FALSE)
           y1 == Machine(Chosen(st, FALSE) \o k, FALSE)
           P == Extension(M, blocks, curr, x, y, y1, x, x)
           fr == IfFrame(kind, st, N + 1, outbl, outblID)
           fr2 == Statements(body)
<1> USE DEF N
<1> HIDE DEF us, P, x, y, y1, fr, fr2, body, o, code, code2
<1>1. curr \in IdsOf(blocks) /\ Made(blocks) /\ Listed(code) /\ N \in Nat
      /\ \A b : b \in IdsOf(blocks) <=> b \in Int /\ 0 <= b /\ b < N
  <2>1. curr \in IdsOf(blocks) /\ Made(blocks)
    BY DEF Gen
  <2> QED BY <2>1, MadeIs DEF code
<1>2. /\ Keeps(M, P, blocks) /\ Further(P, curr, code, x)
      /\ P[<<N, 1>>] = y /\ P[<<N + 1, 1>>] = y1
  <2>1. Extends(P, M, blocks, curr, x, y, y1, x, x)
    BY <1>1, Extended DEF P
  <2> QED BY <2>1 DEF Extends, Further, code
<1>3. Continued(M, P, curr, code, code2) /\ Listed(code2) /\ Ends(P, curr, code2, x)
  <2>1. Ends(M, curr, code, Machine(Push(st, k), FALSE)) /\ Further(P, curr, code, Machine(Push(st, k), TRUE))
    BY <1>2 DEF code, x
  <2>2. st.k \notin {"do", "dowhile"}
    OBVIOUS
  <2> QED BY <1>1, <2>1, <2>2, Evaluated DEF code2, x
<1>4. Alters(blocks, us, curr, code2, o, 2)
  <2> DEFINE vs == GenExpr(blocks, curr, st.e)
  <2>1. Alters(blocks, vs, curr, code2, blocks[curr + 1].out, 0)
    BY <1>1, GenExprAlters DEF code2, code, Coded
  <2> HIDE DEF vs
  <2>2. Alters(blocks, SetOut(vs, curr, o), curr, code2, o, 0)
    BY <1>1, <1>3, <2>1, ThenSetOut
  <2>3. Alters(blocks, WithNew(SetOut(vs, curr, o), 2), curr, code2, o, 2)
    BY <1>1, <2>2, ThenNew
  <2> QED BY <2>3 DEF us, vs
<1>5. /\ Listed(body) /\ Elements(body) \subseteq Stmts /\ Chosen(st, TRUE) = body
      /\ Listed(Chosen(st, FALSE))
  BY IfParts DEF body
<1>6. N \in IdsOf(us) /\ N + 1 \in IdsOf(us)
  <2>1. Len(us) = N + 2
    BY <1>4 DEF Alters
  <2> QED BY <1>1, <2>1 DEF IdsOf
<1>7. Flows(P, P[<<curr, Len(code2) + 1>>], o, IdsOf(us))
  <2>1. Branching(st) /\ st.k # "do" /\ st.k # "dowhile"
    BY DEF Branching
  <2>2. ~Silent(x)
    BY <2>1, MachineAt DEF x
  <2>3. Shows(x) = Take("branch", st.e)
    <3>1. Shows(x) = Take(IF Branching(st) THEN "branch" ELSE st.k, st.e)
      BY MachineAt DEF x
    <3> QED BY <2>1, <3>1
  <2>4. \A holds \in BOOLEAN : After(x, holds) = Machine(Chosen(st, holds) \o k, FALSE)
    BY <2>1, MachineAt DEF x
  <2>5. After(x, TRUE) = y /\ After(x, FALSE) = y1
    BY <1>5, <2>4 DEF y, y1
  <2>6. o.t = "branch" /\ o.true = N /\ o.false = N + 1 /\ o.e = st.e
    BY DEF o, Branch, Flow
  <2>7. P[<<curr, Len(code2) + 1>>] = x
    BY <1>3 DEF Ends
  <2> HIDE DEF N
  <2> QED BY <1>2, <1>6, <2>2, <2>3, <2>5, <2>6, <2>7 DEF Flows, Leads
<1>8. o # NoFlow
  BY NotNoFlow DEF o
<1>9. /\ Made(us)
      /\ IdsOf(blocks) \subseteq IdsOf(us) /\ 0 \in IdsOf(us)
      /\ \A b \in IdsOf(us) : Means(P, us, b)
      /\ Stack(w, ls, P, us)
      /\ \A b \in OpenOf(work) : b # curr /\ b \in IdsOf(blocks) /\ us[b + 1] = EmptyBlock
      /\ \A b \in IdsOf(us) : us[b + 1].out = NoFlow =>
           (b = curr /\ o = NoFlow) \/ b \in OpenOf(work) \/ b \notin IdsOf(blocks)
      /\ \A b \in IdsOf(us) : b \notin IdsOf(blocks) => us[b + 1] = EmptyBlock
      /\ P[<<0, 1>>] = M[<<0, 1>>]
  <2>1. Fills(M, P, work, w, ls, blocks, curr, us, code2, o, 2)
    <3>1. OpenOf(w) \subseteq OpenOf(work)
      OBVIOUS
    <3>2. Continued(M, P, curr, blocks[curr + 1].code, code2)
      BY <1>3 DEF code
    <3> HIDE DEF N
    <3> QED BY <1>2, <1>3, <1>4, <1>7, <3>1, <3>2 DEF Fills
  <2>2. Full(M, P, work, w, ls, blocks, curr, us, code2, o)
    <3> HIDE DEF N
    <3> QED BY <2>1, Filled
  <2> HIDE DEF N
  <2> QED BY <2>2 DEF Full
<1>10. /\ Waits(P, us, N, body \o k) /\ Waits(P, us, N + 1, Chosen(st, FALSE) \o k)
       /\ N \notin IdsOf(blocks) /\ N + 1 \notin IdsOf(blocks) /\ N # N + 1 /\ N + 1 # Nil /\ N # Nil
  <2>1. N \notin IdsOf(blocks) /\ N + 1 \notin IdsOf(blocks) /\ N # N + 1 /\ N + 1 # Nil /\ N # Nil
    BY <1>1 DEF Nil
  <2> HIDE DEF N
  <2> QED BY <1>2, <1>6, <1>9, <2>1 DEF Waits, Due, y, y1
<1>11. outbl # Nil => /\ outblID = outbl /\ Waits(P, us, outbl, k) /\ outbl \notin OpenOf(w)
                      /\ outbl \in IdsOf(blocks)
  <2>1. SUFFICES ASSUME outbl # Nil
                 PROVE  Waits(P, us, outbl, k) /\ outbl \in IdsOf(blocks)
    OBVIOUS
  <2>2. outbl \in OpenOf(work) /\ Due(M, outbl, k)
    BY <2>1 DEF Waits
  <2>3. outbl \in IdsOf(blocks) /\ us[outbl + 1] = EmptyBlock
    BY <1>9, <2>2
  <2>4. P[<<outbl, 1>>] = M[<<outbl, 1>>]
    BY <1>1, <1>2, <2>3, KeepsDue
  <2> QED BY <1>9, <2>2, <2>3, <2>4 DEF Waits, Due
<1>12. fr.k = kind /\ fr.st = st /\ fr.f = N + 1 /\ fr.outbl = outbl /\ fr.outblID = outblID
  BY DEF fr, IfFrame
<1>13. FrameMeans(fr, k, k, P, us)
  <2>1. IfMeans(fr, k, P, us)
    <3>1. fr = IfFrame(fr.k, fr.st, fr.f, fr.outbl, fr.outblID)
      BY <1>12 DEF fr
    <3>2. outbl # N + 1
      BY <1>10, <1>11
    <3> HIDE DEF N
    <3> QED BY <1>6, <1>11, <1>12, <3>1, <3>2 DEF IfMeans
  <2> HIDE DEF N
  <2> QED BY <1>10, <1>12, <2>1 DEF FrameMeans
<1>14. Open(fr) = {N + 1, outbl} \ {Nil}
  BY <1>12 DEF Open
<1>15. OpenOf(w) \subseteq IdsOf(blocks)
  BY <1>9
<1> HIDE DEF N
<1>16. Open(fr) \cap OpenOf(w) = {}
  BY <1>10, <1>11, <1>14, <1>15
<1>17. Below(fr, w)
  BY <1>12 DEF Below
<1>18. PICK ms : /\ Stack(Push(fr, w), ms, P, us) /\ ms[1] = k
                 /\ OpenOf(Push(fr, w)) = Open(fr) \cup OpenOf(w)
                 /\ First(Push(fr, w)) = fr
  <2>1. Stack(w, ls, P, us) /\ Listed(k) /\ FrameMeans(fr, k, ls[1], P, us)
    BY <1>9, <1>13
  <2> QED BY <1>16, <1>17, <2>1, StackPush
<1>19. Listed(body \o k)
  BY <1>5, ListedJoin
<1>20. FrameMeans(fr2, body \o k, ms[1], P, us) /\ Open(fr2) = {} /\ fr2.k = "statements"
  BY <1>5, <1>18 DEF FrameMeans, fr2, Statements, Open
<1>21. Below(fr2, Push(fr, w))
  BY <1>12, <1>18, <1>20 DEF Below
<1>22. N \notin OpenOf(Push(fr, w))
  BY <1>10, <1>11, <1>14, <1>15, <1>18
<1>23. \A b \in IdsOf(us) : us[b + 1].out = NoFlow => b = N \/ b \in Open(fr2) \/ b \in OpenOf(Push(fr, w))
  <2>1. \A b \in IdsOf(us) : b \notin IdsOf(blocks) => b = N \/ b = N + 1
    <3>1. \A z : z \in IdsOf(us) <=> z \in IdsOf(blocks) \/ (z \in Int /\ N <= z /\ z < N + 2)
      BY <1>1, <1>3, <1>4, AlteredMade DEF N
    <3>2. \A z \in Int : N <= z /\ z < N + 2 => z = N \/ z = N + 1
      <4>1. N \in Nat
        BY <1>1
      <4> QED BY <4>1
    <3> QED BY <3>1, <3>2
  <2>2. N + 1 \in Open(fr) /\ (outbl # Nil => outbl \in Open(fr))
    BY <1>10, <1>14
  <2> QED BY <1>8, <1>9, <1>18, <2>1, <2>2
<1>24. \E ns : Gen(P, ns, Push(fr2, Push(fr, w)), us, N)
  <2>1. Open(fr2) \cap OpenOf(Push(fr, w)) = {} /\ N \notin Open(fr2)
    BY <1>20
  <2> DEFINE v == Push(fr, w)
             kb == body \o k
  <2>2. Waits(P, us, N, kb) /\ Listed(kb) /\ FrameMeans(fr2, kb, ms[1], P, us)
    BY <1>10, <1>19, <1>20
  <2> HIDE DEF v, kb
  <2> QED BY <1>9, <1>18, <1>21, <1>22, <1>23, <2>1, <2>2, PushGen DEF v
<1>25. work' = Push(fr2, Push(fr, w)) /\ blocks' = us /\ curr' = N
  <2>1. Listed(w)
    BY StackIs
  <2> QED BY <2>1, PushTwo DEF fr, fr2, us, body, o
<1> QED BY <1>9, <1>24, <1>25 DEF GenAgain

LEMMA GenIfGen ==
  ASSUME NEW M, NEW ks, Gen(M, ks, work, blocks, curr), GenIf
  PROVE  GenAgain(M)
<1>1. /\ work # <<>> /\ Top.k = "statements" /\ Top.s # <<>> /\ curr # Nil /\ St.k = "if"
      /\ work' = <<Statements(Head(St.arms).body), IfFrame("true", St, N + 1, Nil, 0)>> \o Later
      /\ blocks' = WithNew(SetOut(GenExpr(blocks, curr, St.e), curr, Branch(St.e, N, N + 1)), 2)
      /\ curr' = N
  BY DEF GenIf, GenArm, AtStatement, AtFrame, Go, St
<1>2. PICK ls : /\ Stack(Later, ls, M, blocks) /\ Listed(ls[1]) /\ Later # <<>>
                /\ First(Later).k = "statements" /\ OpenOf(Later) = OpenOf(work)
                /\ M[<<curr, Len(blocks[curr + 1].code) + 1>>] = Machine(Push(St, ls[1]), FALSE)
                /\ St \in Stmts
  BY <1>1, AtOne
<1>3. Ends(M, curr, blocks[curr + 1].code, Machine(Push(St, ls[1]), FALSE))
  BY <1>2 DEF Ends
<1>4. blocks[curr + 1].out = NoFlow
  BY <1>1, Popped DEF UnderTop
<1>5. OpenOf(work) = OpenOf(Later) \cup ({Nil} \ {Nil})
  BY <1>2
<1> QED BY <1>1, <1>2, <1>3, <1>4, <1>5, ArmGen

LEMMA GenElseIfGen ==
  ASSUME NEW M, NEW ks, Gen(M, ks, work, blocks, curr), GenElseIf
  PROVE  GenAgain(M)
<1> DEFINE st == If(Tail(Top.st.arms), Top.st.else)
<1>1. /\ work # <<>> /\ Top.k = "chain" /\ Len(Top.st.arms) > 1
      /\ work' = <<Statements(Head(st.arms).body),
                   IfFrame("elseif", st, N + 1, Top.outbl, Top.outblID)>> \o Rest
      /\ blocks' = WithNew(SetOut(GenExpr(blocks, curr, st.e), curr, Branch(st.e, N, N + 1)), 2)
      /\ curr' = N
  BY DEF GenElseIf, GenArm, AtFrame, Go, If
<1> HIDE DEF st
<1>2. PICK ls : UnderTop(ls, ks, M)
  BY <1>1, Popped
<1> USE DEF UnderTop
<1>3. curr # Nil /\ blocks[curr + 1].out = NoFlow
  BY <1>1, <1>2
<1>4. IfMeans(Top, ls[1], M, blocks) /\ ks[1] = Chosen(Top.st, FALSE) \o ls[1]
  BY <1>1, <1>2 DEF FrameMeans
<1>5. Chosen(Top.st, FALSE) = <<st>> /\ st \in Stmts /\ st.k = "if"
  <2>1. Top.st \in Stmts /\ Top.st.k = "if"
    BY <1>4 DEF IfMeans
  <2> QED BY <1>1, <2>1, IfParts DEF st
<1>6. Ends(M, curr, blocks[curr + 1].code, Machine(Push(st, ls[1]), FALSE))
  <2>1. M[<<curr, Len(blocks[curr + 1].code) + 1>>] = Machine(ks[1], FALSE)
    BY <1>3 DEF Gen
  <2>2. ks[1] = Push(st, ls[1])
    BY <1>4, <1>5 DEF Push
  <2> QED BY <2>1, <2>2 DEF Ends
<1>7. Open(Top) = {Top.outbl} \ {Nil}
  BY <1>1 DEF Open
<1>8. Top.outbl # Nil => /\ Top.outblID = Top.outbl /\ Waits(M, blocks, Top.outbl, ls[1])
                         /\ Top.outbl \notin OpenOf(Rest)
  BY <1>2, <1>4, <1>7 DEF IfMeans
<1>9. OpenOf(work) = OpenOf(Rest) \cup ({Top.outbl} \ {Nil})
  BY <1>2, <1>7
<1>10. Rest # <<>> => First(Rest).k = "statements"
  BY <1>1, <1>2 DEF Below
<1> HIDE DEF Top
<1> QED BY <1>1, <1>2, <1>3, <1>5, <1>6, <1>8, <1>9, <1>10, ArmGen

\* The block that control is in jumps to a block that goes on as it would.
LEMMA JmpFull ==
  ASSUME NEW M, NEW ks, Gen(M, ks, work, blocks, curr), curr # Nil, blocks[curr + 1].out = NoFlow,
         NEW v, NEW ls, Stack(v, ls, M, blocks), OpenOf(v) \subseteq OpenOf(work),
         NEW P, Keeps(M, P, blocks), NEW t, NEW n \in Nat, NEW us,
         Alters(blocks, us, curr, blocks[curr + 1].code, JmpTo(t), n),
         t \in IdsOf(us), Leads(Machine(ks[1], FALSE), P[<<t, 1>>])
  PROVE  Full(M, P, work, v, ls, blocks, curr, us, blocks[curr + 1].code, JmpTo(t))
<1> DEFINE code == blocks[curr + 1].code
           m == Machine(ks[1], FALSE)
<1>1. curr \in IdsOf(blocks) /\ Made(blocks)
  BY DEF Gen
<1>2. Listed(code) /\ Len(code) \in Nat
  BY <1>1, MadeIs, ListedIs
<1>3. M[<<curr, Len(code) + 1>>] = m
  BY DEF Gen
<1>4. P[<<curr, Len(code) + 1>>] = m
  <2>1. Len(code) + 1 \in 1 .. Len(code) + 1
    BY <1>2
  <2> QED BY <1>1, <1>3, <2>1 DEF Keeps
<1>5. Flows(P, P[<<curr, Len(code) + 1>>], JmpTo(t), IdsOf(us))
  <2>1. JmpTo(t).t = "jmp" /\ JmpTo(t).true = t
    BY DEF JmpTo, Flow
  <2> HIDE DEF m
  <2>2. Leads(m, P[<<t, 1>>])
    BY DEF m
  <2> QED BY <1>4, <2>1, <2>2 DEF Flows
<1>6. Continued(M, P, curr, code, code)
  BY DEF Continued
<1>7. Fills(M, P, work, v, ls, blocks, curr, us, code, JmpTo(t), n)
  BY <1>2, <1>5, <1>6 DEF Fills
<1> QED BY <1>7, Filled

LEMMA NewBlocks ==
  ASSUME NEW bs, Made(bs), NEW b \in IdsOf(bs), NEW o, NEW n \in Nat
  PROVE  /\ Alters(bs, WithNew(SetOut(bs, b, o), n), b, bs[b + 1].code, o, n)
         /\ \A i \in 0 .. n - 1 : /\ Len(bs) + i \in IdsOf(WithNew(SetOut(bs, b, o), n))
                                  /\ Len(bs) + i \notin IdsOf(bs)
         /\ Len(bs) \in Nat
<1> DEFINE us == WithNew(SetOut(bs, b, o), n)
<1>1. Alters(bs, us, b, bs[b + 1].code, o, n)
  <2>1. Alters(bs, SetOut(bs, b, o), b, bs[b + 1].code, o, 0)
    BY SetOutAlters
  <2> QED BY <2>1, ThenNew
<1>2. Len(us) = Len(bs) + n /\ Len(bs) \in Nat
  BY <1>1, MadeIs DEF Alters
<1> HIDE DEF us
<1>3. \A i \in 0 .. n - 1 : Len(bs) + i \in IdsOf(us) /\ Len(bs) + i \notin IdsOf(bs)
  BY <1>2 DEF IdsOf
<1> QED BY <1>1, <1>2, <1>3 DEF us

LEMMA OneNew ==
  ASSUME Made(blocks), curr \in IdsOf(blocks)
  PROVE  LET us == WithNew(SetOut(blocks, curr, JmpTo(N)), 1)
         IN  /\ Alters(blocks, us, curr, blocks[curr + 1].code, JmpTo(N), 1)
             /\ N \in IdsOf(us) /\ N \notin IdsOf(blocks) /\ N \in Nat
<1> DEFINE us == WithNew(SetOut(blocks, curr, JmpTo(N)), 1)
<1>1. 0 \in 0 .. 1 - 1 /\ 1 \in Nat
  OBVIOUS
<1>2. N = Len(blocks) /\ Len(blocks) \in Nat
  BY MadeIs DEF N
<1>3. /\ Alters(blocks, us, curr, blocks[curr + 1].code, JmpTo(N), 1)
      /\ Len(blocks) + 0 \in IdsOf(us) /\ Len(blocks) + 0 \notin IdsOf(blocks)
  BY <1>1, NewBlocks
<1>4. Len(blocks) + 0 = N
  BY <1>2
<1> QED BY <1>2, <1>3, <1>4

\* Control goes on to a block that waits for what comes next.
LEMMA BackGen ==
  ASSUME NEW w, NEW ls, NEW P, NEW us, Stack(w, ls, P, us), Made(us), 0 \in IdsOf(us),
         \A x \in IdsOf(us) : Means(P, us, x),
         NEW c, Waits(P, us, c, ls[1]), c \notin OpenOf(w),
         \A b \in IdsOf(us) : us[b + 1].out = NoFlow => b = c \/ b \in OpenOf(w)
  PROVE  Gen(P, ls, w, us, c)
<1>1. c \in IdsOf(us) /\ us[c + 1].out = NoFlow /\ us[c + 1].code = <<>>
      /\ P[<<c, 1>>] = Machine(ls[1], FALSE)
  BY EmptyIs DEF Waits, Due
<1>2. Len(us[c + 1].code) + 1 = 1
  BY <1>1
<1>3. P[<<c, Len(us[c + 1].code) + 1>>] = Machine(ls[1], FALSE)
  BY <1>1, <1>2
<1>4. c # Nil
  BY <1>1, MadeIs DEF Nil
<1> QED BY <1>1, <1>3, <1>4 DEF Gen

LEMMA WaitsKept ==
  ASSUME NEW bs, Made(bs), NEW M, NEW P, Keeps(M, P, bs), NEW us, IdsOf(bs) \subseteq IdsOf(us),
         NEW b, NEW k, Waits(M, bs, b, k), us[b + 1] = EmptyBlock
  PROVE  Waits(P, us, b, k)
<1>1. b \in IdsOf(bs)
  BY DEF Waits
<1>2. P[<<b, 1>>] = M[<<b, 1>>]
  BY <1>1, KeepsDue
<1> QED BY <1>1, <1>2 DEF Waits, Due

\* A position for the first of the new blocks.
LEMMA OneMore ==
  ASSUME NEW bs, Made(bs), NEW c \in IdsOf(bs), NEW M, NEW y
  PROVE  \E P : Keeps(M, P, bs) /\ P[<<Len(bs), 1>>] = y
<1>1. Extends(Extension(M, bs, c, y, y, y, y, y), M, bs, c, y, y, y, y, y)
  BY Extended
<1> QED BY <1>1 DEF Extends

LEMMA GenIfTrueGen ==
  ASSUME NEW M, NEW ks, Gen(M, ks, work, blocks, curr), GenIfTrue
  PROVE  GenAgain(M)
<1> DEFINE st == Top.st
           f == Top.f
<1>1. /\ work # <<>> /\ Top.k = "true" /\ curr' = f
      /\ Continues => /\ work' = <<IfFrame("chain", st, f, N, N)>> \o Rest
                      /\ blocks' = WithNew(SetOut(blocks, curr, JmpTo(N)), 1)
      /\ ~Continues => /\ work' = <<IfFrame("chain", st, f, Nil, 0)>> \o Rest
                       /\ blocks' = blocks
  BY DEF GenIfTrue, AtFrame, Go
<1>2. PICK ls : UnderTop(ls, ks, M)
  BY <1>1, Popped
<1> USE DEF UnderTop
<1> DEFINE l == ls[1]
           k == Chosen(st, FALSE) \o l
<1>3. /\ ks[1] = l /\ st \in Stmts /\ st.k = "if" /\ f \in IdsOf(blocks) /\ Top.outbl = Nil
      /\ Waits(M, blocks, f, k)
  BY <1>1, <1>2 DEF FrameMeans, IfMeans
<1>4. Made(blocks) /\ 0 \in IdsOf(blocks) /\ f # Nil
      /\ (\A x \in IdsOf(blocks) : Means(M, blocks, x)) /\ curr \notin OpenOf(work)
      /\ curr \in IdsOf(blocks) \cup {Nil}
      /\ \A b \in IdsOf(blocks) : blocks[b + 1].out = NoFlow => b = curr \/ b \in OpenOf(work)
  <2>1. Made(blocks) /\ 0 \in IdsOf(blocks)
      /\ (\A x \in IdsOf(blocks) : Means(M, blocks, x)) /\ curr \notin OpenOf(work)
      /\ curr \in IdsOf(blocks) \cup {Nil}
      /\ \A b \in IdsOf(blocks) : blocks[b + 1].out = NoFlow => b = curr \/ b \in OpenOf(work)
    BY DEF Gen
  <2> QED BY <1>3, <2>1, MadeIs DEF Nil
<1>5. Listed(k)
  <2>1. Listed(Chosen(st, FALSE))
    BY <1>3, IfParts
  <2> QED BY <1>2, <2>1, ListedJoin
<1>6. Open(Top) = {f}
  BY <1>1, <1>3, <1>4 DEF Open
<1> HIDE DEF st, f, k
<1>7. CASE Continues
  <2>1. curr # Nil /\ blocks[curr + 1].out = NoFlow
    BY <1>7 DEF Continues, HasFlow, Out
  <2> DEFINE us == WithNew(SetOut(blocks, curr, JmpTo(N)), 1)
             fr == IfFrame("chain", st, f, N, N)
             code == blocks[curr + 1].code
             y == Machine(l, FALSE)
  <2>2. /\ Alters(blocks, us, curr, code, JmpTo(N), 1)
        /\ N \in IdsOf(us) /\ N \notin IdsOf(blocks) /\ N \in Nat
    <3>1. curr \in IdsOf(blocks)
      BY <1>4, <2>1
    <3> QED BY <1>4, <3>1, OneNew
  <2> HIDE DEF us
  <2>3. PICK P : Keeps(M, P, blocks) /\ P[<<N, 1>>] = y
    BY <1>4, <2>1, OneMore DEF N
  <2>4. Full(M, P, work, Rest, ls, blocks, curr, us, code, JmpTo(N))
    <3>1. Leads(Machine(ks[1], FALSE), P[<<N, 1>>])
      BY <1>3, <2>3 DEF Leads
    <3>2. OpenOf(Rest) \subseteq OpenOf(work) /\ 1 \in Nat
      BY <1>2
    <3> QED BY <1>2, <2>1, <2>2, <2>3, <3>1, <3>2, JmpFull
  <2>5. /\ Made(us) /\ 0 \in IdsOf(us) /\ IdsOf(blocks) \subseteq IdsOf(us)
        /\ \A x \in IdsOf(us) : Means(P, us, x)
        /\ Stack(Rest, ls, P, us)
        /\ \A b \in OpenOf(work) : b \in IdsOf(blocks) /\ us[b + 1] = EmptyBlock
        /\ \A b \in IdsOf(us) : us[b + 1].out = NoFlow => b \in OpenOf(work) \/ b \notin IdsOf(blocks)
        /\ \A b \in IdsOf(us) : b \notin IdsOf(blocks) => us[b + 1] = EmptyBlock
        /\ P[<<0, 1>>] = M[<<0, 1>>]
    BY <2>4, NotNoFlow DEF Full
  <2>6. Waits(P, us, f, k) /\ Waits(P, us, N, l)
    <3>1. us[f + 1] = EmptyBlock /\ us[N + 1] = EmptyBlock
      BY <1>2, <1>6, <2>2, <2>5
    <3>2. Waits(P, us, f, k)
      BY <1>3, <1>4, <2>3, <2>5, <3>1, WaitsKept
    <3> QED BY <2>2, <2>3, <3>1, <3>2 DEF Waits, Due
  <2>7. FrameMeans(fr, k, l, P, us)
    <3>1. IfMeans(fr, l, P, us)
      BY <1>3, <2>2, <2>5, <2>6 DEF IfMeans, IfFrame
    <3> QED BY <3>1 DEF FrameMeans, k, IfFrame
  <2>8. Open(fr) = {N}
    <3>1. N # Nil
      BY <2>2 DEF Nil
    <3> QED BY <3>1 DEF Open, IfFrame
  <2>9. Below(fr, Rest)
    BY <1>1, <1>2 DEF Below, IfFrame
  <2>10. Open(fr) \cap OpenOf(Rest) = {} /\ f \notin OpenOf(Rest) /\ f \notin Open(fr)
    BY <1>2, <1>3, <1>6, <2>2, <2>5, <2>8
  <2>11. \A b \in IdsOf(us) : us[b + 1].out = NoFlow => b = f \/ b \in Open(fr) \/ b \in OpenOf(Rest)
    <3>1. \A b \in IdsOf(us) : b \notin IdsOf(blocks) => b = N
      <4>1. Len(us) = N + 1
        BY <2>2 DEF Alters, N
      <4> QED BY <2>2, <4>1 DEF IdsOf, N
    <3> QED BY <1>2, <1>6, <2>5, <2>8, <3>1
  <2> HIDE DEF fr
  <2>12. \E ms : Gen(P, ms, Push(fr, Rest), us, f)
    BY <1>5, <2>5, <2>6, <2>7, <2>9, <2>10, <2>11, PushGen
  <2>13. work' = Push(fr, Rest) /\ blocks' = us /\ curr' = f
    BY <1>1, <1>7 DEF Push, us, fr
  <2> QED BY <2>5, <2>12, <2>13 DEF GenAgain
<1>8. CASE ~Continues
  <2> DEFINE fr == IfFrame("chain", st, f, Nil, 0)
  <2>1. FrameMeans(fr, k, l, M, blocks)
    <3>1. IfMeans(fr, l, M, blocks)
      BY <1>3, <1>4 DEF IfMeans, IfFrame
    <3> QED BY <3>1 DEF FrameMeans, k, IfFrame
  <2>2. Open(fr) = {}
    BY DEF Open, IfFrame
  <2>3. Below(fr, Rest)
    BY <1>1, <1>2 DEF Below, IfFrame
  <2>4. curr = Nil \/ blocks[curr + 1].out # NoFlow
    BY <1>8 DEF Continues, HasFlow, Out
  <2>5. \A b \in IdsOf(blocks) : blocks[b + 1].out = NoFlow => b = f \/ b \in Open(fr) \/ b \in OpenOf(Rest)
    <3>1. Nil \notin IdsOf(blocks)
      BY <1>4, MadeIs DEF Nil
    <3> QED BY <1>2, <1>4, <1>6, <2>4, <3>1
  <2>6. Open(fr) \cap OpenOf(Rest) = {} /\ f \notin OpenOf(Rest) /\ f \notin Open(fr)
    BY <1>2, <1>6, <2>2
  <2> HIDE DEF fr
  <2>7. \E ms : Gen(M, ms, Push(fr, Rest), blocks, f)
    BY <1>2, <1>3, <1>4, <1>5, <2>1, <2>3, <2>5, <2>6, PushGen
  <2>8. work' = Push(fr, Rest) /\ blocks' = blocks /\ curr' = f
    BY <1>1, <1>8 DEF Push, fr
  <2> QED BY <2>7, <2>8 DEF GenAgain
<1> QED BY <1>7, <1>8

\* Control has left the block it was in, if not by a flow of its own.
Settled(M, w, v, ls, us) ==
  /\ Made(us) /\ 0 \in IdsOf(us)
  /\ \A x \in IdsOf(us) : Means(M, us, x)
  /\ Stack(v, ls, M, us)
  /\ \A b \in OpenOf(w) : b \in IdsOf(us) /\ us[b + 1] = EmptyBlock
  /\ \A b \in IdsOf(us) : us[b + 1].out = NoFlow => b \in OpenOf(w)

LEMMA JmpOrNot ==
  ASSUME NEW M, NEW ks, Gen(M, ks, work, blocks, curr),
         NEW v, NEW ls, Stack(v, ls, M, blocks), OpenOf(v) \subseteq OpenOf(work),
         NEW t, Continues => t \in IdsOf(blocks) /\ Due(M, t, ks[1]),
         NEW us, us = IF Continues THEN SetOut(blocks, curr, JmpTo(t)) ELSE blocks
  PROVE  Settled(M, work, v, ls, us) /\ IdsOf(us) = IdsOf(blocks)
<1>1. /\ Made(blocks) /\ 0 \in IdsOf(blocks)
      /\ (\A x \in IdsOf(blocks) : Means(M, blocks, x))
      /\ curr \in IdsOf(blocks) \cup {Nil}
      /\ \A b \in IdsOf(blocks) : blocks[b + 1].out = NoFlow => b = curr \/ b \in OpenOf(work)
      /\ Stack(work, ks, M, blocks)
  BY DEF Gen
<1>2. CASE Continues
  <2> DEFINE vs   == SetOut(blocks, curr, JmpTo(t))
             code == blocks[curr + 1].code
  <2>1. curr # Nil /\ blocks[curr + 1].out = NoFlow /\ us = vs
    BY <1>2 DEF Continues, HasFlow, Out
  <2>2. curr \in IdsOf(blocks)
    BY <1>1, <2>1
  <2>3. Alters(blocks, vs, curr, code, JmpTo(t), 0)
    BY <1>1, <2>2, SetOutAlters
  <2> HIDE DEF vs
  <2>4. IdsOf(vs) = IdsOf(blocks)
    BY <1>1, <2>3, SameIds
  <2>5. Keeps(M, M, blocks)
    BY DEF Keeps
  <2>6. Full(M, M, work, v, ls, blocks, curr, vs, code, JmpTo(t))
    <3>1. Leads(Machine(ks[1], FALSE), M[<<t, 1>>])
      BY <1>2 DEF Leads, Due
    <3>2. t \in IdsOf(vs) /\ 0 \in Nat
      BY <1>2, <2>4
    <3> QED BY <2>1, <2>3, <2>5, <3>1, <3>2, JmpFull
  <2>7. JmpTo(t) # NoFlow
    BY NotNoFlow
  <2> QED BY <2>1, <2>4, <2>6, <2>7 DEF Full, Settled
<1>3. CASE ~Continues
  <2>1. us = blocks /\ (curr = Nil \/ blocks[curr + 1].out # NoFlow)
    BY <1>3 DEF Continues, HasFlow, Out
  <2>2. Nil \notin IdsOf(blocks)
    BY <1>1, MadeIs DEF Nil
  <2>3. \A b \in OpenOf(work) : b \in IdsOf(blocks) /\ blocks[b + 1] = EmptyBlock
    BY <1>1, OpenEmpty
  <2>4. \A b \in IdsOf(blocks) : blocks[b + 1].out = NoFlow => b \in OpenOf(work)
    BY <1>1, <2>1, <2>2
  <2> QED BY <1>1, <2>1, <2>3, <2>4 DEF Settled
<1> QED BY <1>2, <1>3

LEMMA GenElseIfEndGen ==
  ASSUME NEW M, NEW ks, Gen(M, ks, work, blocks, curr), GenElseIfEnd, ~Mislinked
  PROVE  GenAgain(M)
<1> DEFINE st == Top.st
           f == Top.f
           outbl == Top.outbl
           us == IF Continues THEN SetOut(blocks, curr, JmpTo(Top.outblID)) ELSE blocks
           fr == [Top EXCEPT !.k = "chain"]
<1>1. /\ work # <<>> /\ Top.k = "elseif" /\ AtFrame("elseif") /\ curr' = f
      /\ work' = <<fr>> \o Rest /\ blocks' = us
  BY DEF GenElseIfEnd, AtFrame, Go
<1>2. PICK ls : UnderTop(ls, ks, M)
  BY <1>1, Popped
<1> USE DEF UnderTop
<1> DEFINE l == ls[1]
           k == Chosen(st, FALSE) \o l
<1>3. /\ ks[1] = l /\ IfMeans(Top, l, M, blocks) /\ Waits(M, blocks, f, k)
  BY <1>1, <1>2 DEF FrameMeans
<1>4. /\ Top = IfFrame("elseif", st, f, outbl, Top.outblID)
      /\ st \in Stmts /\ st.k = "if" /\ f \in IdsOf(blocks) /\ outbl # f
      /\ outbl # Nil => Top.outblID = outbl /\ Waits(M, blocks, outbl, l)
  BY <1>1, <1>3 DEF IfMeans
<1>5. fr = IfFrame("chain", st, f, outbl, Top.outblID)
  BY <1>4 DEF IfFrame
<1>6. Made(blocks)
  BY DEF Gen
<1>7. f # Nil
  BY <1>4, <1>6, MadeIs DEF Nil
<1>8. Open(Top) = {f} \cup ({outbl} \ {Nil})
  BY <1>1, <1>7 DEF Open
<1>9. Listed(k)
  <2>1. Listed(Chosen(st, FALSE))
    BY <1>4, IfParts
  <2> QED BY <1>2, <2>1, ListedJoin
<1>10. Settled(M, work, Rest, ls, us) /\ IdsOf(us) = IdsOf(blocks)
  <2>1. Continues => Top.outblID \in IdsOf(blocks) /\ Due(M, Top.outblID, ks[1])
    <3>1. Continues => outbl # Nil
      BY <1>1 DEF Mislinked
    <3> QED BY <1>3, <1>4, <3>1 DEF Waits
  <2>2. OpenOf(Rest) \subseteq OpenOf(work)
    BY <1>2
  <2> QED BY <1>2, <2>1, <2>2, JmpOrNot
<1> HIDE DEF st, f, k, us, fr, outbl
<1>11. Keeps(M, M, blocks)
  BY DEF Keeps
<1>12. Waits(M, us, f, k) /\ (outbl # Nil => Waits(M, us, outbl, l))
  <2>1. us[f + 1] = EmptyBlock /\ (outbl # Nil => us[outbl + 1] = EmptyBlock)
    BY <1>2, <1>8, <1>10 DEF Settled
  <2> QED BY <1>3, <1>4, <1>6, <1>10, <1>11, <2>1, WaitsKept
<1>13. fr.k = "chain" /\ fr.st = st /\ fr.f = f /\ fr.outbl = outbl /\ fr.outblID = Top.outblID
  BY <1>5 DEF IfFrame
<1>14. FrameMeans(fr, k, l, M, us)
  <2>1. IfMeans(fr, l, M, us)
    BY <1>4, <1>5, <1>10, <1>12, <1>13 DEF IfMeans
  <2> QED BY <1>13, <2>1 DEF FrameMeans, k
<1>15. Open(fr) = {outbl} \ {Nil}
  BY <1>13 DEF Open
<1>16. Below(fr, Rest)
  BY <1>1, <1>2, <1>13 DEF Below
<1>17. Open(fr) \cap OpenOf(Rest) = {} /\ f \notin OpenOf(Rest) /\ f \notin Open(fr)
  BY <1>2, <1>4, <1>8, <1>15
<1>18. \A b \in IdsOf(us) : us[b + 1].out = NoFlow => b = f \/ b \in Open(fr) \/ b \in OpenOf(Rest)
  BY <1>2, <1>8, <1>10, <1>15 DEF Settled
<1>19. \E ms : Gen(M, ms, Push(fr, Rest), us, f)
  BY <1>9, <1>10, <1>12, <1>14, <1>16, <1>17, <1>18, PushGen DEF Settled
<1> QED BY <1>1, <1>19 DEF GenAgain, Push

LEMMA GenElseGen ==
  ASSUME NEW M, NEW ks, Gen(M, ks, work, blocks, curr), GenElse
  PROVE  GenAgain(M)
<1> DEFINE st == Top.st
           fr == [Top EXCEPT !.k = "else"]
           fr2 == Statements(st.else)
<1>1. /\ work # <<>> /\ Top.k = "chain" /\ Len(st.arms) = 1 /\ curr' = curr
      /\ work' = <<fr2, fr>> \o Rest /\ blocks' = blocks
  BY DEF GenElse, AtFrame, Go
<1>2. PICK ls : UnderTop(ls, ks, M)
  BY <1>1, Popped
<1> USE DEF UnderTop
<1>3. curr # Nil /\ blocks[curr + 1].out = NoFlow
  BY <1>1, <1>2
<1> DEFINE l == ls[1]
           k == st.else \o l
<1>4. /\ IfMeans(Top, l, M, blocks) /\ ks[1] = Chosen(st, FALSE) \o l
  BY <1>1, <1>2 DEF FrameMeans
<1>5. /\ Top = IfFrame("chain", st, Top.f, Top.outbl, Top.outblID) /\ st \in Stmts /\ st.k = "if"
  BY <1>1, <1>4 DEF IfMeans
<1>6. Chosen(st, FALSE) = st.else /\ Listed(st.else) /\ Elements(st.else) \subseteq Stmts
  BY <1>1, <1>5, IfParts
<1>7. ks[1] = k /\ Listed(k)
  BY <1>2, <1>4, <1>6, ListedJoin
<1>8. /\ fr.k = "else" /\ fr.st = st /\ fr.f = Top.f /\ fr.outbl = Top.outbl /\ fr.outblID = Top.outblID
      /\ fr = IfFrame("else", st, Top.f, Top.outbl, Top.outblID)
  BY <1>5 DEF IfFrame
<1>9. fr2 = Statements(st.else) /\ fr2.k = "statements" /\ fr2.s = st.else
  BY DEF Statements
<1> HIDE DEF st, k, fr, fr2
<1>10. FrameMeans(fr, l, l, M, blocks)
  <2>1. IfMeans(fr, l, M, blocks)
    BY <1>4, <1>5, <1>8 DEF IfMeans
  <2> QED BY <1>8, <2>1 DEF FrameMeans
<1>11. Open(fr) = Open(Top) /\ Open(fr2) = {}
  BY <1>1, <1>8, <1>9 DEF Open
<1>12. Below(fr, Rest)
  BY <1>1, <1>2, <1>8 DEF Below
<1>13. PICK ms : /\ Stack(Push(fr, Rest), ms, M, blocks) /\ ms[1] = l
                 /\ OpenOf(Push(fr, Rest)) = Open(fr) \cup OpenOf(Rest)
                 /\ First(Push(fr, Rest)) = fr
  BY <1>2, <1>10, <1>11, <1>12, StackPush
<1>14. FrameMeans(fr2, k, ms[1], M, blocks)
  BY <1>6, <1>9, <1>13 DEF FrameMeans, k
<1>15. Below(fr2, Push(fr, Rest))
  BY <1>8, <1>9, <1>13 DEF Below
<1> DEFINE w == Push(fr, Rest)
<1> HIDE DEF w
<1>16. Open(fr2) \cap OpenOf(w) = {}
  BY <1>11
<1>17. PICK ns : /\ Stack(Push(fr2, w), ns, M, blocks) /\ ns[1] = k
                 /\ OpenOf(Push(fr2, w)) = Open(fr2) \cup OpenOf(w)
                 /\ First(Push(fr2, w)) = fr2
  BY <1>7, <1>13, <1>14, <1>15, <1>16, StackPush DEF w
<1>18. OpenOf(Push(fr2, w)) = OpenOf(work)
  BY <1>2, <1>11, <1>13, <1>17 DEF w
<1>19. Gen(M, ns, Push(fr2, w), blocks, curr)
  BY <1>3, <1>7, <1>9, <1>17, <1>18 DEF Gen
<1>20. work' = Push(fr2, w)
  <2>1. Listed(Rest)
    BY <1>2, StackIs
  <2> QED BY <1>1, <2>1, PushTwo DEF w
<1> QED BY <1>1, <1>19, <1>20 DEF GenAgain

LEMMA GenIfEndGen ==
  ASSUME NEW M, NEW ks, Gen(M, ks, work, blocks, curr), GenIfEnd
  PROVE  GenAgain(M)
<1> DEFINE outbl == Top.outbl
<1>1. /\ work # <<>> /\ Top.k = "else" /\ work' = Rest
      /\ Continues /\ outbl = Nil =>
           blocks' = WithNew(SetOut(blocks, curr, JmpTo(N)), 1) /\ curr' = N
      /\ ~(Continues /\ outbl = Nil) =>
           /\ blocks' = IF Continues THEN SetOut(blocks, curr, JmpTo(Top.outblID)) ELSE blocks
           /\ curr' = outbl
  BY DEF GenIfEnd, AtFrame, Go
<1>2. PICK ls : UnderTop(ls, ks, M)
  BY <1>1, Popped
<1> USE DEF UnderTop
<1> DEFINE l == ls[1]
<1>3. /\ ks[1] = l
      /\ outbl # Nil => Top.outblID = outbl /\ Waits(M, blocks, outbl, l)
  BY <1>1, <1>2 DEF FrameMeans, IfMeans
<1>4. Open(Top) = {outbl} \ {Nil}
  BY <1>1 DEF Open
<1>5. Made(blocks) /\ curr \in IdsOf(blocks) \cup {Nil}
  BY DEF Gen
<1> HIDE DEF outbl
<1>6. CASE Continues /\ outbl = Nil
  <2>1. curr # Nil /\ blocks[curr + 1].out = NoFlow
    BY <1>6 DEF Continues, HasFlow, Out
  <2> DEFINE us == WithNew(SetOut(blocks, curr, JmpTo(N)), 1)
             code == blocks[curr + 1].code
             y == Machine(l, FALSE)
  <2>2. /\ Alters(blocks, us, curr, code, JmpTo(N), 1)
        /\ N \in IdsOf(us) /\ N \notin IdsOf(blocks) /\ N \in Nat
    <3>1. curr \in IdsOf(blocks)
      BY <1>5, <2>1
    <3> QED BY <1>5, <3>1, OneNew
  <2> HIDE DEF us
  <2>3. PICK P : Keeps(M, P, blocks) /\ P[<<N, 1>>] = y
    BY <1>5, <2>1, OneMore DEF N
  <2>4. Full(M, P, work, Rest, ls, blocks, curr, us, code, JmpTo(N))
    <3>1. Leads(Machine(ks[1], FALSE), P[<<N, 1>>])
      BY <1>3, <2>3 DEF Leads
    <3>2. OpenOf(Rest) \subseteq OpenOf(work) /\ 1 \in Nat
      BY <1>2
    <3> QED BY <1>2, <2>1, <2>2, <2>3, <3>1, <3>2, JmpFull
  <2>5. /\ Made(us) /\ 0 \in IdsOf(us)
        /\ \A x \in IdsOf(us) : Means(P, us, x)
        /\ Stack(Rest, ls, P, us)
        /\ \A b \in OpenOf(work) : b \in IdsOf(blocks)
        /\ \A b \in IdsOf(us) : us[b + 1].out = NoFlow => b \in OpenOf(work) \/ b \notin IdsOf(blocks)
        /\ \A b \in IdsOf(us) : b \notin IdsOf(blocks) => us[b + 1] = EmptyBlock
        /\ P[<<0, 1>>] = M[<<0, 1>>]
    BY <2>4, NotNoFlow DEF Full
  <2>6. Waits(P, us, N, l)
    BY <2>2, <2>3, <2>5 DEF Waits, Due
  <2>7. OpenOf(work) = OpenOf(Rest) /\ N \notin OpenOf(Rest)
    BY <1>2, <1>4, <1>6, <2>2, <2>5
  <2>8. \A b \in IdsOf(us) : us[b + 1].out = NoFlow => b = N \/ b \in OpenOf(Rest)
    <3>1. \A b \in IdsOf(us) : b \notin IdsOf(blocks) => b = N
      <4>1. Len(us) = N + 1
        BY <2>2 DEF Alters, N
      <4> QED BY <2>2, <4>1 DEF IdsOf, N
    <3> QED BY <2>5, <2>7, <3>1
  <2>9. Gen(P, ls, Rest, us, N)
    BY <2>5, <2>6, <2>7, <2>8, BackGen
  <2> QED BY <1>1, <1>6, <2>5, <2>9 DEF GenAgain, us
<1>7. CASE ~(Continues /\ outbl = Nil)
  <2> DEFINE us == IF Continues THEN SetOut(blocks, curr, JmpTo(Top.outblID)) ELSE blocks
  <2>1. Settled(M, work, Rest, ls, us) /\ IdsOf(us) = IdsOf(blocks)
    <3>1. Continues => Top.outblID \in IdsOf(blocks) /\ Due(M, Top.outblID, ks[1])
      BY <1>3, <1>7 DEF Waits
    <3>2. OpenOf(Rest) \subseteq OpenOf(work)
      BY <1>2
    <3> QED BY <1>2, <3>1, <3>2, JmpOrNot
  <2>2. work' = Rest /\ blocks' = us /\ curr' = outbl
    BY <1>1, <1>7
  <2> HIDE DEF us
  <2>3. CASE outbl = Nil
    <3>1. OpenOf(work) = OpenOf(Rest) /\ Nil \notin OpenOf(Rest)
      <4>1. Nil \notin IdsOf(us)
        BY <2>1, MadeIs DEF Settled, Nil
      <4> QED BY <1>2, <1>4, <2>1, <2>3, <4>1 DEF Settled
    <3>2. Rest # <<>> => First(Rest).k # "chain"
      BY <1>2 DEF Below
    <3>3. Gen(M, ls, Rest, us, Nil)
      BY <2>1, <3>1, <3>2 DEF Gen, Settled
    <3> QED BY <2>2, <2>3, <3>3 DEF GenAgain
  <2>4. CASE outbl # Nil
    <3>1. outbl \in OpenOf(work) /\ outbl \notin OpenOf(Rest) /\ Waits(M, blocks, outbl, l)
      BY <1>2, <1>3, <1>4, <2>4
    <3>2. Waits(M, us, outbl, l)
      <4>1. us[outbl + 1] = EmptyBlock
        BY <2>1, <3>1 DEF Settled
      <4>2. Keeps(M, M, blocks)
        BY DEF Keeps
      <4> QED BY <1>5, <2>1, <3>1, <4>1, <4>2, WaitsKept
    <3>3. \A b \in IdsOf(us) : us[b + 1].out = NoFlow => b = outbl \/ b \in OpenOf(Rest)
      BY <1>2, <1>4, <2>1 DEF Settled
    <3>4. Gen(M, ls, Rest, us, outbl)
      BY <2>1, <3>1, <3>2, <3>3, BackGen DEF Settled
    <3> QED BY <2>2, <3>4 DEF GenAgain
  <2> QED BY <2>3, <2>4
<1> QED BY <1>6, <1>7

LEMMA GenWhileEndGen ==
  ASSUME NEW M, NEW ks, Gen(M, ks, work, blocks, curr), GenWhileEnd
  PROVE  GenAgain(M)
<1> DEFINE end == Top.end
           us == IF Continues THEN SetOut(blocks, curr, JmpTo(Top.start)) ELSE blocks
<1>1. /\ work # <<>> /\ Top.k = "while" /\ curr # Nil
      /\ work' = Rest /\ blocks' = us /\ curr' = end
  BY DEF GenWhileEnd, AtFrame, Go, Continues
<1>2. PICK ls : UnderTop(ls, ks, M)
  BY <1>1, Popped
<1> USE DEF UnderTop
<1>3. /\ Top.start \in IdsOf(blocks) /\ Due(M, Top.start, ks[1])
      /\ Waits(M, blocks, end, ls[1])
  BY <1>1, <1>2 DEF FrameMeans
<1>4. Open(Top) = {end}
  BY <1>1 DEF Open
<1>5. Made(blocks)
  BY DEF Gen
<1>6. Settled(M, work, Rest, ls, us) /\ IdsOf(us) = IdsOf(blocks)
  <2>1. OpenOf(Rest) \subseteq OpenOf(work)
    BY <1>2
  <2> QED BY <1>2, <1>3, <2>1, JmpOrNot
<1> HIDE DEF us, end
<1>7. Waits(M, us, end, ls[1]) /\ end \notin OpenOf(Rest)
  <2>1. us[end + 1] = EmptyBlock
    BY <1>2, <1>4, <1>6 DEF Settled
  <2>2. Keeps(M, M, blocks)
    BY DEF Keeps
  <2> QED BY <1>2, <1>3, <1>4, <1>5, <1>6, <2>1, <2>2, WaitsKept
<1>8. \A b \in IdsOf(us) : us[b + 1].out = NoFlow => b = end \/ b \in OpenOf(Rest)
  BY <1>2, <1>4, <1>6 DEF Settled
<1>9. Gen(M, ls, Rest, us, end)
  BY <1>6, <1>7, <1>8, BackGen DEF Settled
<1> QED BY <1>1, <1>9 DEF GenAgain

\* Control enters a body, under the frame that handles its end.
LEMMA EnterGen ==
  ASSUME NEW w, NEW ls, NEW P, NEW us, Stack(w, ls, P, us), Made(us), 0 \in IdsOf(us),
         \A x \in IdsOf(us) : Means(P, us, x), w # <<>> => First(w).k = "statements",
         NEW fr, NEW k, Listed(k), FrameMeans(fr, k, ls[1], P, us),
         fr.k \notin {"statements", "chain"}, Open(fr) \cap OpenOf(w) = {},
         NEW body, Listed(body), Elements(body) \subseteq Stmts,
         NEW c, Waits(P, us, c, body \o k), c \notin OpenOf(w), c \notin Open(fr),
         \A b \in IdsOf(us) : us[b + 1].out = NoFlow => b = c \/ b \in Open(fr) \/ b \in OpenOf(w)
  PROVE  \E ms : Gen(P, ms, <<Statements(body), fr>> \o w, us, c)
<1> DEFINE fr2 == Statements(body)
           kb  == body \o k
<1>1. fr2.k = "statements" /\ fr2.s = body /\ fr2 = Statements(body) /\ Listed(kb)
  BY ListedJoin DEF Statements
<1> HIDE DEF fr2
<1>2. Below(fr, w)
  BY DEF Below
<1>3. PICK ms : /\ Stack(Push(fr, w), ms, P, us) /\ ms[1] = k
                /\ OpenOf(Push(fr, w)) = Open(fr) \cup OpenOf(w)
                /\ First(Push(fr, w)) = fr
  BY <1>2, StackPush
<1>4. FrameMeans(fr2, kb, ms[1], P, us) /\ Open(fr2) = {}
  BY <1>1, <1>3 DEF FrameMeans, Open
<1> HIDE DEF kb
<1>5. Below(fr2, Push(fr, w))
  BY <1>1, <1>3 DEF Below
<1> DEFINE v == Push(fr, w)
<1>6. <<Statements(body), fr>> \o w = Push(fr2, v)
  <2>1. Listed(w)
    BY StackIs
  <2> QED BY <2>1, PushTwo DEF fr2
<1> HIDE DEF v
<1>7. Stack(v, ms, P, us) /\ OpenOf(v) = Open(fr) \cup OpenOf(w) /\ Below(fr2, v)
  BY <1>3, <1>5 DEF v
<1>8. Open(fr2) \cap OpenOf(v) = {} /\ c \notin OpenOf(v) /\ c \notin Open(fr2)
  BY <1>4, <1>7
<1>9. Waits(P, us, c, kb)
  BY DEF kb
<1>10. \A b \in IdsOf(us) : us[b + 1].out = NoFlow => b = c \/ b \in Open(fr2) \/ b \in OpenOf(v)
  BY <1>7
<1>11. \E ns : Gen(P, ns, Push(fr2, v), us, c)
  BY <1>1, <1>4, <1>7, <1>8, <1>9, <1>10, PushGen
<1> QED BY <1>6, <1>11

LEMMA EnterIs ==
  ASSUME NEW st \in Stmts, st.k = "dowhile", NEW l, Listed(l)
  PROVE  /\ Silent(Machine(Push(st, l), FALSE))
         /\ Enter(Machine(Push(st, l), FALSE)) = Machine(st.body \o Push(Test(st), l), FALSE)
<1> DEFINE r == Push(st, l)
           body == st.body
<1>1. Head(r) = st /\ Tail(r) = l
  BY ListedPush DEF Push
<1>2. Listed(body) /\ Listed(<<Test(st)>>)
  BY LoopParts, ListedOne
<1> HIDE DEF body
<1>3. (body \o <<Test(st)>>) \o l = body \o (<<Test(st)>> \o l)
  BY <1>2, JoinAssociative
<1> HIDE DEF r
<1>4. Machine(r, FALSE).rest = r
  BY DEF Machine
<1>5. Enter(Machine(r, FALSE)) = Machine(body \o <<Test(st)>> \o l, FALSE)
  BY <1>1, <1>4 DEF Enter, Test, body
<1>6. Silent(Machine(Push(st, l), FALSE))
  BY MachineAt
<1> QED BY <1>3, <1>5, <1>6 DEF Push, r, body

\* The new blocks of a loop, and nothing else is new.
LEMMA NewIds ==
  ASSUME NEW bs, Made(bs), NEW us, NEW b, NEW code, NEW o, NEW n \in Nat,
         Alters(bs, us, b, code, o, n)
  PROVE  \A x \in IdsOf(us) : x \notin IdsOf(bs) => \E i \in 0 .. n - 1 : x = Len(bs) + i
<1>1. Len(us) = Len(bs) + n /\ Len(bs) \in Nat
  BY MadeIs DEF Alters
<1>2. SUFFICES ASSUME NEW x \in IdsOf(us), x \notin IdsOf(bs)
               PROVE  \E i \in 0 .. n - 1 : x = Len(bs) + i
  OBVIOUS
<1>3. x \in Int /\ Len(bs) <= x /\ x < Len(bs) + n
  BY <1>1, <1>2 DEF IdsOf
<1>4. x - Len(bs) \in 0 .. n - 1 /\ x = Len(bs) + (x - Len(bs))
  BY <1>1, <1>3
<1> QED BY <1>4

LEMMA GenDoWhileGen ==
  ASSUME NEW M, NEW ks, Gen(M, ks, work, blocks, curr), GenDoWhile
  PROVE  GenAgain(M)
<1> DEFINE us == WithNew(SetOut(blocks, curr, JmpTo(N)), 2)
           code == blocks[curr + 1].code
           fr == LoopFrame("dowhile", St.e, N, N + 1)
           body == St.body
<1>1. /\ work # <<>> /\ Top.k = "statements" /\ Top.s # <<>> /\ curr # Nil /\ St.k = "dowhile"
      /\ work' = <<Statements(body), fr>> \o Later
      /\ blocks' = us /\ curr' = N
  BY DEF GenDoWhile, AtStatement, AtFrame, Go, St
<1>2. PICK ls : /\ Stack(Later, ls, M, blocks) /\ Listed(ls[1]) /\ Later # <<>>
                /\ First(Later).k = "statements" /\ OpenOf(Later) = OpenOf(work)
                /\ M[<<curr, Len(code) + 1>>] = Machine(Push(St, ls[1]), FALSE)
                /\ St \in Stmts
  BY <1>1, AtOne
<1>3. blocks[curr + 1].out = NoFlow /\ curr \in IdsOf(blocks) /\ Made(blocks)
  <2>1. blocks[curr + 1].out = NoFlow
    BY <1>1, Popped DEF UnderTop
  <2> QED BY <1>1, <2>1 DEF Gen
<1> DEFINE l == ls[1]
           k == Push(Test(St), l)
           y == Machine(body \o k, FALSE)
           y1 == Machine(l, FALSE)
<1>4. Machine(ks[1], FALSE) = Machine(Push(St, l), FALSE)
  BY <1>1, <1>2, <1>3 DEF Gen
<1>5. /\ Silent(Machine(Push(St, l), FALSE))
      /\ Enter(Machine(Push(St, l), FALSE)) = y
  BY <1>1, <1>2, EnterIs
<1>6. Listed(body) /\ Elements(body) \subseteq Stmts
  BY <1>1, <1>2, LoopParts
<1>7. Listed(k)
  BY <1>2, ListedPush DEF Push
<1>8. fr.k = "dowhile" /\ fr.e = St.e /\ fr.start = N /\ fr.end = N + 1
  BY DEF LoopFrame
<1> HIDE DEF us, body, fr, k
<1>9. /\ Alters(blocks, us, curr, code, JmpTo(N), 2)
      /\ N \in IdsOf(us) /\ N + 1 \in IdsOf(us) /\ N \notin IdsOf(blocks) /\ N + 1 \notin IdsOf(blocks)
      /\ N \in Nat
  <2>1. 0 \in 0 .. 2 - 1 /\ 1 \in 0 .. 2 - 1 /\ 2 \in Nat
    OBVIOUS
  <2>2. N = Len(blocks) /\ Len(blocks) \in Nat
    BY <1>3, MadeIs DEF N
  <2>3. Alters(blocks, us, curr, code, JmpTo(N), 2)
        /\ Len(blocks) + 0 \in IdsOf(us) /\ Len(blocks) + 0 \notin IdsOf(blocks)
        /\ Len(blocks) + 1 \in IdsOf(us) /\ Len(blocks) + 1 \notin IdsOf(blocks)
    BY <1>3, <2>1, NewBlocks DEF us
  <2>4. Len(blocks) + 0 = N
    BY <2>2
  <2> QED BY <2>2, <2>3, <2>4
<1> DEFINE P == Extension(M, blocks, curr, y, y, y1, y, y)
<1>10. Keeps(M, P, blocks) /\ P[<<N, 1>>] = y /\ P[<<N + 1, 1>>] = y1
  <2> HIDE DEF y, y1
  <2>1. Extends(P, M, blocks, curr, y, y, y1, y, y)
    BY <1>3, Extended
  <2> HIDE DEF P
  <2> QED BY <2>1 DEF Extends, N
<1> HIDE DEF P
<1>11. Full(M, P, work, Later, ls, blocks, curr, us, code, JmpTo(N))
  <2>1. Leads(Machine(ks[1], FALSE), P[<<N, 1>>])
    BY <1>4, <1>5, <1>10 DEF Leads
  <2>2. OpenOf(Later) \subseteq OpenOf(work) /\ 2 \in Nat
    BY <1>2
  <2> HIDE DEF y
  <2> QED BY <1>1, <1>2, <1>3, <1>9, <1>10, <2>1, <2>2, JmpFull
<1>12. /\ Made(us) /\ 0 \in IdsOf(us)
       /\ \A x \in IdsOf(us) : Means(P, us, x)
       /\ Stack(Later, ls, P, us)
       /\ \A b \in OpenOf(Later) : b \in IdsOf(blocks)
       /\ \A b \in IdsOf(us) : us[b + 1].out = NoFlow => b \in OpenOf(Later) \/ b \notin IdsOf(blocks)
       /\ \A b \in IdsOf(us) : b \notin IdsOf(blocks) => us[b + 1] = EmptyBlock
       /\ P[<<0, 1>>] = M[<<0, 1>>]
  BY <1>2, <1>11, NotNoFlow DEF Full
<1>13. Waits(P, us, N, body \o k) /\ Waits(P, us, N + 1, l)
  BY <1>9, <1>10, <1>12 DEF Waits, Due
<1>14. FrameMeans(fr, k, l, P, us)
  <2>1. Due(P, N, St.body \o k)
    BY <1>13 DEF Waits, body
  <2>2. \E st \in Stmts : /\ st.k = "dowhile" /\ st.e = fr.e /\ k = Push(Test(st), l)
                          /\ Due(P, fr.start, st.body \o k)
    BY <1>1, <1>2, <1>8, <2>1 DEF k
  <2> HIDE DEF l
  <2> QED BY <1>8, <1>9, <1>13, <2>2 DEF FrameMeans
<1>15. Open(fr) = {N + 1} /\ N # N + 1
  BY <1>8, <1>9 DEF Open
<1>16. Open(fr) \cap OpenOf(Later) = {} /\ N \notin OpenOf(Later) /\ N \notin Open(fr)
  BY <1>9, <1>12, <1>15
<1>17. \A b \in IdsOf(us) : us[b + 1].out = NoFlow => b = N \/ b \in Open(fr) \/ b \in OpenOf(Later)
  <2>1. \A b \in IdsOf(us) : b \notin IdsOf(blocks) => \E i \in 0 .. 2 - 1 : b = Len(blocks) + i
    <3>1. 2 \in Nat
      OBVIOUS
    <3>2. Made(blocks) /\ Alters(blocks, us, curr, code, JmpTo(N), 2)
      BY <1>3, <1>9
    <3> HIDE DEF code
    <3> QED BY <3>1, <3>2, NewIds
  <2>2. \A i \in 0 .. 2 - 1 : Len(blocks) + i = N \/ Len(blocks) + i = N + 1
    BY <1>9 DEF N
  <2> QED BY <1>12, <1>15, <2>1, <2>2
<1>18. \E ms : Gen(P, ms, <<Statements(body), fr>> \o Later, us, N)
  BY <1>2, <1>6, <1>7, <1>8, <1>12, <1>13, <1>14, <1>16, <1>17, EnterGen
<1> QED BY <1>1, <1>12, <1>18 DEF GenAgain

LEMMA GenDoWhileEndGen ==
  ASSUME NEW M, NEW ks, Gen(M, ks, work, blocks, curr), GenDoWhileEnd, ~Overwritten
  PROVE  GenAgain(M)
<1> DEFINE e == Top.e
           end == Top.end
           o == Branch(e, Top.start, end)
           code == blocks[curr + 1].code
           code2 == Coded(code, e)
           us == SetOut(GenExpr(blocks, curr, e), curr, o)
<1>1. /\ work # <<>> /\ Top.k = "dowhile" /\ AtFrame("dowhile") /\ curr # Nil
      /\ work' = Rest /\ blocks' = us /\ curr' = end
  BY DEF GenDoWhileEnd, AtFrame, Go
<1>2. PICK ls : UnderTop(ls, ks, M)
  BY <1>1, Popped
<1> USE DEF UnderTop
<1> DEFINE l == ls[1]
           k == ks[1]
<1>3. PICK st \in Stmts : /\ st.k = "dowhile" /\ st.e = e /\ k = Push(Test(st), l)
                          /\ Due(M, Top.start, st.body \o k)
  BY <1>1, <1>2 DEF FrameMeans
<1>4. Top.start \in IdsOf(blocks) /\ Waits(M, blocks, end, l) /\ end \in IdsOf(blocks)
  BY <1>1, <1>2 DEF FrameMeans, Waits
<1>5. Open(Top) = {end}
  BY <1>1 DEF Open
<1>6. curr \in IdsOf(blocks) /\ Made(blocks) /\ Listed(code)
  <2>1. curr \in IdsOf(blocks) /\ Made(blocks)
    BY <1>1 DEF Gen
  <2> QED BY <2>1, MadeIs
<1>7. blocks[curr + 1].out = NoFlow
  BY <1>1 DEF Overwritten, HasFlow, Out
<1>8. Ends(M, curr, code, Machine(Push(Test(st), l), FALSE))
  BY <1>1, <1>3, <1>7 DEF Gen, Ends
<1>9. /\ Test(st).k = "test" /\ Test(st).e = e /\ Branching(Test(st))
      /\ Chosen(Test(st), TRUE) = <<st>> /\ Chosen(Test(st), FALSE) = <<>>
  BY <1>3, LoopParts
<1> DEFINE x == Machine(Push(Test(st), l), TRUE)
           P == Extension(M, blocks, curr, x, x, x, x, x)
<1> HIDE DEF x, us, code2, o
<1>10. Keeps(M, P, blocks) /\ Further(P, curr, code, x)
  <2>1. Extends(P, M, blocks, curr, x, x, x, x, x)
    BY <1>6, Extended
  <2> HIDE DEF P
  <2> QED BY <2>1 DEF Extends, Further
<1> HIDE DEF P
<1>11. /\ Continued(M, P, curr, code, code2) /\ Listed(code2)
       /\ Ends(P, curr, code2, x)
  <2>1. Further(P, curr, code, Machine(Push(Test(st), l), TRUE))
    BY <1>10 DEF x
  <2>2. Test(st).k \notin {"do", "dowhile"}
    BY <1>9
  <2> DEFINE ts == Test(st)
  <2> HIDE DEF ts, code, e
  <2>3. /\ Continued(M, P, curr, code, Coded(code, ts.e)) /\ Listed(Coded(code, ts.e))
        /\ Ends(P, curr, Coded(code, ts.e), Machine(Push(ts, l), TRUE))
    BY <1>2, <1>6, <1>8, <2>1, <2>2, Evaluated DEF ts
  <2> QED BY <1>9, <2>3 DEF ts, x, code2
<1>12. Alters(blocks, us, curr, code2, o, 0)
  <2> DEFINE vs == GenExpr(blocks, curr, e)
  <2>1. Alters(blocks, vs, curr, code2, blocks[curr + 1].out, 0)
    BY <1>6, GenExprAlters DEF code2, Coded
  <2> HIDE DEF vs
  <2>2. us = SetOut(vs, curr, o)
    BY DEF us, vs
  <2> QED BY <1>6, <1>11, <2>1, <2>2, ThenSetOut
<1>13. IdsOf(us) = IdsOf(blocks)
  BY <1>6, <1>12, SameIds
<1>14. P[<<Top.start, 1>>] = Machine(st.body \o k, FALSE) /\ P[<<end, 1>>] = Machine(l, FALSE)
  <2>1. P[<<Top.start, 1>>] = M[<<Top.start, 1>>] /\ P[<<end, 1>>] = M[<<end, 1>>]
    BY <1>4, <1>6, <1>10, KeepsDue
  <2> QED BY <1>3, <1>4, <2>1 DEF Due, Waits
<1>15. Flows(P, P[<<curr, Len(code2) + 1>>], o, IdsOf(us))
  <2>1. ~Silent(x) /\ Shows(x) = Take("branch", e)
    <3>1. ~Silent(x)
      BY <1>2, <1>9, MachineAt DEF x
    <3>2. Shows(x) = Take(IF Branching(Test(st)) THEN "branch" ELSE Test(st).k, Test(st).e)
      BY <1>2, MachineAt DEF x
    <3> QED BY <1>9, <3>1, <3>2
  <2>2. \A holds \in BOOLEAN : After(x, holds) = Machine(Chosen(Test(st), holds) \o l, FALSE)
    BY <1>2, <1>9, MachineAt DEF x
  <2>3. After(x, TRUE) = Machine(Push(st, l), FALSE)
    BY <1>9, <2>2 DEF Push
  <2>4. After(x, FALSE) = Machine(l, FALSE)
    BY <1>2, <1>9, <2>2, JoinEmpty
  <2>5. Leads(After(x, TRUE), P[<<Top.start, 1>>])
    BY <1>2, <1>3, <1>14, <2>3, EnterIs DEF Leads
  <2>6. Leads(After(x, FALSE), P[<<end, 1>>])
    BY <1>14, <2>4 DEF Leads
  <2>7. o.t = "branch" /\ o.true = Top.start /\ o.false = end /\ o.e = e
    BY DEF o, Branch, Flow
  <2>8. P[<<curr, Len(code2) + 1>>] = x
    BY <1>11 DEF Ends
  <2> QED BY <1>4, <1>13, <2>1, <2>5, <2>6, <2>7, <2>8 DEF Flows
<1>16. o # NoFlow
  BY NotNoFlow DEF o
<1>17. Full(M, P, work, Rest, ls, blocks, curr, us, code2, o)
  <2>1. OpenOf(Rest) \subseteq OpenOf(work)
    BY <1>2
  <2>2. Fills(M, P, work, Rest, ls, blocks, curr, us, code2, o, 0)
    BY <1>1, <1>2, <1>10, <1>11, <1>12, <1>15, <2>1 DEF Fills
  <2> QED BY <2>2, Filled
<1>18. /\ Made(us) /\ 0 \in IdsOf(us)
       /\ \A b \in IdsOf(us) : Means(P, us, b)
       /\ Stack(Rest, ls, P, us)
       /\ \A b \in OpenOf(work) : us[b + 1] = EmptyBlock
       /\ \A b \in IdsOf(us) : us[b + 1].out = NoFlow => b \in OpenOf(work)
       /\ P[<<0, 1>>] = M[<<0, 1>>]
  BY <1>13, <1>16, <1>17 DEF Full
<1>19. Waits(P, us, end, l) /\ end \notin OpenOf(Rest)
  <2>1. us[end + 1] = EmptyBlock
    BY <1>2, <1>5, <1>18
  <2> QED BY <1>2, <1>4, <1>5, <1>13, <1>14, <2>1 DEF Waits, Due
<1>20. \A b \in IdsOf(us) : us[b + 1].out = NoFlow => b = end \/ b \in OpenOf(Rest)
  BY <1>2, <1>5, <1>18
<1>21. Gen(P, ls, Rest, us, end)
  BY <1>18, <1>19, <1>20, BackGen
<1> QED BY <1>1, <1>18, <1>21 DEF GenAgain

\* The test of a while, in the first of its blocks.
Testing(P, bs, b, st, l, t, f, us) ==
  /\ Made(bs) /\ 0 \in IdsOf(bs) /\ \A x \in IdsOf(bs) : Means(P, bs, x)
  /\ b \in IdsOf(bs) /\ bs[b + 1] = EmptyBlock
  /\ st \in Stmts /\ st.k = "while" /\ Listed(l)
  /\ P[<<b, 1>>] = Machine(Push(st, l), FALSE) /\ P[<<b, 2>>] = Machine(Push(st, l), TRUE)
  /\ t \in IdsOf(bs) /\ P[<<t, 1>>] = Machine(st.body \o Push(st, l), FALSE)
  /\ f \in IdsOf(bs) /\ P[<<f, 1>>] = Machine(l, FALSE)
  /\ us = SetOut(GenExpr(bs, b, st.e), b, Branch(st.e, t, f))

LEMMA TestMeans ==
  ASSUME NEW P, NEW bs, NEW b, NEW st, NEW l, NEW t, NEW f, NEW us,
         Testing(P, bs, b, st, l, t, f, us)
  PROVE  /\ Made(us) /\ IdsOf(us) = IdsOf(bs)
         /\ \A x \in IdsOf(us) : Means(P, us, x)
         /\ \A x \in IdsOf(us) : x # b => us[x + 1] = bs[x + 1]
         /\ us[b + 1].out # NoFlow
<1> USE DEF Testing
<1> DEFINE e == st.e
           o == Branch(e, t, f)
           code2 == Coded(<<>>, e)
           x1 == Machine(Push(st, l), TRUE)
<1>1. bs[b + 1].code = <<>> /\ Listed(<<>>) /\ Len(<<>>) + 1 = 1 /\ Len(<<>>) + 2 = 2
  BY EmptyIs, ListedEmpty
<1>2. Continued(P, P, b, <<>>, code2) /\ Listed(code2) /\ Ends(P, b, code2, x1)
  <2>1. Ends(P, b, <<>>, Machine(Push(st, l), FALSE)) /\ Further(P, b, <<>>, Machine(Push(st, l), TRUE))
    BY <1>1 DEF Ends, Further
  <2>2. st.k \notin {"do", "dowhile"}
    OBVIOUS
  <2>3. /\ Continued(P, P, b, <<>>, Coded(<<>>, st.e)) /\ Listed(Coded(<<>>, st.e))
        /\ Ends(P, b, Coded(<<>>, st.e), Machine(Push(st, l), TRUE))
    BY <1>1, <2>1, <2>2, Evaluated
  <2> QED BY <2>3
<1> HIDE DEF code2, o
<1>3. Alters(bs, us, b, code2, o, 0)
  <2> DEFINE vs == GenExpr(bs, b, e)
  <2>1. Alters(bs, vs, b, code2, bs[b + 1].out, 0)
    BY <1>1, GenExprAlters DEF code2, Coded
  <2> HIDE DEF vs
  <2>2. us = SetOut(vs, b, o)
    BY DEF vs, o
  <2> QED BY <1>2, <2>1, <2>2, ThenSetOut
<1>4. Made(us) /\ IdsOf(us) = IdsOf(bs)
  <2>1. Made(us)
    BY <1>2, <1>3, AlteredMade
  <2> QED BY <1>3, <2>1, SameIds
<1>5. Chosen(st, TRUE) \o l = st.body \o Push(st, l) /\ Chosen(st, FALSE) \o l = l /\ Branching(st)
  <2> DEFINE body == st.body
  <2>1. Listed(body) /\ Chosen(st, TRUE) = body \o <<st>> /\ Chosen(st, FALSE) = <<>> /\ Branching(st)
    BY LoopParts
  <2> HIDE DEF body
  <2>2. (body \o <<st>>) \o l = body \o (<<st>> \o l)
    BY <2>1, ListedOne, JoinAssociative
  <2> QED BY <2>1, <2>2, JoinEmpty DEF body, Push
<1>6. Flows(P, P[<<b, Len(code2) + 1>>], o, IdsOf(us))
  <2>1. ~Silent(x1) /\ Shows(x1) = Take("branch", e)
    <3>1. ~Silent(x1)
      BY MachineAt
    <3>2. Shows(x1) = Take(IF Branching(st) THEN "branch" ELSE st.k, st.e)
      BY MachineAt
    <3> QED BY <1>5, <3>1, <3>2
  <2>2. \A holds \in BOOLEAN : After(x1, holds) = Machine(Chosen(st, holds) \o l, FALSE)
    BY <1>5, MachineAt
  <2>3. After(x1, TRUE) = P[<<t, 1>>] /\ After(x1, FALSE) = P[<<f, 1>>]
    BY <1>5, <2>2
  <2>4. o.t = "branch" /\ o.true = t /\ o.false = f /\ o.e = e
    BY DEF o, Branch, Flow
  <2>5. P[<<b, Len(code2) + 1>>] = x1
    BY <1>2 DEF Ends
  <2> HIDE DEF x1
  <2> QED BY <1>4, <2>1, <2>3, <2>4, <2>5 DEF Flows, Leads
<1>7. \A x \in IdsOf(us) : Means(P, us, x)
  <2>1. Keeps(P, P, bs)
    BY DEF Keeps
  <2>2. Continued(P, P, b, bs[b + 1].code, code2)
    BY <1>1, <1>2
  <2> QED BY <1>2, <1>3, <1>6, <2>1, <2>2, AlterMeans
<1>8. \A x \in IdsOf(us) : x # b => us[x + 1] = bs[x + 1]
  BY <1>3, <1>4 DEF Alters
<1>9. us[b + 1].out # NoFlow
  <2>1. us[b + 1].out = o
    BY <1>3 DEF Alters
  <2> QED BY <2>1, NotNoFlow DEF o
<1> QED BY <1>4, <1>7, <1>8, <1>9

LEMMA GenWhileGen ==
  ASSUME NEW M, NEW ks, Gen(M, ks, work, blocks, curr), GenWhile
  PROVE  GenAgain(M)
<1> DEFINE bs == WithNew(SetOut(blocks, curr, JmpTo(N)), 3)
           us == SetOut(GenExpr(bs, N, St.e), N, Branch(St.e, N + 1, N + 2))
           code == blocks[curr + 1].code
           fr == LoopFrame("while", St.e, N, N + 2)
           body == St.body
<1>1. /\ work # <<>> /\ Top.k = "statements" /\ Top.s # <<>> /\ curr # Nil /\ St.k = "while"
      /\ work' = <<Statements(body), fr>> \o Later
      /\ blocks' = us /\ curr' = N + 1
  BY DEF GenWhile, AtStatement, AtFrame, Go, St
<1>2. PICK ls : /\ Stack(Later, ls, M, blocks) /\ Listed(ls[1]) /\ Later # <<>>
                /\ First(Later).k = "statements" /\ OpenOf(Later) = OpenOf(work)
                /\ M[<<curr, Len(code) + 1>>] = Machine(Push(St, ls[1]), FALSE)
                /\ St \in Stmts
  BY <1>1, AtOne
<1>3. blocks[curr + 1].out = NoFlow /\ curr \in IdsOf(blocks) /\ Made(blocks)
  <2>1. blocks[curr + 1].out = NoFlow
    BY <1>1, Popped DEF UnderTop
  <2> QED BY <1>1, <2>1 DEF Gen
<1> DEFINE l == ls[1]
           k == Push(St, l)
           y == Machine(k, FALSE)
           y1 == Machine(body \o k, FALSE)
           y2 == Machine(l, FALSE)
           z == Machine(k, TRUE)
<1>4. Machine(ks[1], FALSE) = y
  BY <1>1, <1>2, <1>3 DEF Gen
<1>5. Listed(body) /\ Elements(body) \subseteq Stmts
  BY <1>1, <1>2, LoopParts
<1>6. Listed(k)
  BY <1>2, ListedPush DEF Push
<1>7. fr.k = "while" /\ fr.e = St.e /\ fr.start = N /\ fr.end = N + 2
  BY DEF LoopFrame
<1> HIDE DEF bs, us, body, fr, k
<1>8. /\ Alters(blocks, bs, curr, code, JmpTo(N), 3)
      /\ N \in IdsOf(bs) /\ N + 1 \in IdsOf(bs) /\ N + 2 \in IdsOf(bs)
      /\ N \notin IdsOf(blocks) /\ N + 1 \notin IdsOf(blocks) /\ N + 2 \notin IdsOf(blocks)
      /\ N \in Nat
  <2>1. 0 \in 0 .. 3 - 1 /\ 1 \in 0 .. 3 - 1 /\ 2 \in 0 .. 3 - 1 /\ 3 \in Nat
    OBVIOUS
  <2>2. N = Len(blocks) /\ Len(blocks) \in Nat
    BY <1>3, MadeIs DEF N
  <2>3. Alters(blocks, bs, curr, code, JmpTo(N), 3)
        /\ Len(blocks) + 0 \in IdsOf(bs) /\ Len(blocks) + 0 \notin IdsOf(blocks)
        /\ Len(blocks) + 1 \in IdsOf(bs) /\ Len(blocks) + 1 \notin IdsOf(blocks)
        /\ Len(blocks) + 2 \in IdsOf(bs) /\ Len(blocks) + 2 \notin IdsOf(blocks)
    BY <1>3, <2>1, NewBlocks DEF bs
  <2>4. Len(blocks) + 0 = N
    BY <2>2
  <2> QED BY <2>2, <2>3, <2>4
<1> DEFINE P == Extension(M, blocks, curr, y, y, y1, y2, z)
<1>9. Keeps(M, P, blocks) /\ P[<<N, 1>>] = y /\ P[<<N + 1, 1>>] = y1 /\ P[<<N + 2, 1>>] = y2
      /\ P[<<N, 2>>] = z
  <2> HIDE DEF y, y1, y2, z
  <2>1. Extends(P, M, blocks, curr, y, y, y1, y2, z)
    BY <1>3, Extended
  <2> HIDE DEF P
  <2> QED BY <2>1 DEF Extends, N
<1> HIDE DEF P
<1>10. Full(M, P, work, Later, ls, blocks, curr, bs, code, JmpTo(N))
  <2>1. Leads(Machine(ks[1], FALSE), P[<<N, 1>>])
    BY <1>4, <1>9 DEF Leads
  <2>2. OpenOf(Later) \subseteq OpenOf(work) /\ 3 \in Nat
    BY <1>2
  <2> HIDE DEF y
  <2> QED BY <1>1, <1>2, <1>3, <1>8, <1>9, <2>1, <2>2, JmpFull
<1>11. /\ Made(bs) /\ 0 \in IdsOf(bs)
       /\ \A x \in IdsOf(bs) : Means(P, bs, x)
       /\ Stack(Later, ls, P, bs)
       /\ \A b \in OpenOf(Later) : b \in IdsOf(blocks)
       /\ \A b \in IdsOf(bs) : bs[b + 1].out = NoFlow => b \in OpenOf(Later) \/ b \notin IdsOf(blocks)
       /\ \A b \in IdsOf(bs) : b \notin IdsOf(blocks) => bs[b + 1] = EmptyBlock
       /\ P[<<0, 1>>] = M[<<0, 1>>] /\ IdsOf(blocks) \subseteq IdsOf(bs)
  BY <1>2, <1>10, NotNoFlow DEF Full
<1>12. /\ Made(us) /\ IdsOf(us) = IdsOf(bs)
       /\ \A x \in IdsOf(us) : Means(P, us, x)
       /\ \A x \in IdsOf(us) : x # N => us[x + 1] = bs[x + 1]
       /\ us[N + 1].out # NoFlow
  <2>1. bs[N + 1] = EmptyBlock
    BY <1>8, <1>11
  <2>2. P[<<N + 1, 1>>] = Machine(St.body \o Push(St, l), FALSE)
    BY <1>9 DEF body, k
  <2>3. P[<<N, 1>>] = Machine(Push(St, l), FALSE) /\ P[<<N, 2>>] = Machine(Push(St, l), TRUE)
        /\ P[<<N + 2, 1>>] = Machine(l, FALSE)
    BY <1>9 DEF k
  <2> DEFINE t == N + 1
             f == N + 2
             s == St
  <2>4. us = SetOut(GenExpr(bs, N, s.e), N, Branch(s.e, t, f))
    BY DEF us
  <2> DEFINE n == N
  <2>5. Testing(P, bs, n, s, l, t, f, us)
    BY <1>1, <1>2, <1>8, <1>11, <2>1, <2>2, <2>3, <2>4 DEF Testing
  <2> HIDE DEF t, f, s, n
  <2>6. /\ Made(us) /\ IdsOf(us) = IdsOf(bs)
        /\ \A x \in IdsOf(us) : Means(P, us, x)
        /\ \A x \in IdsOf(us) : x # n => us[x + 1] = bs[x + 1]
        /\ us[n + 1].out # NoFlow
    BY <2>5, TestMeans
  <2> QED BY <2>6 DEF n
<1>13. Stack(Later, ls, P, us)
  <2>1. Keeps(P, P, bs)
    BY DEF Keeps
  <2>2. \A b \in OpenOf(Later) : us[b + 1] = bs[b + 1]
    BY <1>8, <1>11, <1>12
  <2> QED BY <1>11, <1>12, <2>1, <2>2, StackKept
<1>14. Waits(P, us, N + 1, body \o k) /\ Waits(P, us, N + 2, l)
  <2>1. N + 1 # N /\ N + 2 # N
    BY <1>8
  <2>2. us[(N + 1) + 1] = EmptyBlock /\ us[(N + 2) + 1] = EmptyBlock
    BY <1>8, <1>11, <1>12, <2>1
  <2> QED BY <1>8, <1>9, <1>12, <2>2 DEF Waits, Due
<1>15. FrameMeans(fr, k, l, P, us)
  <2>1. \E st \in Stmts : st.k = "while" /\ st.e = fr.e /\ k = Push(st, l)
    BY <1>1, <1>2, <1>7 DEF k
  <2>2. Due(P, fr.start, k)
    BY <1>7, <1>9 DEF Due
  <2> HIDE DEF l
  <2> QED BY <1>7, <1>8, <1>12, <1>14, <2>1, <2>2 DEF FrameMeans
<1>16. Open(fr) = {N + 2} /\ N + 1 # N + 2
  BY <1>7, <1>8 DEF Open
<1>17. Open(fr) \cap OpenOf(Later) = {} /\ N + 1 \notin OpenOf(Later) /\ N + 1 \notin Open(fr)
  BY <1>8, <1>11, <1>16
<1>18. \A b \in IdsOf(us) : us[b + 1].out = NoFlow => b = N + 1 \/ b \in Open(fr) \/ b \in OpenOf(Later)
  <2>1. \A b \in IdsOf(bs) : b \notin IdsOf(blocks) => \E i \in 0 .. 3 - 1 : b = Len(blocks) + i
    <3>1. 3 \in Nat
      OBVIOUS
    <3>2. Made(blocks) /\ Alters(blocks, bs, curr, code, JmpTo(N), 3)
      BY <1>3, <1>8
    <3> HIDE DEF code
    <3> QED BY <3>1, <3>2, NewIds
  <2>2. \A i \in 0 .. 3 - 1 : Len(blocks) + i = N \/ Len(blocks) + i = N + 1 \/ Len(blocks) + i = N + 2
    BY <1>8 DEF N
  <2>3. SUFFICES ASSUME NEW b \in IdsOf(us), us[b + 1].out = NoFlow
                 PROVE  b = N + 1 \/ b \in Open(fr) \/ b \in OpenOf(Later)
    OBVIOUS
  <2>4. b # N /\ bs[b + 1].out = NoFlow /\ b \in IdsOf(bs)
    BY <1>12, <2>3
  <2> QED BY <1>11, <1>16, <2>1, <2>2, <2>4
<1>19. \E ms : Gen(P, ms, <<Statements(body), fr>> \o Later, us, N + 1)
  <2> DEFINE c == N + 1
  <2>1. 0 \in IdsOf(us) /\ Waits(P, us, c, body \o k) /\ c \notin OpenOf(Later) /\ c \notin Open(fr)
        /\ \A b \in IdsOf(us) : us[b + 1].out = NoFlow => b = c \/ b \in Open(fr) \/ b \in OpenOf(Later)
    BY <1>11, <1>12, <1>14, <1>17, <1>18
  <2>2. fr.k \notin {"statements", "chain"}
    BY <1>7
  <2> HIDE DEF c
  <2>3. \E ms : Gen(P, ms, <<Statements(body), fr>> \o Later, us, c)
    BY <1>2, <1>5, <1>6, <1>12, <1>13, <1>15, <1>17, <2>1, <2>2, EnterGen
  <2> QED BY <2>3 DEF c
<1> QED BY <1>1, <1>11, <1>19 DEF GenAgain

\* A handler's step: the walk of the procedure goes on.
Walks == \/ GenBlockEnd \/ GenStatement
         \/ GenIf \/ GenIfTrue \/ GenElseIf \/ GenElseIfEnd \/ GenElse \/ GenIfEnd
         \/ GenWhile \/ GenWhileEnd \/ GenDoWhile \/ GenDoWhileEnd
         \/ GenReturn \/ GenExit

LEMMA WalksOn ==
  ASSUME Walks
  PROVE  phase = "gen" /\ phase' = "gen"
BY DEF Walks, GenBlockEnd, GenStatement, GenIf, GenIfTrue, GenElseIf, GenElseIfEnd, GenElse,
       GenIfEnd, GenWhile, GenWhileEnd, GenDoWhile, GenDoWhileEnd, GenReturn, GenExit,
       GenArm, Go, AtStatement, AtFrame

LEMMA SameProc ==
  ASSUME CFNext
  PROVE  proc' = proc
BY DEF CFNext, GenBlockEnd, GenStatement, GenIf, GenIfTrue, GenElseIf, GenElseIfEnd, GenElse,
       GenIfEnd, GenWhile, GenWhileEnd, GenDoWhile, GenDoWhileEnd, GenReturn, GenExit, NilBlock,
       GenProcEnd, Check, GenArm, Go

LEMMA GenStepGen ==
  ASSUME NEW M, NEW ks, Gen(M, ks, work, blocks, curr), WayKept,
         Walks
  PROVE  GenAgain(M)
<1>1. CASE GenBlockEnd \/ GenStatement \/ GenReturn \/ GenExit
  BY <1>1, GenBlockEndGen, GenStatementGen, GenReturnGen, GenExitGen
<1>2. CASE GenIf \/ GenIfTrue \/ GenElseIf \/ GenElseIfEnd \/ GenElse \/ GenIfEnd
  BY <1>2, GenIfGen, GenIfTrueGen, GenElseIfGen, GenElseIfEndGen, GenElseGen, GenIfEndGen
     DEF WayKept
<1>3. CASE GenWhile \/ GenWhileEnd \/ GenDoWhile \/ GenDoWhileEnd
  BY <1>3, GenWhileGen, GenWhileEndGen, GenDoWhileGen, GenDoWhileEndGen DEF WayKept
<1> QED BY <1>1, <1>2, <1>3 DEF Walks

-----------------------------------------------------------------------------
\* The generated procedure: block 0 is its body, and every block does what its
\* positions stand for.
Stands(M) ==
  /\ M[<<0, 1>>] = Machine(proc.body, FALSE)
  /\ Made(blocks) /\ 0 \in IdsOf(blocks)
  /\ \A x \in IdsOf(blocks) : Means(M, blocks, x)

LEMMA InitGen ==
  ASSUME CFInit
  PROVE  \E M, ks : Gen(M, ks, work, blocks, curr) /\ M[<<0, 1>>] = Machine(proc.body, FALSE)
<1> DEFINE body == proc.body
           fr == Statements(body)
           bs == <<EmptyBlock>>
           m == Machine(body, FALSE)
           M == [p \in Nat \X Nat |-> m]
<1>1. proc \in Procedures /\ work = <<fr>> /\ blocks = bs /\ curr = 0
  BY DEF CFInit
<1>2. Listed(body) /\ Elements(body) \subseteq Stmts
  BY <1>1, ProceduresParsed
<1>3. Listed(bs) /\ Len(bs) = 1 /\ bs[1] = EmptyBlock
  <2>1. Listed(bs)
    BY ListedOne
  <2> QED BY <2>1
<1>4. M[<<0, 1>>] = m
  OBVIOUS
<1>5. fr.k = "statements" /\ fr.s = body /\ fr = Statements(body)
  BY DEF Statements
<1> HIDE DEF bs, M, m, fr
<1>6. \A b : b \in IdsOf(bs) <=> b = 0
  BY <1>3 DEF IdsOf
<1>7. Made(bs) /\ 0 \in IdsOf(bs)
  BY <1>3, <1>6, EmptyIs DEF Made
<1>8. \A x \in IdsOf(bs) : Means(M, bs, x)
  <2>1. bs[0 + 1].code = <<>> /\ bs[0 + 1].out = NoFlow
    BY <1>3, EmptyIs
  <2>2. \A i \in 1 .. Len(<<>>) : FALSE
    OBVIOUS
  <2> QED BY <1>6, <2>1, <2>2 DEF Means, Flows
<1> DEFINE ks == <<<<>>>>
<1>9. Stack(<<>>, ks, M, bs)
  <2>1. Listed(<<>>) /\ Listed(ks) /\ Len(ks) = Len(<<>>) + 1 /\ Len(<<>>) = 0 /\ ks[1] = <<>>
    BY ListedOne, ListedEmpty
  <2> HIDE DEF ks
  <2>2. \A i \in 1 .. 0 + 1 : i = 1
    OBVIOUS
  <2>3. (\A i \in 1 .. 0 : FALSE) /\ (\A i \in 1 .. 0 - 1 : FALSE)
    OBVIOUS
  <2>4. 0 + 1 = 1
    OBVIOUS
  <2> DEFINE w == <<>>
  <2>5. Listed(w) /\ Len(w) = 0 /\ Len(ks) = Len(w) + 1
    BY <2>1
  <2> HIDE DEF w
  <2>6. Listed(<<>>)
    BY ListedEmpty
  <2>7. ks[Len(w) + 1] = <<>> /\ \A i \in 1 .. Len(w) + 1 : Listed(ks[i])
    BY <2>1, <2>2, <2>4, <2>5, <2>6
  <2>8. Stack(w, ks, M, bs)
    BY <2>1, <2>3, <2>5, <2>7 DEF Stack
  <2> QED BY <2>8 DEF w
<1>10. ks[1] = <<>>
  OBVIOUS
<1> HIDE DEF ks
<1>11. Open(fr) = {}
  BY <1>5 DEF Open
<1>12. FrameMeans(fr, body, ks[1], M, bs)
  <2>1. body \o <<>> = body
    BY <1>2, JoinEmpty
  <2> QED BY <1>2, <1>5, <1>10, <2>1 DEF FrameMeans
<1> DEFINE w0 == <<>>
<1>13. Below(fr, w0) /\ OpenOf(w0) = {} /\ Stack(w0, ks, M, bs)
  BY <1>9 DEF Below, OpenOf
<1>14. Push(fr, w0) = <<fr>>
  BY ListedOne, JoinEmpty DEF Push
<1> HIDE DEF w0
<1>15. Waits(M, bs, 0, body)
  BY <1>3, <1>4, <1>7 DEF Waits, Due, m
<1>16. \E ms : Gen(M, ms, Push(fr, w0), bs, 0)
  BY <1>2, <1>6, <1>7, <1>8, <1>11, <1>12, <1>13, <1>15, PushGen
<1> QED BY <1>1, <1>4, <1>14, <1>16 DEF m

LEMMA ProcEndStands ==
  ASSUME NEW M, NEW ks, Gen(M, ks, work, blocks, curr), M[<<0, 1>>] = Machine(proc.body, FALSE),
         GenProcEnd
  PROVE  Stands(M)'
<1>1. work = <<>> /\ proc' = proc
      /\ (blocks' = blocks
           \/ blocks' = [i \in DOMAIN blocks |->
                           IF HasFlow(i - 1) THEN blocks[i]
                           ELSE [blocks[i] EXCEPT !.out = ReturnOf("nothing")]])
  BY DEF GenProcEnd
<1>2. /\ Made(blocks) /\ 0 \in IdsOf(blocks)
      /\ (\A x \in IdsOf(blocks) : Means(M, blocks, x))
      /\ \A b \in IdsOf(blocks) : blocks[b + 1].out = NoFlow => b = curr
  <2>1. OpenOf(work) = {}
    BY <1>1 DEF OpenOf
  <2> QED BY <2>1 DEF Gen
<1>3. CASE blocks' = blocks
  BY <1>1, <1>2, <1>3 DEF Stands
<1>4. CASE blocks' # blocks
  <2> DEFINE us == [i \in DOMAIN blocks |->
                      IF HasFlow(i - 1) THEN blocks[i]
                      ELSE [blocks[i] EXCEPT !.out = ReturnOf("nothing")]]
  <2>1. blocks' = us
    BY <1>1, <1>4
  <2>2. Listed(blocks) /\ Len(blocks) \in Nat /\ DOMAIN blocks = 1 .. Len(blocks)
        /\ \A b \in IdsOf(blocks) : /\ b + 1 \in 1 .. Len(blocks) /\ (b + 1) - 1 = b
                                    /\ blocks[b + 1] = [code |-> blocks[b + 1].code, out |-> blocks[b + 1].out]
                                    /\ Listed(blocks[b + 1].code)
    <3>1. \A b \in IdsOf(blocks) : (b + 1) - 1 = b
      BY DEF IdsOf
    <3> QED BY <1>2, <3>1, MadeIs
  <2>3. Listed(us) /\ Len(us) = Len(blocks)
    <3> DEFINE S == {us[i] : i \in DOMAIN blocks}
    <3>1. us \in [1 .. Len(blocks) -> S]
      BY <2>2
    <3> HIDE DEF us, S
    <3>2. us \in Seq(S) /\ Len(us) = Len(blocks)
      BY <2>2, <3>1
    <3> QED BY <3>2, ListedSeq
  <2>4. IdsOf(us) = IdsOf(blocks)
    BY <2>3 DEF IdsOf
  <2>5. ASSUME NEW b \in IdsOf(blocks)
        PROVE  /\ us[b + 1].code = blocks[b + 1].code /\ IsBlock(us[b + 1])
               /\ blocks[b + 1].out # NoFlow => us[b + 1].out = blocks[b + 1].out
               /\ blocks[b + 1].out = NoFlow => us[b + 1].out = ReturnOf("nothing")
    <3> DEFINE x == blocks[b + 1]
               y == us[b + 1]
    <3>1. y = IF x.out # NoFlow THEN x ELSE [x EXCEPT !.out = ReturnOf("nothing")]
      BY <2>2 DEF HasFlow, Out
    <3>2. x = [code |-> x.code, out |-> x.out] /\ Listed(x.code)
      BY <2>2
    <3> HIDE DEF us, x, y
    <3>3. /\ y.code = x.code
          /\ x.out # NoFlow => y.out = x.out
          /\ x.out = NoFlow => y.out = ReturnOf("nothing")
          /\ y = [code |-> y.code, out |-> y.out]
      BY <3>1, <3>2
    <3>4. IsBlock(y)
      BY <3>2, <3>3 DEF IsBlock
    <3> QED BY <3>3, <3>4 DEF x, y
  <2> HIDE DEF us
  <2>6. Made(us)
    <3>1. ASSUME NEW b \in IdsOf(us) PROVE IsBlock(us[b + 1])
      BY <2>4, <2>5
    <3> QED BY <2>3, <3>1 DEF Made
  <2>7. ASSUME NEW b \in IdsOf(us) PROVE Means(M, us, b)
    <3>1. Means(M, blocks, b)
      BY <1>2, <2>4
    <3>2. CASE blocks[b + 1].out # NoFlow
      BY <2>4, <2>5, <3>1, <3>2 DEF Means
    <3>3. CASE blocks[b + 1].out = NoFlow
      <4>1. b = curr /\ us[b + 1].code = blocks[b + 1].code /\ us[b + 1].out = ReturnOf("nothing")
        BY <1>2, <2>4, <2>5, <3>3
      <4>2. M[<<b, Len(us[b + 1].code) + 1>>] = Machine(<<>>, FALSE)
        <5>1. ks[1] = <<>>
          BY <1>1, StackIs DEF Gen
        <5>2. curr # Nil
          BY <2>4, <4>1 DEF IdsOf, Nil
        <5> QED BY <3>3, <4>1, <5>1, <5>2 DEF Gen
      <4>3. ~Silent(Machine(<<>>, FALSE)) /\ Shows(Machine(<<>>, FALSE)) = Take("return", "nothing")
        BY DEF Silent, Shows, Machine
      <4>4. ReturnOf("nothing").t = "return" /\ ReturnOf("nothing").e = "nothing"
        BY DEF ReturnOf, Flow
      <4>5. Flows(M, M[<<b, Len(us[b + 1].code) + 1>>], us[b + 1].out, IdsOf(us))
        BY <4>1, <4>2, <4>3, <4>4 DEF Flows
      <4> QED BY <3>1, <4>1, <4>5 DEF Means
    <3> QED BY <3>2, <3>3
  <2> QED BY <1>1, <1>2, <2>1, <2>4, <2>6, <2>7 DEF Stands
<1> QED BY <1>3, <1>4

-----------------------------------------------------------------------------
\* What is written.  Line e goes on at block t: its label is there, or it is
\* the block to be written next.
Follows(ls, nx, e, t) ==
  \/ e \in 1 .. Len(ls) /\ ls[e] = Label(t)
  \/ e = Len(ls) + 1 /\ nx = t

Closes(ls, nx, e, o) ==
  \/ o.t \in {"return", "exit"} /\ e \in 1 .. Len(ls) /\ ls[e] = Leave(o)
  \/ o.t = "jmp" /\ e \in 1 .. Len(ls) /\ ls[e] = JmpLine(o.true)
  \/ o.t = "jmp" /\ Follows(ls, nx, e, o.true)
  \/ /\ o.t = "branch" /\ e \in 1 .. Len(ls) /\ ls[e] = CondJmp(o.e, o.true)
     /\ Follows(ls, nx, e + 1, o.false)

\* Block x of this code is written from line l.
Written(ls, nx, b, x, l) ==
  /\ l \in 1 .. Len(ls) /\ ls[l] = Label(b)
  /\ \A i \in 1 .. Len(x.code) : l + i \in 1 .. Len(ls) /\ ls[l + i] = Line("code", x.code[i])
  /\ Closes(ls, nx, l + Len(x.code) + 1, x.out)

Pending(ts) == UNION {Elements(ts[i]) : i \in 1 .. Len(ts)}

Queues(bs, ts) ==
  Listed(ts) /\ \A i \in 1 .. Len(ts) : Listed(ts[i]) /\ Elements(ts[i]) \subseteq IdsOf(bs)

Laid(bs, ls, vs, nx, ts) ==
  /\ Listed(ls) /\ vs \subseteq IdsOf(bs) /\ nx \in IdsOf(bs) \cup {Nil}
  /\ \A l \in 1 .. Len(ls) : ls[l].op = "label" => ls[l].arg \in vs
  /\ \A l, m \in 1 .. Len(ls) :
       ls[l].op = "label" /\ ls[m].op = "label" /\ ls[l].arg = ls[m].arg => l = m
  /\ \A b \in vs : \E l : Written(ls, nx, b, bs[b + 1], l)
  /\ Queues(bs, ts)
  /\ nx # Nil => ts # <<>>
  /\ 0 \in vs \cup {nx}
  /\ \/ vs = {} /\ ls = <<>> /\ nx = 0
     \/ vs # {} /\ ls # <<>> /\ ls[1] = Label(0)
  /\ \A b \in vs : To(bs, b) \subseteq vs \cup {nx} \cup Pending(ts)

\* us is ls with a block behind it.
Grown(ls, us, b, code, last) ==
  LET n == Len(ls)
      c == Len(code)
  IN /\ Listed(us) /\ Len(us) = n + c + 1 + Len(last)
     /\ \A j \in 1 .. n : us[j] = ls[j]
     /\ us[n + 1] = Label(b)
     /\ \A i \in 1 .. c : us[n + 1 + i] = Line("code", code[i])
     /\ \A i \in 1 .. Len(last) : us[n + 1 + c + i] = last[i]

LEMMA WritesGrown ==
  ASSUME NEW ls, Listed(ls), NEW b, NEW code, Listed(code), NEW last, Listed(last),
         NEW g, g = <<Label(b)>> \o [i \in DOMAIN code |-> Line("code", code[i])]
  PROVE  Grown(ls, ls \o g \o last, b, code, last)
<1> DEFINE n == Len(ls)
           c == Len(code)
           d == Len(last)
           h == [i \in DOMAIN code |-> Line("code", code[i])]
           us == (ls \o g) \o last
<1>1. n \in Nat /\ c \in Nat /\ d \in Nat /\ DOMAIN code = 1 .. c
  BY ListedIs
<1>2. Listed(h) /\ Len(h) = c /\ \A i \in 1 .. c : h[i] = Line("code", code[i])
  <2> DEFINE S == {h[i] : i \in 1 .. c}
  <2>1. h \in [1 .. c -> S]
    BY <1>1
  <2>2. \A i \in 1 .. c : h[i] = Line("code", code[i])
    BY <1>1
  <2> HIDE DEF h, S, c
  <2>3. h \in Seq(S) /\ Len(h) = c
    BY <1>1, <2>1
  <2> QED BY <2>2, <2>3, ListedSeq
<1> HIDE DEF h
<1>3. /\ Listed(g) /\ Len(g) = c + 1 /\ g[1] = Label(b)
      /\ \A i \in 1 .. c : g[i + 1] = h[i]
  BY <1>2, ListedPush DEF h
<1>4. /\ Listed(ls \o g) /\ Len(ls \o g) = n + (c + 1)
      /\ \A i \in 1 .. n : (ls \o g)[i] = ls[i]
      /\ \A i \in n + 1 .. n + (c + 1) : (ls \o g)[i] = g[i - n]
  <2>1. Listed(g) /\ Len(g) = c + 1
    BY <1>3
  <2> HIDE DEF c
  <2>2. /\ Listed(ls \o g) /\ Len(ls \o g) = n + Len(g)
        /\ \A i \in 1 .. n : (ls \o g)[i] = ls[i]
        /\ \A i \in n + 1 .. n + Len(g) : (ls \o g)[i] = g[i - n]
    BY <2>1, ListedJoin
  <2> QED BY <2>1, <2>2
<1> DEFINE v == ls \o g
<1> HIDE DEF v
<1>5. /\ Listed(v) /\ Len(v) = n + (c + 1)
      /\ \A i \in 1 .. n : v[i] = ls[i]
      /\ \A i \in n + 1 .. n + (c + 1) : v[i] = g[i - n]
  BY <1>4 DEF v
<1>6. /\ Listed(us) /\ Len(us) = Len(v) + d
      /\ \A i \in 1 .. Len(v) : us[i] = v[i]
      /\ \A i \in Len(v) + 1 .. Len(v) + d : us[i] = last[i - Len(v)]
  BY <1>5, ListedJoin DEF v
<1> HIDE DEF n, c, d, us
<1>7. Len(us) = n + c + 1 + d
  BY <1>1, <1>5, <1>6
<1>8. \A j \in 1 .. n : us[j] = ls[j]
  <2>1. \A j \in 1 .. n : j \in 1 .. Len(v)
    BY <1>1, <1>5
  <2> QED BY <1>5, <1>6, <2>1
<1>9. us[n + 1] = Label(b)
  <2>1. n + 1 \in 1 .. Len(v) /\ n + 1 \in n + 1 .. n + (c + 1) /\ (n + 1) - n = 1
    BY <1>1, <1>5
  <2>2. us[n + 1] = v[n + 1] /\ v[n + 1] = g[(n + 1) - n]
    BY <1>5, <1>6, <2>1
  <2> QED BY <1>3, <2>1, <2>2
<1>10. ASSUME NEW i \in 1 .. c PROVE us[n + 1 + i] = Line("code", code[i])
  <2> DEFINE j == n + 1 + i
  <2>1. j \in 1 .. Len(v) /\ j \in n + 1 .. n + (c + 1) /\ j - n = i + 1
    BY <1>1, <1>5
  <2> HIDE DEF j
  <2>2. us[j] = v[j] /\ v[j] = g[j - n]
    BY <1>5, <1>6, <2>1
  <2>3. us[j] = h[i]
    BY <1>3, <2>1, <2>2
  <2>4. us[j] = Line("code", code[i])
    BY <1>2, <2>3 DEF c
  <2> QED BY <2>4 DEF j
<1>11. ASSUME NEW i \in 1 .. d PROVE us[n + 1 + c + i] = last[i]
  <2> DEFINE j == n + 1 + c + i
  <2>1. j \in Len(v) + 1 .. Len(v) + d /\ j - Len(v) = i
    BY <1>1, <1>5
  <2> HIDE DEF j
  <2>2. us[j] = last[i]
    BY <1>6, <2>1
  <2> QED BY <2>2 DEF j
<1> QED BY <1>6, <1>7, <1>8, <1>9, <1>10, <1>11 DEF Grown, n, c, d, us

LEMMA LabelIs ==
  \A b, c : Label(b).op = "label" /\ Label(b).arg = b /\ (Label(b) = Label(c) => b = c)
BY DEF Label, Line

\* The lines of a block that was written are still there.
LEMMA WrittenKept ==
  ASSUME NEW ls, Listed(ls), NEW us, NEW b, NEW code, Listed(code), NEW last, Listed(last),
         Grown(ls, us, b, code, last), NEW x, NEW y, NEW l, Written(ls, b, x, y, l), NEW nx,
         Listed(y.code)
  PROVE  Written(us, nx, x, y, l)
<1> DEFINE n == Len(ls)
           c == Len(code)
           d == Len(last)
           e == l + Len(y.code) + 1
           o == y.out
<1>1. n \in Nat /\ c \in Nat /\ d \in Nat
  BY ListedIs
<1>2. /\ Len(us) = n + c + 1 + d /\ us[n + 1] = Label(b)
      /\ \A j \in 1 .. n : us[j] = ls[j]
  BY DEF Grown
<1>3. l \in 1 .. n /\ ls[l] = Label(x)
      /\ (\A i \in 1 .. Len(y.code) : l + i \in 1 .. n /\ ls[l + i] = Line("code", y.code[i]))
      /\ Closes(ls, b, e, o)
  BY DEF Written
<1> HIDE DEF n, c, d, e, o
<1>4. n + 1 \in 1 .. Len(us) /\ \A j \in 1 .. n : j \in 1 .. Len(us)
  BY <1>1, <1>2
<1>5. \A j \in 1 .. n : j \in 1 .. Len(us) /\ us[j] = ls[j]
  BY <1>2, <1>4
<1>6. \A j, t : Follows(ls, b, j, t) => Follows(us, nx, j, t)
  BY <1>2, <1>4, <1>5 DEF Follows, n
<1>7. Closes(us, nx, e, o)
  <2>1. CASE o.t \in {"return", "exit"} /\ e \in 1 .. n /\ ls[e] = Leave(o)
    BY <1>5, <2>1 DEF Closes
  <2>2. CASE o.t = "jmp" /\ e \in 1 .. n /\ ls[e] = JmpLine(o.true)
    BY <1>5, <2>2 DEF Closes
  <2>3. CASE o.t = "jmp" /\ Follows(ls, b, e, o.true)
    BY <1>6, <2>3 DEF Closes
  <2>4. CASE /\ o.t = "branch" /\ e \in 1 .. n /\ ls[e] = CondJmp(o.e, o.true)
             /\ Follows(ls, b, e + 1, o.false)
    BY <1>5, <1>6, <2>4 DEF Closes
  <2> QED BY <1>3, <2>1, <2>2, <2>3, <2>4 DEF Closes, n
<1>8. l \in 1 .. Len(us) /\ us[l] = Label(x)
  BY <1>3, <1>5
<1>9. \A i \in 1 .. Len(y.code) : l + i \in 1 .. Len(us) /\ us[l + i] = Line("code", y.code[i])
  BY <1>3, <1>5
<1> QED BY <1>7, <1>8, <1>9 DEF Written, e, o

LEMMA QueuesPop ==
  ASSUME NEW bs, NEW ts, Queues(bs, ts), ts # <<>>
  PROVE  /\ Queues(bs, Tail(ts)) /\ Listed(First(ts)) /\ Elements(First(ts)) \subseteq IdsOf(bs)
         /\ Pending(ts) = Elements(First(ts)) \cup Pending(Tail(ts))
<1> DEFINE n == Len(ts) - 1
           v == Tail(ts)
<1>1. /\ Listed(v) /\ Len(v) = n /\ n \in Nat /\ Len(ts) = n + 1 /\ First(ts) = ts[1]
      /\ \A i \in 1 .. n : v[i] = ts[i + 1]
  <2>1. Listed(ts)
    BY DEF Queues
  <2>2. /\ Listed(v) /\ Len(v) = Len(ts) - 1 /\ First(ts) = ts[1]
        /\ \A i \in 1 .. Len(ts) - 1 : v[i] = ts[i + 1]
    BY <2>1, ListedTail DEF First
  <2>3. Len(ts) \in Nat /\ Len(ts) # 0
    BY <2>1, ListedIs
  <2>4. n \in Nat /\ Len(ts) = n + 1
    BY <2>3
  <2> QED BY <2>2, <2>4
<1> HIDE DEF n, v
<1>2. \A i \in 1 .. n : i + 1 \in 1 .. Len(ts) /\ v[i] = ts[i + 1]
  BY <1>1
<1>3. 1 \in 1 .. Len(ts)
  BY <1>1
<1>4. Queues(bs, v) /\ Listed(First(ts)) /\ Elements(First(ts)) \subseteq IdsOf(bs)
  BY <1>1, <1>2, <1>3 DEF Queues
<1>5. \A i \in 1 .. Len(ts) : i = 1 \/ (i - 1 \in 1 .. n /\ ts[i] = v[i - 1])
  BY <1>1
<1>6. Pending(ts) \subseteq Elements(First(ts)) \cup Pending(v)
  BY <1>1, <1>5 DEF Pending
<1>7. Elements(First(ts)) \subseteq Pending(ts)
  BY <1>1, <1>3 DEF Pending
<1>8. Pending(v) \subseteq Pending(ts)
  <2>1. SUFFICES ASSUME NEW i \in 1 .. n, NEW x \in Elements(v[i]) PROVE x \in Pending(ts)
    BY <1>1 DEF Pending
  <2> QED BY <1>2, <2>1 DEF Pending
<1> QED BY <1>4, <1>6, <1>7, <1>8 DEF v

LEMMA QueuesPush ==
  ASSUME NEW bs, NEW ts, Queues(bs, ts), NEW q, Listed(q), Elements(q) \subseteq IdsOf(bs)
  PROVE  /\ Queues(bs, Push(q, ts)) /\ Push(q, ts) # <<>>
         /\ Pending(Push(q, ts)) = Elements(q) \cup Pending(ts)
<1> DEFINE n == Len(ts)
           v == Push(q, ts)
<1>1. /\ Listed(v) /\ Len(v) = n + 1 /\ n \in Nat /\ v[1] = q
      /\ \A i \in 1 .. n : v[i + 1] = ts[i]
  <2>1. Listed(ts)
    BY DEF Queues
  <2> QED BY <2>1, ListedPush, ListedIs DEF Push
<1> HIDE DEF n, v
<1>2. \A i \in 1 .. Len(v) : i = 1 \/ (i - 1 \in 1 .. n /\ v[i] = ts[i - 1])
  <2>1. ASSUME NEW i \in 1 .. Len(v), i # 1 PROVE i - 1 \in 1 .. n /\ v[i] = ts[i - 1]
    <3>1. i - 1 \in 1 .. n /\ (i - 1) + 1 = i
      BY <1>1, <2>1
    <3>2. v[(i - 1) + 1] = ts[i - 1]
      BY <1>1, <3>1
    <3> QED BY <3>1, <3>2
  <2> QED BY <2>1
<1>3. Queues(bs, v)
  BY <1>1, <1>2 DEF Queues, n
<1>4. v # <<>>
  BY <1>1, ListedIs
<1>5. Pending(v) \subseteq Elements(q) \cup Pending(ts)
  BY <1>1, <1>2 DEF Pending, n
<1>6. Elements(q) \subseteq Pending(v)
  <2>1. 1 \in 1 .. Len(v)
    BY <1>1
  <2> QED BY <1>1, <2>1 DEF Pending
<1>7. Pending(ts) \subseteq Pending(v)
  <2>1. SUFFICES ASSUME NEW i \in 1 .. n, NEW x \in Elements(ts[i]) PROVE x \in Pending(v)
    BY DEF Pending, n
  <2>2. i + 1 \in 1 .. Len(v) /\ v[i + 1] = ts[i]
    BY <1>1
  <2> QED BY <2>1, <2>2 DEF Pending
<1> QED BY <1>3, <1>4, <1>5, <1>6, <1>7 DEF v

\* A block is written.
Writes(bs, ls, us, vs, nx, nx2, ts, q, last) ==
  /\ nx \in IdsOf(bs) /\ nx \notin vs /\ nx2 \in IdsOf(bs) \cup {Nil}
  /\ Listed(last) /\ \A i \in 1 .. Len(last) : last[i].op # "label"
  /\ Grown(ls, us, nx, bs[nx + 1].code, last)
  /\ Closes(us, nx2, Len(ls) + 1 + Len(bs[nx + 1].code) + 1, bs[nx + 1].out)
  /\ Listed(q) /\ Elements(q) \subseteq IdsOf(bs) /\ Elements(First(ts)) \subseteq Elements(q)
  /\ To(bs, nx) \subseteq vs \cup {nx, nx2} \cup Elements(q)

LEMMA WritesLaid ==
  ASSUME NEW bs, Made(bs), NEW ls, NEW vs, NEW nx, NEW ts, Laid(bs, ls, vs, nx, ts),
         NEW us, NEW nx2, NEW q, NEW last, Writes(bs, ls, us, vs, nx, nx2, ts, q, last)
  PROVE  Laid(bs, us, vs \cup {nx}, nx2, Push(q, Tail(ts)))
<1> DEFINE x == bs[nx + 1]
           n == Len(ls)
           c == Len(x.code)
           d == Len(last)
           vs2 == vs \cup {nx}
           ts2 == Push(q, Tail(ts))
<1>1. nx \in IdsOf(bs) /\ nx \notin vs /\ nx2 \in IdsOf(bs) \cup {Nil}
      /\ Listed(last) /\ (\A i \in 1 .. d : last[i].op # "label")
      /\ Grown(ls, us, nx, x.code, last) /\ Closes(us, nx2, n + 1 + c + 1, x.out)
      /\ Listed(q) /\ Elements(q) \subseteq IdsOf(bs) /\ Elements(First(ts)) \subseteq Elements(q)
      /\ To(bs, nx) \subseteq vs \cup {nx, nx2} \cup Elements(q)
  BY DEF Writes
<1>2. Listed(x.code) /\ c \in Nat /\ Listed(ls) /\ n \in Nat /\ d \in Nat
  <2>1. Listed(x.code)
    BY <1>1, MadeIs
  <2>2. Listed(ls)
    BY DEF Laid
  <2> QED BY <1>1, <2>1, <2>2, ListedIs
<1> HIDE DEF x, n, c, d
<1>3. /\ Listed(us) /\ Len(us) = n + c + 1 + d /\ us[n + 1] = Label(nx)
      /\ \A j \in 1 .. n : us[j] = ls[j]
      /\ \A i \in 1 .. c : us[n + 1 + i] = Line("code", x.code[i])
      /\ \A i \in 1 .. d : us[n + 1 + c + i] = last[i]
  BY <1>1 DEF Grown, n, c, d
<1>4. ts # <<>> /\ Queues(bs, ts) /\ vs \subseteq IdsOf(bs)
  <2>1. nx # Nil
    BY <1>1, MadeIs DEF Nil
  <2> QED BY <2>1 DEF Laid
<1>5. Queues(bs, ts2) /\ ts2 # <<>> /\ Pending(ts) \subseteq Pending(ts2)
      /\ Elements(q) \subseteq Pending(ts2)
  <2>1. Queues(bs, Tail(ts)) /\ Pending(ts) = Elements(First(ts)) \cup Pending(Tail(ts))
    BY <1>4, QueuesPop
  <2>2. Queues(bs, ts2) /\ ts2 # <<>> /\ Pending(ts2) = Elements(q) \cup Pending(Tail(ts))
    BY <1>1, <2>1, QueuesPush
  <2> QED BY <1>1, <2>1, <2>2
<1> HIDE DEF ts2, vs2
<1>6. \A l \in 1 .. Len(us) : us[l].op = "label" => l = n + 1 \/ (l \in 1 .. n /\ us[l] = ls[l])
  <2>1. SUFFICES ASSUME NEW l \in 1 .. Len(us), us[l].op = "label", l # n + 1
                 PROVE  l \in 1 .. n
    BY <1>3
  <2>2. CASE l - (n + 1) \in 1 .. c
    <3> DEFINE i == l - (n + 1)
    <3>1. n + 1 + i = l /\ i \in 1 .. c
      BY <1>2, <2>2
    <3>2. us[n + 1 + i] = Line("code", x.code[i])
      BY <1>3, <3>1
    <3> QED BY <2>1, <3>1, <3>2 DEF Line
  <2>3. CASE l - (n + 1 + c) \in 1 .. d
    <3> DEFINE i == l - (n + 1 + c)
    <3>1. n + 1 + c + i = l /\ i \in 1 .. d
      BY <1>2, <2>3
    <3>2. us[n + 1 + c + i] = last[i]
      BY <1>3, <3>1
    <3> QED BY <1>1, <2>1, <3>1, <3>2
  <2>4. l \in 1 .. n \/ l - (n + 1) \in 1 .. c \/ l - (n + 1 + c) \in 1 .. d
    BY <1>2, <1>3, <2>1
  <2> QED BY <2>2, <2>3, <2>4
<1>7. \A l \in 1 .. n : ls[l].op = "label" => ls[l].arg \in vs
  BY DEF Laid, n
<1>8. \A l \in 1 .. Len(us) : us[l].op = "label" => us[l].arg \in vs2
  BY <1>3, <1>6, <1>7, LabelIs DEF vs2
<1>9. \A l, m \in 1 .. Len(us) :
        us[l].op = "label" /\ us[m].op = "label" /\ us[l].arg = us[m].arg => l = m
  <2>1. us[n + 1].arg = nx
    BY <1>3, LabelIs
  <2>2. \A l \in 1 .. Len(us) : us[l].op = "label" =>
          (l = n + 1 /\ us[l].arg = nx)
            \/ (l \in 1 .. n /\ us[l].arg \in vs /\ us[l] = ls[l])
    BY <1>6, <1>7, <2>1
  <2>3. \A l, m \in 1 .. n :
          ls[l].op = "label" /\ ls[m].op = "label" /\ ls[l].arg = ls[m].arg => l = m
    BY DEF Laid, n
  <2> QED BY <1>1, <2>2, <2>3
<1>10. ASSUME NEW b \in vs2 PROVE \E l : Written(us, nx2, b, bs[b + 1], l)
  <2>1. CASE b \in vs
    <3>1. PICK l : Written(ls, nx, b, bs[b + 1], l)
      BY <2>1 DEF Laid
    <3>2. Listed(bs[b + 1].code)
      BY <1>4, <2>1, MadeIs
    <3>3. Written(us, nx2, b, bs[b + 1], l)
      BY <1>1, <1>2, <3>1, <3>2, WrittenKept
    <3> QED BY <3>3
  <2>2. CASE b = nx
    <3>1. n + 1 \in 1 .. Len(us)
      BY <1>2, <1>3
    <3>2. \A i \in 1 .. c : n + 1 + i \in 1 .. Len(us)
      BY <1>2, <1>3
    <3>3. Written(us, nx2, nx, x, n + 1)
      BY <1>1, <1>3, <3>1, <3>2 DEF Written, c
    <3> QED BY <2>2, <3>3 DEF x
  <2> QED BY <2>1, <2>2 DEF vs2
<1>11. vs2 # {} /\ us # <<>> /\ us[1] = Label(0)
  <2>1. Len(us) # 0
    BY <1>2, <1>3
  <2>2. us # <<>>
    BY <1>3, <2>1, ListedIs
  <2>3. CASE ls = <<>> /\ nx = 0
    <3>1. n = 0
      BY <1>2, <2>3, ListedIs DEF n
    <3> QED BY <1>3, <2>2, <2>3, <3>1 DEF vs2
  <2>4. CASE ls # <<>> /\ ls[1] = Label(0)
    <3>1. n # 0
      BY <1>2, <2>4, ListedIs DEF n
    <3>2. 1 \in 1 .. n
      BY <1>2, <3>1
    <3> QED BY <1>3, <2>2, <2>4, <3>2 DEF vs2
  <2> QED BY <2>3, <2>4 DEF Laid
<1>12. 0 \in vs2 \cup {nx2} /\ vs2 \subseteq IdsOf(bs)
  BY <1>1, <1>4 DEF Laid, vs2
<1>13. \A b \in vs2 : To(bs, b) \subseteq vs2 \cup {nx2} \cup Pending(ts2)
  <2>1. \A b \in vs : To(bs, b) \subseteq vs \cup {nx} \cup Pending(ts)
    BY DEF Laid
  <2> QED BY <1>1, <1>5, <2>1 DEF vs2
<1>14. Laid(bs, us, vs2, nx2, ts2)
  BY <1>1, <1>3, <1>5, <1>8, <1>9, <1>10, <1>11, <1>12, <1>13 DEF Laid
<1> QED BY <1>14 DEF vs2, ts2

LEMMA TargetsIn ==
  ASSUME NEW M, Stands(M), NEW b \in IdsOf(blocks)
  PROVE  To(blocks, b) \subseteq IdsOf(blocks) /\ Out(b) = blocks[b + 1].out
<1> DEFINE o == blocks[b + 1].out
           m == M[<<b, Len(blocks[b + 1].code) + 1>>]
<1>1. Flows(M, m, o, IdsOf(blocks))
  BY DEF Stands, Means
<1> HIDE DEF o, m
<1>2. TargetsOf(o) \subseteq IdsOf(blocks)
  <2>1. CASE o.t = "jmp"
    <3>1. o # NoFlow
      BY <2>1 DEF NoFlow, Flow
    <3> QED BY <1>1, <2>1, <3>1 DEF Flows, TargetsOf
  <2>2. CASE o.t = "branch"
    <3>1. o # NoFlow
      BY <2>2 DEF NoFlow, Flow
    <3> QED BY <1>1, <2>2, <3>1 DEF Flows, TargetsOf
  <2>3. CASE o.t \notin {"jmp", "branch"}
    BY <2>3 DEF TargetsOf
  <2> QED BY <2>1, <2>2, <2>3
<1> QED BY <1>2 DEF To, o, Out

LaidAgain == Laid(blocks', lines', visited', next', trues')

\* Line e is behind the block.
Behind(ls, us, b, code, last, e) ==
  Listed(ls) /\ Listed(code) /\ Grown(ls, us, b, code, last) /\ e = Len(ls) + 1 + Len(code) + 1

LEMMA BehindIs ==
  ASSUME NEW ls, NEW us, NEW b, NEW code, NEW last, NEW e, Behind(ls, us, b, code, last, e)
  PROVE  /\ Len(last) = 1 => e \in 1 .. Len(us) /\ us[e] = last[1] /\ e + 1 = Len(us) + 1
         /\ Len(last) = 0 => e = Len(us) + 1
<1> DEFINE n == Len(ls)
           c == Len(code)
<1>1. n \in Nat /\ c \in Nat
  BY ListedIs DEF Behind
<1>2. /\ Len(us) = n + c + 1 + Len(last)
      /\ \A i \in 1 .. Len(last) : us[n + 1 + c + i] = last[i]
      /\ e = n + 1 + c + 1
  BY DEF Grown, Behind
<1> HIDE DEF n, c
<1>3. ASSUME Len(last) = 1 PROVE e \in 1 .. Len(us) /\ us[e] = last[1] /\ e + 1 = Len(us) + 1
  <2>1. 1 \in 1 .. Len(last)
    BY <1>3
  <2>2. us[n + 1 + c + 1] = last[1]
    BY <1>2, <2>1
  <2>4. e \in 1 .. Len(us) /\ e + 1 = Len(us) + 1
    BY <1>1, <1>2, <1>3
  <2> QED BY <1>2, <2>2, <2>4
<1>4. ASSUME Len(last) = 0 PROVE e = Len(us) + 1
  BY <1>1, <1>2, <1>4
<1> QED BY <1>3, <1>4

LEMMA BehindOne ==
  ASSUME NEW ls, NEW us, NEW b, NEW code, NEW last, NEW e, NEW z,
         last = <<z>>, Behind(ls, us, b, code, last, e)
  PROVE  e \in 1 .. Len(us) /\ us[e] = z /\ e + 1 = Len(us) + 1
<1>1. Len(last) = 1 /\ last[1] = z
  OBVIOUS
<1> QED BY <1>1, BehindIs

LEMMA WriteBlockLaid ==
  ASSUME NEW M, Stands(M), Laid(blocks, lines, visited, next, trues),
         phase = "writing", next # Nil, NEW last, NEW b, NEW q, WriteBlock(last, b, q),
         Listed(last), \A i \in 1 .. Len(last) : last[i].op # "label",
         b \in IdsOf(blocks) \cup {Nil},
         \A us, e : Behind(lines, us, next, blocks[next + 1].code, last, e)
                      => Closes(us, b, e, Out(next)),
         Listed(q), Elements(q) \subseteq IdsOf(blocks), Elements(First(trues)) \subseteq Elements(q),
         To(blocks, next) \subseteq visited \cup {next, b} \cup Elements(q)
  PROVE  phase' = "revisited" \/ (cfVars' = cfVars /\ LaidAgain)
<1>1. SUFFICES ASSUME next \notin visited PROVE cfVars' = cfVars /\ LaidAgain
  BY DEF WriteBlock
<1> DEFINE code == blocks[next + 1].code
           g == GenCode(next)
           us == lines \o g \o last
<1>2. /\ lines' = us /\ visited' = visited \cup {next} /\ next' = b
      /\ trues' = Push(q, Tail(trues)) /\ cfVars' = cfVars
  BY <1>1 DEF WriteBlock, Push
<1>3. blocks' = blocks
  BY <1>2 DEF cfVars
<1>4. next \in IdsOf(blocks) /\ Made(blocks) /\ Listed(lines) /\ Listed(code)
  <2>1. next \in IdsOf(blocks) /\ Made(blocks) /\ Listed(lines)
    BY DEF Laid, Stands
  <2> QED BY <2>1, MadeIs
<1>5. g = <<Label(next)>> \o [i \in DOMAIN code |-> Line("code", code[i])]
  BY DEF GenCode
<1> HIDE DEF g, us
<1>6. Grown(lines, us, next, code, last)
  <2> HIDE DEF code
  <2>1. Grown(lines, lines \o g \o last, next, code, last)
    BY <1>4, <1>5, WritesGrown
  <2> QED BY <2>1 DEF us
<1>7. Closes(us, b, Len(lines) + 1 + Len(code) + 1, blocks[next + 1].out)
  BY <1>4, <1>6 DEF Out, Behind
<1>8. Writes(blocks, lines, us, visited, next, b, trues, q, last)
  BY <1>1, <1>4, <1>6, <1>7 DEF Writes
<1>9. Laid(blocks, us, visited \cup {next}, b, Push(q, Tail(trues)))
  BY <1>4, <1>8, WritesLaid
<1> QED BY <1>2, <1>3, <1>9 DEF LaidAgain

LEMMA FirstQueue ==
  ASSUME Laid(blocks, lines, visited, next, trues), next # Nil
  PROVE  Listed(First(trues)) /\ Elements(First(trues)) \subseteq IdsOf(blocks)
BY QueuesPop DEF Laid

LEMMA GenJmpLaid ==
  ASSUME NEW M, Stands(M), Laid(blocks, lines, visited, next, trues), GenJmp
  PROVE  phase' = "revisited" \/ (cfVars' = cfVars /\ LaidAgain)
<1> DEFINE o == Out(next)
           t == o.true
           q == First(trues)
<1>1. /\ phase = "writing" /\ next # Nil /\ o.t = "jmp"
      /\ IsVisited(t) => WriteBlock(<<JmpLine(t)>>, Nil, q)
      /\ ~IsVisited(t) => WriteBlock(<<>>, t, q)
  BY DEF GenJmp, AtBlock, First
<1>2. next \in IdsOf(blocks) /\ Listed(lines) /\ Made(blocks)
  BY <1>1 DEF Laid, Stands
<1>3. o = blocks[next + 1].out /\ To(blocks, next) \subseteq IdsOf(blocks)
  BY <1>2, TargetsIn
<1>4. To(blocks, next) = {t} /\ t \in IdsOf(blocks)
  BY <1>1, <1>3 DEF To, TargetsOf
<1>5. Listed(q) /\ Elements(q) \subseteq IdsOf(blocks) /\ Elements(First(trues)) \subseteq Elements(q)
  BY <1>1, FirstQueue
<1>6. Listed(blocks[next + 1].code)
  BY <1>2, MadeIs
<1> HIDE DEF o, q, t
<1>7. CASE IsVisited(t)
  <2> DEFINE last == <<JmpLine(t)>>
  <2>1. Listed(last) /\ \A i \in 1 .. Len(last) : last[i].op # "label"
    BY ListedOne DEF JmpLine, Line
  <2>2. ASSUME NEW us, NEW e, Behind(lines, us, next, blocks[next + 1].code, last, e)
        PROVE  Closes(us, Nil, e, o)
    <3>1. e \in 1 .. Len(us) /\ us[e] = JmpLine(t)
      BY <2>2, BehindOne
    <3> QED BY <1>1, <3>1 DEF Closes, t
  <2>3. To(blocks, next) \subseteq visited \cup {next, Nil} \cup Elements(q)
    BY <1>4, <1>7 DEF IsVisited
  <2>4. WriteBlock(last, Nil, q)
    BY <1>1, <1>7
  <2> HIDE DEF last
  <2> QED BY <1>1, <1>5, <2>1, <2>2, <2>3, <2>4, WriteBlockLaid DEF o
<1>8. CASE ~IsVisited(t)
  <2> DEFINE last == <<>>
  <2>1. Listed(last) /\ Len(last) = 0 /\ \A i \in 1 .. Len(last) : last[i].op # "label"
    <3>1. Len(<<>>) = 0 /\ \A i \in 1 .. Len(<<>>) : FALSE
      OBVIOUS
    <3> QED BY <3>1, ListedEmpty
  <2>2. ASSUME NEW us, NEW e, Behind(lines, us, next, blocks[next + 1].code, last, e)
        PROVE  Closes(us, t, e, o)
    <3>1. e = Len(us) + 1
      BY <2>1, <2>2, BehindIs
    <3> QED BY <1>1, <3>1 DEF Closes, Follows, t
  <2>3. To(blocks, next) \subseteq visited \cup {next, t} \cup Elements(q)
    BY <1>4
  <2>4. WriteBlock(last, t, q)
    BY <1>1, <1>8
  <2> HIDE DEF last
  <2> QED BY <1>1, <1>4, <1>5, <2>1, <2>2, <2>3, <2>4, WriteBlockLaid DEF o
<1> QED BY <1>7, <1>8

LEMMA GenBranchLaid ==
  ASSUME NEW M, Stands(M), Laid(blocks, lines, visited, next, trues), GenBranch
  PROVE  phase' = "revisited" \/ (cfVars' = cfVars /\ LaidAgain)
<1> DEFINE o == Out(next)
           last == <<CondJmp(o.e, o.true)>>
           q0 == First(trues)
           q == IF IsVisited(o.true) THEN q0 ELSE Append(q0, o.true)
<1>1. /\ phase = "writing" /\ next # Nil /\ o.t = "branch" /\ WriteBlock(last, o.false, q)
  BY DEF GenBranch, AtBlock, First
<1>2. next \in IdsOf(blocks) /\ Listed(lines) /\ Made(blocks)
  BY <1>1 DEF Laid, Stands
<1>3. o = blocks[next + 1].out /\ To(blocks, next) \subseteq IdsOf(blocks)
  BY <1>2, TargetsIn
<1>4. To(blocks, next) = {o.true, o.false} /\ o.true \in IdsOf(blocks) /\ o.false \in IdsOf(blocks)
  BY <1>1, <1>3 DEF To, TargetsOf
<1>5. Listed(q0) /\ Elements(q0) \subseteq IdsOf(blocks)
  BY <1>1, FirstQueue
<1>6. Listed(blocks[next + 1].code)
  BY <1>2, MadeIs
<1> HIDE DEF o, q0
<1>7. /\ Listed(q) /\ Elements(q) \subseteq IdsOf(blocks) /\ Elements(q0) \subseteq Elements(q)
      /\ IsVisited(o.true) \/ o.true \in Elements(q)
  <2>1. CASE IsVisited(o.true)
    BY <1>5, <2>1
  <2>2. CASE ~IsVisited(o.true)
    <3> DEFINE r == Append(q0, o.true)
    <3>1. /\ Listed(r) /\ Len(r) = Len(q0) + 1 /\ r[Len(q0) + 1] = o.true
          /\ \A i \in 1 .. Len(q0) : r[i] = q0[i]
      BY <1>5, ListedAppend
    <3> HIDE DEF r
    <3>2. Len(q0) \in Nat /\ DOMAIN q0 = 1 .. Len(q0) /\ DOMAIN r = 1 .. Len(q0) + 1
      BY <1>5, <3>1, ListedIs
    <3>3. \A i \in 1 .. Len(q0) + 1 : i = Len(q0) + 1 \/ i \in 1 .. Len(q0)
      BY <3>2
    <3>4. Len(q0) + 1 \in 1 .. Len(q0) + 1 /\ \A i \in 1 .. Len(q0) : i \in 1 .. Len(q0) + 1
      BY <3>2
    <3>5. Elements(r) \subseteq Elements(q0) \cup {o.true}
      BY <3>1, <3>2, <3>3 DEF Elements
    <3>6. Elements(q0) \subseteq Elements(r) /\ o.true \in Elements(r)
      BY <3>1, <3>2, <3>4 DEF Elements
    <3>7. q = r
      BY <2>2 DEF r
    <3> QED BY <1>4, <1>5, <3>1, <3>5, <3>6, <3>7
  <2> QED BY <2>1, <2>2
<1> HIDE DEF q
<1>8. Listed(last) /\ \A i \in 1 .. Len(last) : last[i].op # "label"
  BY ListedOne DEF CondJmp
<1>9. ASSUME NEW us, NEW e, Behind(lines, us, next, blocks[next + 1].code, last, e)
      PROVE  Closes(us, o.false, e, o)
  <2>1. e \in 1 .. Len(us) /\ us[e] = CondJmp(o.e, o.true) /\ e + 1 = Len(us) + 1
    BY <1>9, BehindOne
  <2> QED BY <1>1, <2>1 DEF Closes, Follows
<1>10. To(blocks, next) \subseteq visited \cup {next, o.false} \cup Elements(q)
  BY <1>4, <1>7 DEF IsVisited
<1> HIDE DEF last
<1> QED BY <1>1, <1>4, <1>7, <1>8, <1>9, <1>10, WriteBlockLaid DEF o, q0

LEMMA GenLeaveLaid ==
  ASSUME NEW M, Stands(M), Laid(blocks, lines, visited, next, trues), GenLeave
  PROVE  phase' = "revisited" \/ (cfVars' = cfVars /\ LaidAgain)
<1> DEFINE o == Out(next)
           last == <<Leave(o)>>
           q == First(trues)
<1>1. /\ phase = "writing" /\ next # Nil /\ o.t \in {"return", "exit"} /\ WriteBlock(last, Nil, q)
  BY DEF GenLeave, AtBlock, First
<1>2. next \in IdsOf(blocks) /\ Listed(lines) /\ Made(blocks)
  BY <1>1 DEF Laid, Stands
<1>3. o = blocks[next + 1].out
  BY <1>2, TargetsIn
<1>4. To(blocks, next) = {}
  BY <1>1, <1>3 DEF To, TargetsOf
<1>5. Listed(q) /\ Elements(q) \subseteq IdsOf(blocks) /\ Elements(First(trues)) \subseteq Elements(q)
  BY <1>1, FirstQueue
<1>6. Listed(blocks[next + 1].code)
  BY <1>2, MadeIs
<1> HIDE DEF o, q
<1>7. Listed(last) /\ \A i \in 1 .. Len(last) : last[i].op # "label"
  BY <1>1, ListedOne DEF Leave, Line
<1>8. ASSUME NEW us, NEW e, Behind(lines, us, next, blocks[next + 1].code, last, e)
      PROVE  Closes(us, Nil, e, o)
  <2>1. e \in 1 .. Len(us) /\ us[e] = Leave(o)
    BY <1>8, BehindOne
  <2> QED BY <1>1, <2>1 DEF Closes
<1> HIDE DEF last
<1> QED BY <1>1, <1>4, <1>5, <1>7, <1>8, WriteBlockLaid DEF o

\* With no block to be written next, no line but those that are there counts.
LEMMA WrittenNext ==
  ASSUME NEW ls, NEW b, NEW x, NEW l, Written(ls, Nil, b, x, l),
         Nil \notin TargetsOf(x.out), NEW nx
  PROVE  Written(ls, nx, b, x, l)
<1> DEFINE o == x.out
           e == l + Len(x.code) + 1
<1>1. Closes(ls, Nil, e, o)
  BY DEF Written
<1> HIDE DEF e, o
<1>2. \A t, d : Follows(ls, Nil, d, t) /\ t # Nil => Follows(ls, nx, d, t)
  BY DEF Follows
<1>3. o.t = "jmp" => o.true # Nil
  BY DEF TargetsOf, o
<1>4. o.t = "branch" => o.false # Nil
  BY DEF TargetsOf, o
<1>5. Closes(ls, nx, e, o)
  BY <1>1, <1>2, <1>3, <1>4 DEF Closes
<1> QED BY <1>5 DEF Written, e, o

LEMMA GenBlocksLaid ==
  ASSUME NEW M, Stands(M), lines = <<>>, visited = {}, GenBlocks
  PROVE  LaidAgain /\ proc' = proc /\ blocks' = blocks
<1> DEFINE ts == <<<<>>>>
<1>1. /\ next' = 0 /\ trues' = ts /\ lines' = <<>> /\ visited' = {} /\ blocks' = blocks
      /\ proc' = proc
  BY DEF GenBlocks
<1>2. Queues(blocks, ts) /\ ts # <<>>
  <2>1. Listed(ts) /\ Len(ts) = 1 /\ ts[1] = <<>>
    BY ListedOne
  <2> HIDE DEF ts
  <2>2. \A i \in 1 .. Len(ts) : ts[i] = <<>>
    BY <2>1
  <2>3. ts # <<>>
    BY <2>1, ListedIs
  <2> QED BY <2>1, <2>2, <2>3, ListedEmpty DEF Queues
<1> HIDE DEF ts
<1>3. 0 \in IdsOf(blocks)
  BY DEF Stands
<1> DEFINE ls == <<>>
<1>4. Listed(ls) /\ \A l \in 1 .. Len(ls) : FALSE
  <2>1. Len(ls) = 0
    OBVIOUS
  <2>2. \A l \in 1 .. 0 : FALSE
    OBVIOUS
  <2> QED BY <2>1, <2>2, ListedEmpty
<1>5. lines' = ls /\ ls = <<>>
  BY <1>1
<1> HIDE DEF ls
<1>6. Laid(blocks, ls, {}, 0, ts)
  BY <1>2, <1>3, <1>4, <1>5 DEF Laid
<1> QED BY <1>1, <1>5, <1>6 DEF LaidAgain

LEMMA NextTrueBranchLaid ==
  ASSUME NEW M, Stands(M), Laid(blocks, lines, visited, next, trues), NextTrueBranch
  PROVE  LaidAgain /\ cfVars' = cfVars
<1> DEFINE q == First(trues)
           v == Tail(trues)
<1>1. /\ next = Nil /\ trues # <<>> /\ lines' = lines /\ visited' = visited
      /\ blocks' = blocks /\ cfVars' = cfVars
      /\ q = <<>> => trues' = v /\ next' = Nil
      /\ q # <<>> => /\ next' = First(q)
                     /\ trues' = <<<<>>, Tail(q)>> \o v
  BY DEF NextTrueBranch, cfVars, First
<1>2. Queues(blocks, trues)
  BY DEF Laid
<1>3. /\ Queues(blocks, v) /\ Listed(q) /\ Elements(q) \subseteq IdsOf(blocks)
      /\ Pending(trues) = Elements(q) \cup Pending(v)
  BY <1>1, <1>2, QueuesPop
<1> HIDE DEF q, v
<1>4. CASE q = <<>>
  <2>1. Pending(trues) = Pending(v)
    BY <1>3, <1>4, ListedEmpty
  <2>2. Laid(blocks, lines, visited, Nil, v)
    BY <1>1, <1>3, <2>1 DEF Laid
  <2> QED BY <1>1, <1>4, <2>2 DEF LaidAgain
<1>5. CASE q # <<>>
  <2> DEFINE b == First(q)
             u == Push(Tail(q), v)
             ts == Push(<<>>, u)
  <2>1. /\ Listed(Tail(q)) /\ Elements(Tail(q)) \subseteq Elements(q)
        /\ Elements(q) = {b} \cup Elements(Tail(q))
    <3>1. /\ Listed(Tail(q)) /\ Elements(Tail(q)) \subseteq Elements(q)
          /\ Len(Tail(q)) = Len(q) - 1 /\ (\A i \in 1 .. Len(q) - 1 : Tail(q)[i] = q[i + 1])
          /\ b = q[1] /\ 1 \in DOMAIN q
      BY <1>3, <1>5, ListedTail DEF First
    <3> DEFINE r == Tail(q)
    <3>2. DOMAIN q = 1 .. Len(q) /\ Len(q) \in Nat /\ DOMAIN r = 1 .. Len(q) - 1
      BY <1>3, <3>1, ListedIs
    <3> HIDE DEF r, b
    <3>3. \A i \in 1 .. Len(q) : i = 1 \/ (i - 1 \in 1 .. Len(q) - 1 /\ q[i] = r[i - 1])
      <4>1. \A j \in 1 .. Len(q) - 1 : r[j] = q[j + 1]
        BY <3>1 DEF r
      <4>2. ASSUME NEW i \in 1 .. Len(q), i # 1
            PROVE  i - 1 \in 1 .. Len(q) - 1 /\ q[i] = r[i - 1]
        <5>1. i - 1 \in 1 .. Len(q) - 1 /\ (i - 1) + 1 = i
          BY <3>2, <4>2
        <5>2. r[i - 1] = q[(i - 1) + 1]
          BY <4>1, <5>1
        <5> QED BY <5>1, <5>2
      <4> QED BY <4>2
    <3>4. Elements(q) \subseteq {b} \cup Elements(r)
      BY <3>1, <3>2, <3>3 DEF Elements
    <3>5. b \in Elements(q)
      BY <3>1 DEF Elements
    <3> QED BY <3>1, <3>4, <3>5 DEF r
  <2>2. Queues(blocks, u) /\ Listed(u) /\ Pending(u) = Elements(Tail(q)) \cup Pending(v)
    <3>1. Queues(blocks, u) /\ Pending(u) = Elements(Tail(q)) \cup Pending(v)
      BY <1>3, <2>1, QueuesPush
    <3> QED BY <3>1 DEF Queues
  <2>3. Queues(blocks, ts) /\ ts # <<>> /\ Pending(ts) = Pending(u)
    <3>1. Listed(<<>>) /\ Elements(<<>>) = {}
      BY ListedEmpty
    <3> DEFINE none == <<>>
    <3>2. Listed(none) /\ Elements(none) = {} /\ ts = Push(none, u)
      BY <3>1
    <3> HIDE DEF none, ts, u
    <3>3. Queues(blocks, Push(none, u)) /\ Push(none, u) # <<>>
          /\ Pending(Push(none, u)) = Elements(none) \cup Pending(u)
      BY <2>2, <3>2, QueuesPush
    <3> QED BY <3>2, <3>3
  <2>4. trues' = ts
    <3>1. Listed(v)
      BY <1>3 DEF Queues
    <3> DEFINE r == Tail(q)
    <3>2. <<<<>>, r>> \o v = Push(<<>>, Push(r, v))
      <4> HIDE DEF r
      <4> QED BY <3>1, PushTwo
    <3> QED BY <1>1, <1>5, <3>2
  <2> HIDE DEF ts, u
  <2>5. b \in IdsOf(blocks)
    BY <1>3, <2>1
  <2>6. \A x \in visited : To(blocks, x) \subseteq visited \cup {b} \cup Pending(ts)
    <3>1. \A x \in visited : To(blocks, x) \subseteq visited \cup {Nil} \cup Pending(trues)
      BY <1>1 DEF Laid
    <3>2. \A x \in visited : Nil \notin To(blocks, x)
      <4>1. Nil \notin IdsOf(blocks)
        BY MadeIs DEF Stands, Nil
      <4>2. visited \subseteq IdsOf(blocks)
        BY DEF Laid
      <4> QED BY <4>1, <4>2, TargetsIn
    <3> QED BY <1>3, <2>1, <2>2, <2>3, <3>1, <3>2
  <2>7. ASSUME NEW x \in visited PROVE \E l : Written(lines, b, x, blocks[x + 1], l)
    <3>1. PICK l : Written(lines, Nil, x, blocks[x + 1], l)
      BY <1>1 DEF Laid
    <3>2. Nil \notin TargetsOf(blocks[x + 1].out)
      <4>1. Nil \notin IdsOf(blocks)
        BY MadeIs DEF Stands, Nil
      <4>2. x \in IdsOf(blocks)
        BY DEF Laid
      <4> QED BY <4>1, <4>2, TargetsIn DEF To
    <3> QED BY <3>1, <3>2, WrittenNext
  <2>8. visited # {} /\ lines # <<>> /\ lines[1] = Label(0) /\ 0 \in visited
    <3>1. Nil # 0
      BY DEF Nil
    <3> QED BY <1>1, <3>1 DEF Laid
  <2> HIDE DEF b
  <2>9. Laid(blocks, lines, visited, b, ts)
    BY <2>3, <2>5, <2>6, <2>7, <2>8 DEF Laid
  <2>10. next' = b
    BY <1>1, <1>5 DEF b
  <2> QED BY <1>1, <2>4, <2>9, <2>10 DEF LaidAgain
<1> QED BY <1>4, <1>5

\* When there is nothing left to write, all that is reached is written.
LEMMA EndClosed ==
  ASSUME Laid(blocks, lines, visited, Nil, <<>>)
  PROVE  0 \in visited /\ \A b \in visited : To(blocks, b) \subseteq visited \cup {Nil}
<1>1. Pending(<<>>) = {}
  <2>1. \A i \in 1 .. Len(<<>>) : FALSE
    OBVIOUS
  <2> QED BY <2>1 DEF Pending
<1>2. Nil # 0
  BY DEF Nil
<1> DEFINE none == <<>>
<1> HIDE DEF none
<1>3. Laid(blocks, lines, visited, Nil, none) /\ Pending(none) = {}
  BY <1>1 DEF none
<1> QED BY <1>2, <1>3 DEF Laid


-----------------------------------------------------------------------------
\* What is reached is in every set of blocks that has the first one and all
\* that its blocks lead to.

Spread(x, bs) == x \cup UNION {To(bs, b) : b \in x}

Spreading == INSTANCE FoldFacts WITH Op <- Spread

\* What Reached is: what has been reached after as many steps as there are
\* blocks, which is all that can be.
ReachesBy(r) ==
  /\ r[0] = {0}
  /\ \A n \in Nat : n + 1 <= Len(blocks) => r[n + 1] = Spread(r[n], blocks)
  /\ Reached = r[Len(blocks)]

LEMMA ReachedBy ==
  ASSUME Len(blocks) \in Nat
  PROVE  \E r : ReachesBy(r)
<1> DEFINE D == 0 .. Len(blocks)
           Rule(x) == x \cup UNION {Targets(b) : b \in x}
           Table(f) == f = [n \in D |-> IF n = 0 THEN {0} ELSE Rule(f[n - 1])]
           r == CHOOSE f : Table(f)
           q == [n \in D |-> blocks]
<1>1. 0 \in Int /\ Spreading!Segment(0, D)
  BY DEF Spreading!Segment
<1>2. PICK f : Spreading!Recursion(f, 0, {0}, q, D)
  <2> HIDE DEF D, q
  <2> QED BY <1>1, Spreading!RecursionExists
<1>3. \A x : Spread(x, blocks) = Rule(x)
  BY DEF Spread, To, TargetsOf, Targets, Out
<1>4. \A n \in D : f[n] = IF n = 0 THEN {0} ELSE Rule(f[n - 1])
  <2>1. \A n \in D : q[n] = blocks
    OBVIOUS
  <2> HIDE DEF D, q, Rule
  <2> QED BY <1>2, <1>3, <2>1 DEF Spreading!Recursion
<1>5. f = [n \in D |-> f[n]]
  BY <1>2 DEF Spreading!Recursion
<1>6. Table(f)
  <2> HIDE DEF Rule, D
  <2> QED BY <1>4, <1>5
<1>7. Reached = r[Len(blocks)]
  BY DEF Reached
<1> HIDE DEF Table
<1>8. Table(r)
  BY <1>6
<1> HIDE DEF r
<1> USE DEF Table
<1>9. \A n \in D : r[n] = IF n = 0 THEN {0} ELSE Rule(r[n - 1])
  <2> HIDE DEF Rule, D
  <2> QED BY <1>8
<1>10. r[0] = {0}
  <2>1. 0 \in D
    OBVIOUS
  <2> HIDE DEF Rule, D
  <2> QED BY <1>9, <2>1
<1>11. ASSUME NEW n \in Nat, n + 1 <= Len(blocks)
       PROVE  r[n + 1] = Spread(r[n], blocks)
  <2>1. n + 1 \in D /\ n + 1 # 0 /\ (n + 1) - 1 = n
    BY <1>11
  <2> HIDE DEF Rule, D
  <2> QED BY <1>3, <1>9, <2>1
<1> QED BY <1>7, <1>10, <1>11 DEF ReachesBy

LEMMA ReachedIn ==
  ASSUME Len(blocks) \in Nat, NEW V, 0 \in V, \A b \in V : To(blocks, b) \subseteq V
  PROVE  Reached \subseteq V
<1>1. PICK r : ReachesBy(r)
  BY ReachedBy
<1> DEFINE S == {n \in Nat : n <= Len(blocks) => r[n] \subseteq V}
<1>2. 0 \in S
  BY <1>1 DEF ReachesBy
<1>3. ASSUME NEW n \in Nat, n \in S PROVE n + 1 \in S
  <2>1. SUFFICES ASSUME n + 1 <= Len(blocks) PROVE r[n + 1] \subseteq V
    OBVIOUS
  <2>2. r[n] \subseteq V /\ r[n + 1] = Spread(r[n], blocks)
    BY <1>1, <1>3, <2>1 DEF ReachesBy
  <2> QED BY <2>2 DEF Spread
<1> HIDE DEF S
<1>4. Len(blocks) \in S
  BY <1>2, <1>3, Spreading!Induct
<1> USE DEF S
<1> QED BY <1>1, <1>4 DEF ReachesBy

\* No block but is reached.
Connected(bs) == \A V : 0 \in V /\ (\A b \in V : To(bs, b) \subseteq V) => IdsOf(bs) \subseteq V

LEMMA ReachedConnected ==
  ASSUME NEW M, Stands(M), Reached = Ids
  PROVE  Connected(blocks)
<1>1. Len(blocks) \in Nat
  BY MadeIs DEF Stands
<1> QED BY <1>1, ReachedIn DEF Connected, IdsOf, Ids

\* Nothing is left to write, so all that is reached is written.
LEMMA AllVisited ==
  ASSUME NEW M, Stands(M), Laid(blocks, lines, visited, Nil, <<>>), Connected(blocks)
  PROVE  visited = IdsOf(blocks)
<1>1. Made(blocks) /\ visited \subseteq IdsOf(blocks)
  BY DEF Stands, Laid
<1>2. Nil \notin IdsOf(blocks)
  BY <1>1, MadeIs DEF Nil
<1>3. 0 \in visited /\ \A b \in visited : To(blocks, b) \subseteq visited
  BY <1>1, <1>2, EndClosed, TargetsIn
<1>4. IdsOf(blocks) \subseteq visited
  BY <1>3 DEF Connected
<1> QED BY <1>1, <1>4

-----------------------------------------------------------------------------
\* A machine and the machines it enters, one after the other: one of them at
\* most shows something.

Path(C) ==
  /\ \A m \in C : Silent(m) => Enter(m) \in C
  /\ \A m, k \in C : ~Silent(m) /\ ~Silent(k) => m = k

Entered(m, x) == IF Silent(m) THEN Enter(m) ELSE m

Entering == INSTANCE FoldFacts WITH Op <- Entered

LEMMA PathOf ==
  ASSUME NEW m
  PROVE  \E C : Path(C) /\ m \in C
<1>1. 0 \in Int /\ Entering!Segment(0, Nat)
  BY DEF Entering!Segment
<1>2. PICK f : Entering!Recursion(f, 0, m, <<>>, Nat)
  BY <1>1, Entering!RecursionExists
<1>3. f[0] = m /\ \A n \in Nat : f[n + 1] = Entered(f[n], <<>>[n + 1])
  <2>1. \A n \in Nat : f[n] = IF n = 0 THEN m ELSE Entered(f[n - 1], <<>>[n])
    BY <1>2 DEF Entering!Recursion
  <2>2. \A n \in Nat : n + 1 \in Nat /\ n + 1 # 0 /\ (n + 1) - 1 = n
    OBVIOUS
  <2> HIDE DEF Entered
  <2> QED BY <2>1, <2>2
<1>4. \A n \in Nat : /\ Silent(f[n]) => f[n + 1] = Enter(f[n])
                     /\ ~Silent(f[n]) => f[n + 1] = f[n]
  BY <1>3 DEF Entered
<1> DEFINE C == {f[n] : n \in Nat}
<1>5. \A k \in C : Silent(k) => Enter(k) \in C
  BY <1>4
<1>6. ASSUME NEW i \in Nat, ~Silent(f[i]) PROVE \A n \in Nat : f[i + n] = f[i]
  <2> DEFINE S == {n \in Nat : f[i + n] = f[i]}
  <2>1. 0 \in S
    OBVIOUS
  <2>2. ASSUME NEW n \in Nat, n \in S PROVE n + 1 \in S
    <3>1. i + n \in Nat /\ i + (n + 1) = (i + n) + 1 /\ f[i + n] = f[i]
      BY <2>2
    <3>2. f[(i + n) + 1] = f[i + n]
      BY <1>4, <1>6, <3>1
    <3> QED BY <3>1, <3>2
  <2> HIDE DEF S
  <2>3. \A n \in Nat : n \in S
    BY <2>1, <2>2, Entering!Induct
  <2> QED BY <2>3 DEF S
<1>7. ASSUME NEW i \in Nat, NEW j \in Nat, ~Silent(f[i]), ~Silent(f[j]) PROVE f[i] = f[j]
  <2>1. CASE i <= j
    <3>1. j - i \in Nat /\ i + (j - i) = j
      BY <2>1
    <3> QED BY <1>6, <1>7, <3>1
  <2>2. CASE j <= i
    <3>1. i - j \in Nat /\ j + (i - j) = i
      BY <2>2
    <3> QED BY <1>6, <1>7, <3>1
  <2> QED BY <2>1, <2>2
<1>8. Path(C)
  BY <1>5, <1>7 DEF Path
<1>9. m \in C
  BY <1>3
<1> HIDE DEF C
<1> QED BY <1>8, <1>9

LEMMA PathLeads ==
  ASSUME NEW C, Path(C), NEW m \in C, NEW k, Leads(m, k)
  PROVE  k \in C
BY DEF Path, Leads


-----------------------------------------------------------------------------
\* The compiled procedure runs.

Ready(M) ==
  /\ Stands(M) /\ Laid(blocks, lines, visited, next, trues)
  /\ next = Nil /\ visited = IdsOf(blocks)
  /\ \A b \in IdsOf(blocks) : blocks[b + 1].out # NoFlow

LEMMA LineOfIs ==
  ASSUME NEW M, Ready(M), NEW l \in 1 .. Len(lines), NEW b, lines[l] = Label(b)
  PROVE  LineOf(b) = l
<1>1. DOMAIN lines = 1 .. Len(lines)
  BY ListedIs DEF Ready, Laid
<1>2. \A j \in 1 .. Len(lines) : lines[j] = Label(b) => j = l
  <2>1. Label(b).op = "label" /\ Label(b).arg = b
    BY LabelIs
  <2> QED BY <2>1 DEF Ready, Laid
<1> QED BY <1>1, <1>2 DEF LineOf

LEMMA WrittenAt ==
  ASSUME NEW M, Ready(M), NEW b \in IdsOf(blocks)
  PROVE  Written(lines, Nil, b, blocks[b + 1], LineOf(b))
<1>1. PICK l : Written(lines, Nil, b, blocks[b + 1], l)
  BY DEF Ready, Laid
<1>2. LineOf(b) = l
  BY <1>1, LineOfIs DEF Written
<1> QED BY <1>1, <1>2

\* A position of the blocks, and a line, that stand for m.
BlockAt(M, m, p) ==
  /\ p = [b |-> p.b, i |-> p.i] /\ p.b \in IdsOf(blocks)
  /\ p.i \in 1 .. Len(blocks[p.b + 1].code) + 1
  /\ M[<<p.b, p.i>>] = m

LineAt(M, m, l) ==
  \E p : BlockAt(M, m, p) /\ (l = LineOf(p.b) + p.i \/ (p.i = 1 /\ l = LineOf(p.b)))

LEMMA FirstAt ==
  ASSUME NEW M, Ready(M), NEW b \in IdsOf(blocks)
  PROVE  BlockAt(M, M[<<b, 1>>], GoTo(b))
<1>1. Len(blocks[b + 1].code) \in Nat
  BY MadeIs, ListedIs DEF Ready, Stands
<1>2. 1 \in 1 .. Len(blocks[b + 1].code) + 1
  BY <1>1
<1> QED BY <1>2 DEF BlockAt, GoTo

\* What is true of an instruction of a block, and of its flow.
LEMMA AtCode ==
  ASSUME NEW M, Ready(M), NEW m, NEW p, BlockAt(M, m, p), p.i <= Len(blocks[p.b + 1].code)
  PROVE  /\ p.i \in 1 .. Len(blocks[p.b + 1].code)
         /\ ~Silent(m) /\ Shows(m) = blocks[p.b + 1].code[p.i]
         /\ \A holds \in BOOLEAN : BlockAt(M, After(m, holds), [p EXCEPT !.i = @ + 1])
<1> DEFINE c == blocks[p.b + 1].code
           l == Len(c)
           b == p.b
           i == p.i
           q == [p EXCEPT !.i = @ + 1]
<1>1. p = [b |-> b, i |-> i] /\ b \in IdsOf(blocks) /\ i \in 1 .. l + 1 /\ M[<<b, i>>] = m
  BY DEF BlockAt
<1>2. l \in Nat
  BY <1>1, MadeIs, ListedIs DEF Ready, Stands
<1> HIDE DEF l
<1>3. i \in 1 .. l /\ i + 1 \in 1 .. l + 1
  BY <1>1, <1>2 DEF l
<1>4. Evaluates(M, b, c, i)
  BY <1>1, <1>3 DEF Ready, Stands, Means, l
<1>5. q = [b |-> b, i |-> i + 1]
  BY <1>1
<1> HIDE DEF q
<1>6. \A holds \in BOOLEAN : BlockAt(M, After(m, holds), q)
  BY <1>1, <1>3, <1>4, <1>5 DEF BlockAt, Evaluates, l
<1> QED BY <1>1, <1>3, <1>4, <1>6 DEF Evaluates, l, q

LEMMA AtFlow ==
  ASSUME NEW M, Ready(M), NEW m, NEW p, BlockAt(M, m, p), ~(p.i <= Len(blocks[p.b + 1].code)),
         NEW o, o = blocks[p.b + 1].out
  PROVE  /\ p.i = Len(blocks[p.b + 1].code) + 1 /\ Out(p.b) = o /\ p.b \in IdsOf(blocks)
         /\ \/ /\ o.t = "jmp" /\ o.true \in IdsOf(blocks)
               /\ Leads(m, M[<<o.true, 1>>])
            \/ /\ o.t = "branch" /\ o.true \in IdsOf(blocks) /\ o.false \in IdsOf(blocks)
               /\ ~Silent(m) /\ Shows(m) = Take("branch", o.e)
               /\ Leads(After(m, TRUE), M[<<o.true, 1>>])
               /\ Leads(After(m, FALSE), M[<<o.false, 1>>])
            \/ o.t \in {"return", "exit"} /\ ~Silent(m) /\ Shows(m) = Take(o.t, o.e)
<1> DEFINE l == Len(blocks[p.b + 1].code)
<1>1. p.b \in IdsOf(blocks) /\ p.i \in 1 .. l + 1 /\ M[<<p.b, p.i>>] = m
  BY DEF BlockAt
<1>2. l \in Nat
  BY <1>1, MadeIs, ListedIs DEF Ready, Stands
<1> HIDE DEF l
<1>3. p.i = l + 1
  BY <1>1, <1>2 DEF l
<1>4. Flows(M, m, o, IdsOf(blocks)) /\ o # NoFlow
  BY <1>1, <1>3 DEF Ready, Stands, Means, l
<1> QED BY <1>1, <1>3, <1>4 DEF Flows, l, Out

\* The basic blocks.
LEMMA BlockJumps ==
  ASSUME NEW M, Ready(M), NEW m, NEW p, BlockAt(M, m, p), BlockSilent(p)
  PROVE  \E k : BlockAt(M, k, GoTo(Out(p.b).true)) /\ Leads(m, k)
<1> DEFINE o == blocks[p.b + 1].out
<1>1. p.i > Len(blocks[p.b + 1].code) /\ Out(p.b).t = "jmp"
  BY DEF BlockSilent, Code
<1>2. Len(blocks[p.b + 1].code) \in Nat /\ p.i \in Int
  <2>1. Len(blocks[p.b + 1].code) \in Nat
    BY MadeIs, ListedIs DEF BlockAt, Ready, Stands
  <2> QED BY <2>1 DEF BlockAt
<1>3. ~(p.i <= Len(blocks[p.b + 1].code))
  BY <1>1, <1>2
<1>4. Out(p.b) = o /\ o.true \in IdsOf(blocks) /\ Leads(m, M[<<o.true, 1>>])
  BY <1>1, <1>3, AtFlow
<1>5. BlockAt(M, M[<<o.true, 1>>], GoTo(o.true))
  BY <1>4, FirstAt
<1> QED BY <1>4, <1>5

Leaving(m) == Shows(m).t \in {"return", "exit"}

LEMMA BlockSteps ==
  ASSUME NEW M, Ready(M), NEW m, NEW p, BlockAt(M, m, p), ~BlockSilent(p)
  PROVE  /\ ~Silent(m) /\ Shows(m) = BlockShows(p)
         /\ ~Leaving(m) => \A holds \in BOOLEAN : \E k :
                             BlockAt(M, k, BlockAfter(p, holds)) /\ Leads(After(m, holds), k)
<1> DEFINE c == blocks[p.b + 1].code
           o == blocks[p.b + 1].out
<1>1. CASE p.i <= Len(c)
  <2>1. /\ ~Silent(m) /\ Shows(m) = c[p.i]
        /\ \A holds \in BOOLEAN : BlockAt(M, After(m, holds), [p EXCEPT !.i = @ + 1])
    BY <1>1, AtCode
  <2>2. BlockShows(p) = c[p.i] /\ \A holds : BlockAfter(p, holds) = [p EXCEPT !.i = @ + 1]
    BY <1>1 DEF BlockShows, BlockAfter, Code
  <2> QED BY <2>1, <2>2 DEF Leads
<1>2. CASE ~(p.i <= Len(c))
  <2>1. /\ p.i = Len(c) + 1 /\ Out(p.b) = o
        /\ \/ o.t = "jmp"
           \/ /\ o.t = "branch" /\ o.true \in IdsOf(blocks) /\ o.false \in IdsOf(blocks)
              /\ ~Silent(m) /\ Shows(m) = Take("branch", o.e)
              /\ Leads(After(m, TRUE), M[<<o.true, 1>>])
              /\ Leads(After(m, FALSE), M[<<o.false, 1>>])
           \/ o.t \in {"return", "exit"} /\ ~Silent(m) /\ Shows(m) = Take(o.t, o.e)
    BY <1>2, AtFlow
  <2>2. o.t # "jmp"
    <3>1. Len(c) \in Nat
      BY MadeIs, ListedIs DEF BlockAt, Ready, Stands
    <3> HIDE DEF o, c
    <3>2. p.i > Len(c)
      BY <2>1, <3>1
    <3> QED BY <2>1, <3>2 DEF BlockSilent, Code, c
  <2>3. BlockShows(p) = Take(o.t, o.e)
        /\ \A holds \in BOOLEAN : BlockAfter(p, holds) = GoTo(IF holds THEN o.true ELSE o.false)
    BY <1>2, <2>1 DEF BlockShows, BlockAfter, Code
  <2>4. CASE o.t = "branch"
    <3>1. BlockAt(M, M[<<o.true, 1>>], GoTo(o.true)) /\ BlockAt(M, M[<<o.false, 1>>], GoTo(o.false))
      BY <2>1, <2>4, FirstAt
    <3>2. \A holds \in BOOLEAN : \E k :
            BlockAt(M, k, BlockAfter(p, holds)) /\ Leads(After(m, holds), k)
      <4>1. BlockAfter(p, TRUE) = GoTo(o.true) /\ BlockAfter(p, FALSE) = GoTo(o.false)
        BY <2>3
      <4>2. \A holds \in BOOLEAN : holds = TRUE \/ holds = FALSE
        OBVIOUS
      <4> QED BY <2>1, <2>4, <3>1, <4>1, <4>2
    <3> QED BY <2>1, <2>3, <2>4, <3>2
  <2>5. CASE o.t # "branch"
    <3>1. o.t \in {"return", "exit"} /\ ~Silent(m) /\ Shows(m) = Take(o.t, o.e)
      BY <2>1, <2>2, <2>5
    <3>2. Leaving(m)
      BY <3>1 DEF Leaving, Take
    <3> QED BY <2>3, <3>1, <3>2
  <2> QED BY <2>4, <2>5
<1> QED BY <1>1, <1>2


\* The assembly: what a line that stands for m is.
LabelFor(M, m, l) == \E b \in IdsOf(blocks) : /\ lines[l] = Label(b) /\ LineOf(b) = l
                                              /\ Leads(m, M[<<b, 1>>])

CodeFor(M, m, l) == /\ ~Silent(m) /\ lines[l] = Line("code", Shows(m))
                    /\ \A holds \in BOOLEAN : LineAt(M, After(m, holds), l + 1)

JmpFor(M, m, l) == \E b \in IdsOf(blocks) : lines[l] = JmpLine(b) /\ Leads(m, M[<<b, 1>>])

BranchFor(M, m, l) ==
  \E e, t, f :
    /\ t \in IdsOf(blocks) /\ f \in IdsOf(blocks)
    /\ lines[l] = CondJmp(e, t) /\ LineOf(f) = l + 1
    /\ ~Silent(m) /\ Shows(m) = Take("branch", e)
    /\ Leads(After(m, TRUE), M[<<t, 1>>]) /\ Leads(After(m, FALSE), M[<<f, 1>>])

LeaveFor(m, l) ==
  \E o : /\ o.t \in {"return", "exit"} /\ lines[l] = Leave(o)
         /\ ~Silent(m) /\ Shows(m) = Take(o.t, o.e)

LEMMA FollowsIs ==
  ASSUME NEW M, Ready(M), NEW e, NEW t \in IdsOf(blocks), Follows(lines, Nil, e, t)
  PROVE  e \in 1 .. Len(lines) /\ lines[e] = Label(t) /\ LineOf(t) = e
<1>1. t # Nil
  BY MadeIs DEF Ready, Stands, Nil
<1>2. e \in 1 .. Len(lines) /\ lines[e] = Label(t)
  BY <1>1 DEF Follows
<1> QED BY <1>2, LineOfIs

LEMMA LineFlow ==
  ASSUME NEW M, Ready(M), NEW m, NEW p, BlockAt(M, m, p), ~(p.i <= Len(blocks[p.b + 1].code)),
         NEW l, l = LineOf(p.b) + p.i
  PROVE  /\ l \in 1 .. Len(lines)
         /\ LabelFor(M, m, l) \/ JmpFor(M, m, l) \/ BranchFor(M, m, l) \/ LeaveFor(m, l)
<1> DEFINE o == blocks[p.b + 1].out
           L == LineOf(p.b)
           c == Len(blocks[p.b + 1].code)
<1>1. /\ p.i = c + 1 /\ p.b \in IdsOf(blocks)
      /\ \/ /\ o.t = "jmp" /\ o.true \in IdsOf(blocks)
            /\ Leads(m, M[<<o.true, 1>>])
         \/ /\ o.t = "branch" /\ o.true \in IdsOf(blocks) /\ o.false \in IdsOf(blocks)
            /\ ~Silent(m) /\ Shows(m) = Take("branch", o.e)
            /\ Leads(After(m, TRUE), M[<<o.true, 1>>])
            /\ Leads(After(m, FALSE), M[<<o.false, 1>>])
         \/ o.t \in {"return", "exit"} /\ ~Silent(m) /\ Shows(m) = Take(o.t, o.e)
  BY AtFlow
<1>2. Written(lines, Nil, p.b, blocks[p.b + 1], L)
  BY <1>1, WrittenAt
<1>3. L \in Int /\ c \in Int
  <2>1. Len(lines) \in Nat
    BY ListedIs DEF Ready, Laid
  <2>2. L \in 1 .. Len(lines)
    BY <1>2 DEF Written
  <2>3. c \in Nat
    BY <1>1, MadeIs, ListedIs DEF Ready, Stands
  <2> HIDE DEF L, c
  <2> QED BY <2>1, <2>2, <2>3
<1>4. Closes(lines, Nil, L + c + 1, o)
  BY <1>2 DEF Written
<1>5. l = L + c + 1
  <2> HIDE DEF L, c
  <2>1. l = L + p.i /\ p.i = c + 1
    BY <1>1 DEF L, c
  <2> QED BY <1>3, <2>1
<1> HIDE DEF L, c, o
<1>6. Closes(lines, Nil, l, o)
  BY <1>4, <1>5
<1>7. CASE o.t = "jmp" /\ o.true \in IdsOf(blocks) /\ Leads(m, M[<<o.true, 1>>])
  <2>1. \/ l \in 1 .. Len(lines) /\ lines[l] = JmpLine(o.true)
        \/ Follows(lines, Nil, l, o.true)
    BY <1>6, <1>7 DEF Closes
  <2>2. CASE Follows(lines, Nil, l, o.true)
    <3>1. l \in 1 .. Len(lines) /\ lines[l] = Label(o.true) /\ LineOf(o.true) = l
      BY <1>7, <2>2, FollowsIs
    <3> QED BY <1>7, <3>1 DEF LabelFor
  <2>3. CASE l \in 1 .. Len(lines) /\ lines[l] = JmpLine(o.true)
    BY <1>7, <2>3 DEF JmpFor
  <2> QED BY <2>1, <2>2, <2>3
<1>8. CASE /\ o.t = "branch" /\ o.true \in IdsOf(blocks) /\ o.false \in IdsOf(blocks)
           /\ ~Silent(m) /\ Shows(m) = Take("branch", o.e)
           /\ Leads(After(m, TRUE), M[<<o.true, 1>>])
           /\ Leads(After(m, FALSE), M[<<o.false, 1>>])
  <2>1. /\ l \in 1 .. Len(lines) /\ lines[l] = CondJmp(o.e, o.true)
        /\ Follows(lines, Nil, l + 1, o.false)
    BY <1>6, <1>8 DEF Closes
  <2>2. LineOf(o.false) = l + 1
    BY <1>8, <2>1, FollowsIs
  <2>3. BranchFor(M, m, l)
    BY <1>8, <2>1, <2>2 DEF BranchFor
  <2> QED BY <2>1, <2>3
<1>9. CASE o.t \in {"return", "exit"} /\ ~Silent(m) /\ Shows(m) = Take(o.t, o.e)
  <2>1. l \in 1 .. Len(lines) /\ lines[l] = Leave(o)
    BY <1>6, <1>9 DEF Closes
  <2> QED BY <1>9, <2>1 DEF LeaveFor
<1> QED BY <1>1, <1>7, <1>8, <1>9 DEF o

LEMMA LineIs ==
  ASSUME NEW M, Ready(M), NEW m, NEW l, LineAt(M, m, l)
  PROVE  /\ l \in 1 .. Len(lines)
         /\ \/ LabelFor(M, m, l) \/ CodeFor(M, m, l) \/ JmpFor(M, m, l)
            \/ BranchFor(M, m, l) \/ LeaveFor(m, l)
<1>1. PICK p : BlockAt(M, m, p) /\ (l = LineOf(p.b) + p.i \/ (p.i = 1 /\ l = LineOf(p.b)))
  BY DEF LineAt
<1> DEFINE b == p.b
           L == LineOf(b)
           c == blocks[b + 1].code
<1>2. b \in IdsOf(blocks) /\ M[<<b, p.i>>] = m /\ p.i \in 1 .. Len(c) + 1
  BY <1>1 DEF BlockAt
<1>3. Written(lines, Nil, b, blocks[b + 1], L)
  BY <1>2, WrittenAt
<1>4. CASE p.i = 1 /\ l = LineOf(p.b)
  <2>1. l \in 1 .. Len(lines) /\ lines[l] = Label(b)
    BY <1>3, <1>4 DEF Written
  <2> QED BY <1>2, <1>4, <2>1 DEF LabelFor, Leads
<1>5. CASE l = LineOf(p.b) + p.i /\ p.i <= Len(c)
  <2> DEFINE i == p.i
             q == [p EXCEPT !.i = @ + 1]
  <2>1. /\ i \in 1 .. Len(c) /\ ~Silent(m) /\ Shows(m) = c[i]
        /\ \A holds \in BOOLEAN : BlockAt(M, After(m, holds), q)
    BY <1>1, <1>5, AtCode
  <2>2. l \in 1 .. Len(lines) /\ lines[l] = Line("code", c[i])
    BY <1>3, <1>5, <2>1 DEF Written
  <2>3. l + 1 = LineOf(q.b) + q.i
    <3>1. q.b = b /\ q.i = i + 1
      BY <1>1 DEF BlockAt
    <3>2. L \in Int /\ i \in Int
      <4>1. Len(lines) \in Nat /\ Len(c) \in Nat
        BY <1>2, MadeIs, ListedIs DEF Ready, Stands, Laid
      <4>2. L \in 1 .. Len(lines)
        BY <1>3 DEF Written
      <4> HIDE DEF L, c, i
      <4> QED BY <2>1, <4>1, <4>2
    <3>3. l = L + i
      BY <1>5
    <3> HIDE DEF L, i, q, b
    <3>4. LineOf(q.b) = L
      BY <3>1 DEF L
    <3> QED BY <3>1, <3>2, <3>3, <3>4
  <2> HIDE DEF q, i
  <2>4. \A holds \in BOOLEAN : LineAt(M, After(m, holds), l + 1)
    BY <2>1, <2>3 DEF LineAt
  <2>5. CodeFor(M, m, l)
    BY <2>1, <2>2, <2>4 DEF CodeFor
  <2> QED BY <2>2, <2>5
<1>6. CASE l = LineOf(p.b) + p.i /\ ~(p.i <= Len(c))
  BY <1>1, <1>6, LineFlow
<1> QED BY <1>1, <1>4, <1>5, <1>6

LEMMA LabelLineAt ==
  ASSUME NEW M, Ready(M), NEW b \in IdsOf(blocks)
  PROVE  LineAt(M, M[<<b, 1>>], LineOf(b)) /\ LineAt(M, M[<<b, 1>>], LineOf(b) + 1)
<1>1. BlockAt(M, M[<<b, 1>>], GoTo(b))
  BY FirstAt
<1>2. GoTo(b).b = b /\ GoTo(b).i = 1
  BY DEF GoTo
<1> QED BY <1>1, <1>2 DEF LineAt

LEMMA LineSkips ==
  ASSUME NEW M, Ready(M), NEW m, NEW l, LineAt(M, m, l), LineSilent(l)
  PROVE  \E k : LineAt(M, k, LineSkip(l)) /\ Leads(m, k)
<1>1. lines[l].op \in {"label", "jmp"}
  BY DEF LineSilent
<1>2. CASE LabelFor(M, m, l)
  <2>1. PICK b \in IdsOf(blocks) : lines[l] = Label(b) /\ LineOf(b) = l /\ Leads(m, M[<<b, 1>>])
    BY <1>2 DEF LabelFor
  <2>2. LineSkip(l) = LineOf(b) + 1
    BY <2>1, LabelIs DEF LineSkip
  <2> QED BY <2>1, <2>2, LabelLineAt
<1>3. CASE JmpFor(M, m, l)
  <2>1. PICK b \in IdsOf(blocks) : lines[l] = JmpLine(b) /\ Leads(m, M[<<b, 1>>])
    BY <1>3 DEF JmpFor
  <2>2. LineSkip(l) = LineOf(b)
    BY <2>1 DEF LineSkip, JmpLine, Line
  <2> QED BY <2>1, <2>2, LabelLineAt
<1>4. CASE CodeFor(M, m, l)
  BY <1>1, <1>4 DEF CodeFor, Line
<1>5. CASE BranchFor(M, m, l)
  BY <1>1, <1>5 DEF BranchFor, CondJmp
<1>6. CASE LeaveFor(m, l)
  BY <1>1, <1>6 DEF LeaveFor, Leave, Line
<1> QED BY <1>2, <1>3, <1>4, <1>5, <1>6, LineIs

LEMMA LineSteps ==
  ASSUME NEW M, Ready(M), NEW m, NEW l, LineAt(M, m, l), ~LineSilent(l)
  PROVE  /\ ~Silent(m) /\ Shows(m) = LineShows(l)
         /\ ~Leaving(m) => \A holds \in BOOLEAN : \E k :
                             LineAt(M, k, LineAfter(l, holds)) /\ Leads(After(m, holds), k)
<1>1. l \in DOMAIN lines
  <2>1. DOMAIN lines = 1 .. Len(lines)
    BY ListedIs DEF Ready, Laid
  <2> QED BY <2>1, LineIs
<1>2. lines[l].op \notin {"label", "jmp"}
  BY <1>1 DEF LineSilent
<1>3. CASE LabelFor(M, m, l)
  BY <1>2, <1>3, LabelIs DEF LabelFor
<1>4. CASE JmpFor(M, m, l)
  BY <1>2, <1>4 DEF JmpFor, JmpLine, Line
<1>5. CASE CodeFor(M, m, l)
  <2>1. /\ ~Silent(m) /\ lines[l].op = "code" /\ lines[l].arg = Shows(m)
        /\ \A holds \in BOOLEAN : LineAt(M, After(m, holds), l + 1)
    BY <1>5 DEF CodeFor, Line
  <2>2. LineShows(l) = Shows(m) /\ \A holds : LineAfter(l, holds) = l + 1
    BY <1>1, <2>1 DEF LineShows, LineAfter
  <2> QED BY <2>1, <2>2 DEF Leads
<1>6. CASE BranchFor(M, m, l)
  <2>1. PICK e, t, f :
          /\ t \in IdsOf(blocks) /\ f \in IdsOf(blocks)
          /\ lines[l] = CondJmp(e, t) /\ LineOf(f) = l + 1
          /\ ~Silent(m) /\ Shows(m) = Take("branch", e)
          /\ Leads(After(m, TRUE), M[<<t, 1>>]) /\ Leads(After(m, FALSE), M[<<f, 1>>])
    BY <1>6 DEF BranchFor
  <2>2. lines[l].op = "je" /\ lines[l].arg = t /\ lines[l].e = e
    BY <2>1 DEF CondJmp
  <2>3. LineShows(l) = Shows(m) /\ LineAfter(l, TRUE) = LineOf(t) /\ LineAfter(l, FALSE) = LineOf(f)
    BY <1>1, <2>1, <2>2 DEF LineShows, LineAfter
  <2>4. LineAt(M, M[<<t, 1>>], LineOf(t)) /\ LineAt(M, M[<<f, 1>>], LineOf(f))
    BY <2>1, LabelLineAt
  <2>5. \A holds \in BOOLEAN : holds = TRUE \/ holds = FALSE
    OBVIOUS
  <2> QED BY <2>1, <2>3, <2>4, <2>5
<1>7. CASE LeaveFor(m, l)
  <2>1. PICK o : /\ o.t \in {"return", "exit"} /\ lines[l] = Leave(o)
                 /\ ~Silent(m) /\ Shows(m) = Take(o.t, o.e)
    BY <1>7 DEF LeaveFor
  <2>2. lines[l].op = o.t /\ lines[l].arg = o.e
    BY <2>1 DEF Leave, Line
  <2>3. LineShows(l) = Take(o.t, o.e)
    BY <1>1, <2>1, <2>2 DEF LineShows
  <2>4. Leaving(m)
    BY <2>1 DEF Leaving, Take
  <2> QED BY <2>1, <2>3, <2>4
<1> QED BY <1>3, <1>4, <1>5, <1>6, <1>7, LineIs


-----------------------------------------------------------------------------
\* The three machines are on one path.
Running(M) ==
  \E C : /\ Path(C) /\ source \in C
         /\ \E m \in C : BlockAt(M, m, block)
         /\ \E m \in C : LineAt(M, m, at)

LEMMA LineOfKept ==
  ASSUME lines' = lines
  PROVE  \A b : LineOf(b)' = LineOf(b)
BY DEF LineOf

LEMMA RunningKept ==
  ASSUME NEW M, blocks' = blocks, lines' = lines, NEW C, Path(C), source' \in C,
         \E m \in C : BlockAt(M, m, block'), \E m \in C : LineAt(M, m, at')
  PROVE  Running(M)'
<1>1. \A m : BlockAt(M, m, block') => BlockAt(M, m, block)'
  BY DEF BlockAt
<1>2. \A m, p : BlockAt(M, m, p) => BlockAt(M, m, p)'
  BY DEF BlockAt
<1>3. \A m : LineAt(M, m, at') => LineAt(M, m, at)'
  BY <1>2, LineOfKept DEF LineAt
<1> QED BY <1>1, <1>3 DEF Running

LEMMA ReadyKept ==
  ASSUME NEW M, Ready(M), cfVars' = cfVars \/ (proc' = proc /\ blocks' = blocks),
         boVars' = boVars
  PROVE  Ready(M)'
<1>1. proc' = proc /\ blocks' = blocks /\ lines' = lines /\ visited' = visited /\ next' = next
      /\ trues' = trues
  BY DEF cfVars, boVars
<1> QED BY <1>1 DEF Ready, Stands

LEMMA RunningAgrees ==
  ASSUME NEW M, Ready(M), Running(M), Visible
  PROVE  /\ BlockShows(block) = Shows(source) /\ LineShows(at) = Shows(source)
         /\ BlockAt(M, source, block) /\ LineAt(M, source, at)
<1>1. PICK C : /\ Path(C) /\ source \in C
               /\ \E m \in C : BlockAt(M, m, block)
               /\ \E m \in C : LineAt(M, m, at)
  BY DEF Running
<1>2. PICK m \in C : BlockAt(M, m, block)
  BY <1>1
<1>3. PICK k \in C : LineAt(M, k, at)
  BY <1>1
<1>4. ~Silent(source) /\ ~BlockSilent(block) /\ ~LineSilent(at)
  BY DEF Visible
<1>5. ~Silent(m) /\ Shows(m) = BlockShows(block)
  BY <1>2, <1>4, BlockSteps
<1>6. ~Silent(k) /\ Shows(k) = LineShows(at)
  BY <1>3, <1>4, LineSteps
<1>7. m = source /\ k = source
  BY <1>1, <1>4, <1>5, <1>6 DEF Path
<1> QED BY <1>2, <1>3, <1>5, <1>6, <1>7

LEMMA StepRuns ==
  ASSUME NEW M, Ready(M), Running(M), Step
  PROVE  Ready(M)' /\ Running(M)'
<1>1. Visible /\ ~Leaves /\ cfVars' = cfVars /\ boVars' = boVars
  BY DEF Step
<1>2. PICK holds \in BOOLEAN :
        /\ source' = After(source, holds)
        /\ block' = BlockAfter(block, holds)
        /\ at' = LineAfter(at, holds)
  BY DEF Step
<1>3. BlockAt(M, source, block) /\ LineAt(M, source, at) /\ ~Leaving(source)
      /\ ~BlockSilent(block) /\ ~LineSilent(at)
  BY <1>1, RunningAgrees DEF Visible, Leaves, Leaving
<1>4. PICK C : Path(C) /\ After(source, holds) \in C
  BY PathOf
<1>5. PICK m : BlockAt(M, m, BlockAfter(block, holds)) /\ Leads(After(source, holds), m)
  BY <1>3, BlockSteps
<1>6. PICK k : LineAt(M, k, LineAfter(at, holds)) /\ Leads(After(source, holds), k)
  BY <1>3, LineSteps
<1>7. m \in C /\ k \in C
  BY <1>4, <1>5, <1>6, PathLeads
<1>8. blocks' = blocks /\ lines' = lines
  BY <1>1 DEF cfVars, boVars
<1>9. /\ \E x \in C : BlockAt(M, x, block')
      /\ \E x \in C : LineAt(M, x, at')
      /\ source' \in C
  BY <1>2, <1>4, <1>5, <1>6, <1>7
<1> QED BY <1>1, <1>4, <1>8, <1>9, RunningKept, ReadyKept

LEMMA SilentRuns ==
  ASSUME NEW M, Ready(M), Running(M), EnterDoWhile \/ FollowJmp \/ SkipLine
  PROVE  Ready(M)' /\ Running(M)'
<1>1. cfVars' = cfVars /\ boVars' = boVars /\ blocks' = blocks /\ lines' = lines
  BY DEF EnterDoWhile, FollowJmp, SkipLine, cfVars, boVars
<1>2. PICK C : /\ Path(C) /\ source \in C
               /\ \E m \in C : BlockAt(M, m, block)
               /\ \E m \in C : LineAt(M, m, at)
  BY DEF Running
<1>3. CASE EnterDoWhile
  <2>1. source' = Enter(source) /\ Silent(source) /\ block' = block /\ at' = at
    BY <1>3 DEF EnterDoWhile
  <2>2. source' \in C
    BY <1>2, <2>1 DEF Path
  <2>3. (\E m \in C : BlockAt(M, m, block')) /\ (\E m \in C : LineAt(M, m, at'))
    BY <1>2, <2>1
  <2> QED BY <1>1, <1>2, <2>2, <2>3, RunningKept, ReadyKept
<1>4. CASE FollowJmp
  <2>1. BlockSilent(block) /\ block' = GoTo(Out(block.b).true) /\ source' = source /\ at' = at
    BY <1>4 DEF FollowJmp
  <2>2. PICK m \in C : BlockAt(M, m, block)
    BY <1>2
  <2>3. PICK k : BlockAt(M, k, GoTo(Out(block.b).true)) /\ Leads(m, k)
    BY <2>1, <2>2, BlockJumps
  <2>4. k \in C
    BY <1>2, <2>3, PathLeads
  <2>5. (\E x \in C : BlockAt(M, x, block')) /\ (\E x \in C : LineAt(M, x, at')) /\ source' \in C
    BY <1>2, <2>1, <2>3, <2>4
  <2> QED BY <1>1, <1>2, <2>5, RunningKept, ReadyKept
<1>5. CASE SkipLine
  <2>1. LineSilent(at) /\ at' = LineSkip(at) /\ source' = source /\ block' = block
    BY <1>5 DEF SkipLine
  <2>2. PICK m \in C : LineAt(M, m, at)
    BY <1>2
  <2>3. PICK k : LineAt(M, k, LineSkip(at)) /\ Leads(m, k)
    BY <2>1, <2>2, LineSkips
  <2>4. k \in C
    BY <1>2, <2>3, PathLeads
  <2>5. (\E x \in C : BlockAt(M, x, block')) /\ (\E x \in C : LineAt(M, x, at')) /\ source' \in C
    BY <1>2, <2>1, <2>3, <2>4
  <2> QED BY <1>1, <1>2, <2>5, RunningKept, ReadyKept
<1> QED BY <1>3, <1>4, <1>5

-----------------------------------------------------------------------------
\* The inductive invariant, phase by phase.

Begun == source = Machine(proc.body, FALSE) /\ block = GoTo(0) /\ at = 1

Unwritten == lines = <<>> /\ visited = {}

Sound(M) == /\ Stands(M) /\ Connected(blocks)
            /\ \A b \in IdsOf(blocks) : blocks[b + 1].out # NoFlow

Generating == \E M, ks : Gen(M, ks, work, blocks, curr) /\ M[<<0, 1>>] = Machine(proc.body, FALSE)
Writing    == \E M : Sound(M) /\ Laid(blocks, lines, visited, next, trues)

Inv ==
  /\ phase = "gen"       => Begun /\ Unwritten /\ Generating
  /\ phase = "generated" => Begun /\ Unwritten /\ \E M : Stands(M)
  /\ phase = "checked"   => Begun /\ Unwritten /\ \E M : Sound(M)
  /\ phase = "writing"   => Begun /\ Writing
  /\ phase = "written"   => Begun /\ \E M : Ready(M)
  /\ phase = "run"       => \E M : Ready(M) /\ Running(M)

LEMMA Starts == Init => Inv
<1>1. SUFFICES ASSUME Init PROVE Inv
  OBVIOUS
<1>2. CFInit /\ BOInit /\ Begun
  BY <1>1 DEF Init, Begun
<1>3. phase = "gen" /\ Unwritten
  BY <1>2 DEF CFInit, BOInit, Unwritten
<1>4. Generating
  BY <1>2, InitGen DEF Generating
<1> QED BY <1>2, <1>3, <1>4 DEF Inv

\* Nothing of this phase has changed.
LEMMA Unchanged ==
  ASSUME Inv, UNCHANGED vars
  PROVE  Inv'
<1>1. /\ proc' = proc /\ phase' = phase /\ work' = work /\ blocks' = blocks /\ curr' = curr
      /\ lines' = lines /\ visited' = visited /\ next' = next /\ trues' = trues
      /\ source' = source /\ block' = block /\ at' = at /\ boVars' = boVars
  BY DEF vars, cfVars, boVars, runVars
<1>2. Begun => Begun'
  BY <1>1 DEF Begun
<1>3. Unwritten => Unwritten'
  BY <1>1 DEF Unwritten
<1>4. Generating => Generating'
  BY <1>1 DEF Generating
<1>5. \A M : Stands(M) => Stands(M)'
  BY <1>1 DEF Stands
<1>6. \A M : Sound(M) => Sound(M)'
  BY <1>1, <1>5 DEF Sound
<1>7. Writing => Writing'
  BY <1>1, <1>6 DEF Writing
<1>8. \A M : Ready(M) => Ready(M)'
  BY <1>1, ReadyKept
<1>9. \A M : Running(M) => Running(M)'
  <2>1. SUFFICES ASSUME NEW M, Running(M) PROVE Running(M)'
    OBVIOUS
  <2>2. PICK C : /\ Path(C) /\ source \in C
                 /\ \E m \in C : BlockAt(M, m, block)
                 /\ \E m \in C : LineAt(M, m, at)
    BY <2>1 DEF Running
  <2>3. (\E x \in C : BlockAt(M, x, block')) /\ (\E x \in C : LineAt(M, x, at')) /\ source' \in C
    BY <1>1, <2>2
  <2> QED BY <1>1, <2>2, <2>3, RunningKept
<1> QED BY <1>1, <1>2, <1>3, <1>4, <1>5, <1>6, <1>7, <1>8, <1>9 DEF Inv


LEMMA GeneratorStep ==
  ASSUME Inv, CFNext, UNCHANGED <<boVars, runVars>>, WayKept
  PROVE  Inv'
<1>1. /\ lines' = lines /\ visited' = visited /\ next' = next /\ trues' = trues
      /\ source' = source /\ block' = block /\ at' = at
  BY DEF boVars, runVars
<1>2. proc' = proc
  BY SameProc
<1>3. (Begun => Begun') /\ (Unwritten => Unwritten')
  BY <1>1, <1>2 DEF Begun, Unwritten
<1>4. ASSUME Walks
      PROVE  Inv'
  <2>1. phase = "gen" /\ phase' = "gen"
    BY <1>4, WalksOn
  <2>2. PICK M, ks : Gen(M, ks, work, blocks, curr) /\ M[<<0, 1>>] = Machine(proc.body, FALSE)
    BY <2>1 DEF Inv, Generating
  <2>3. GenAgain(M)
    BY <1>4, <2>2, GenStepGen
  <2>4. Generating'
    BY <1>2, <2>2, <2>3 DEF GenAgain, Generating
  <2> QED BY <1>3, <2>1, <2>4 DEF Inv
<1>5. CASE NilBlock
  BY <1>5 DEF NilBlock, Inv
<1>6. CASE GenProcEnd
  <2>1. phase = "gen" /\ phase' \in {"rejected", "generated"}
    BY <1>6 DEF GenProcEnd
  <2>2. PICK M, ks : Gen(M, ks, work, blocks, curr) /\ M[<<0, 1>>] = Machine(proc.body, FALSE)
    BY <2>1 DEF Inv, Generating
  <2>3. Stands(M)'
    BY <1>6, <2>2, ProcEndStands
  <2> QED BY <1>3, <2>1, <2>3 DEF Inv
<1>7. CASE Check
  <2>1. /\ phase = "generated" /\ phase' \in {"checked", "refused"} /\ blocks' = blocks
        /\ phase' = "checked" => Reached = Ids /\ \A b \in Ids : HasFlow(b)
    BY <1>7 DEF Check
  <2>2. PICK M : Stands(M)
    BY <2>1 DEF Inv
  <2>3. Stands(M)'
    BY <1>2, <2>1, <2>2 DEF Stands
  <2>4. ASSUME phase' = "checked" PROVE Sound(M)'
    <3>1. Connected(blocks)
      BY <2>1, <2>2, <2>4, ReachedConnected
    <3>2. \A b \in IdsOf(blocks) : blocks[b + 1].out # NoFlow
      BY <2>1, <2>4 DEF Ids, IdsOf, HasFlow, Out
    <3> QED BY <2>1, <2>3, <3>1, <3>2 DEF Sound
  <2> QED BY <1>3, <2>1, <2>4 DEF Inv
<1> QED BY <1>4, <1>5, <1>6, <1>7 DEF CFNext, Walks

LEMMA WriterStep ==
  ASSUME Inv, BONext, UNCHANGED runVars
  PROVE  Inv'
<1>1. source' = source /\ block' = block /\ at' = at
  BY DEF runVars
<1>2. ASSUME proc' = proc, blocks' = blocks
      PROVE  (Begun => Begun') /\ \A M : Sound(M) => Sound(M)'
  BY <1>1, <1>2 DEF Begun, Sound, Stands
<1>3. CASE GenBlocks
  <2>1. phase = "checked" /\ phase' = "writing"
    BY <1>3 DEF GenBlocks
  <2>2. Begun /\ lines = <<>> /\ visited = {} /\ \E M : Sound(M)
    BY <2>1 DEF Inv, Unwritten
  <2>3. PICK M : Sound(M)
    BY <2>2
  <2>4. LaidAgain /\ proc' = proc /\ blocks' = blocks
    BY <1>3, <2>2, <2>3, GenBlocksLaid DEF Sound
  <2>5. Begun' /\ Writing'
    BY <1>2, <2>2, <2>3, <2>4 DEF Writing, LaidAgain
  <2> QED BY <2>1, <2>5 DEF Inv
<1>4. CASE GenJmp \/ GenBranch \/ GenLeave \/ NextTrueBranch
  <2>1. phase = "writing"
    BY <1>4 DEF GenJmp, GenBranch, GenLeave, NextTrueBranch, AtBlock
  <2>2. Begun
    BY <2>1 DEF Inv
  <2>3. PICK M : Sound(M) /\ Laid(blocks, lines, visited, next, trues)
    BY <2>1 DEF Inv, Writing
  <2>4. phase' = "revisited" \/ (cfVars' = cfVars /\ LaidAgain)
    BY <1>4, <2>3, GenJmpLaid, GenBranchLaid, GenLeaveLaid, NextTrueBranchLaid DEF Sound
  <2>5. CASE phase' = "revisited"
    BY <2>5 DEF Inv
  <2>6. CASE cfVars' = cfVars /\ LaidAgain
    <3>1. proc' = proc /\ blocks' = blocks /\ phase' = "writing"
      BY <2>1, <2>6 DEF cfVars
    <3>2. Begun' /\ Writing'
      BY <1>2, <2>2, <2>3, <2>6, <3>1 DEF Writing, LaidAgain
    <3> QED BY <3>1, <3>2 DEF Inv
  <2> QED BY <2>4, <2>5, <2>6
<1>5. CASE GenBlocksEnd
  <2>1. /\ phase = "writing" /\ phase' = "written" /\ next = Nil /\ trues = <<>>
        /\ proc' = proc /\ blocks' = blocks /\ boVars' = boVars
    BY <1>5 DEF GenBlocksEnd, boVars
  <2>2. Begun
    BY <2>1 DEF Inv
  <2>3. PICK M : Sound(M) /\ Laid(blocks, lines, visited, next, trues)
    BY <2>1 DEF Inv, Writing
  <2>4. visited = IdsOf(blocks)
    BY <2>1, <2>3, AllVisited DEF Sound
  <2>5. Ready(M)
    BY <2>1, <2>3, <2>4 DEF Ready, Sound
  <2>6. Ready(M)' /\ Begun'
    BY <1>2, <2>1, <2>2, <2>5, ReadyKept
  <2> QED BY <2>1, <2>6 DEF Inv
<1> QED BY <1>3, <1>4, <1>5 DEF BONext

LEMMA StartStep ==
  ASSUME Inv, Start
  PROVE  Inv'
<1>1. /\ phase = "written" /\ phase' = "run" /\ proc' = proc /\ blocks' = blocks
      /\ lines' = lines /\ boVars' = boVars
      /\ source' = source /\ block' = block /\ at' = at
  BY DEF Start, boVars, runVars
<1>2. Begun
  BY <1>1 DEF Inv
<1>3. PICK M : Ready(M)
  BY <1>1 DEF Inv
<1>4. M[<<0, 1>>] = source /\ 0 \in IdsOf(blocks)
  BY <1>2, <1>3 DEF Ready, Stands, Begun
<1>5. LineOf(0) = 1
  <2>1. visited # {}
    BY <1>3, <1>4 DEF Ready
  <2>2. lines # <<>> /\ lines[1] = Label(0) /\ Listed(lines)
    BY <1>3, <2>1 DEF Ready, Laid
  <2>3. 1 \in 1 .. Len(lines)
    BY <2>2, ListedIs
  <2> QED BY <1>3, <2>2, <2>3, LineOfIs
<1>6. BlockAt(M, source, block') /\ LineAt(M, source, at')
  BY <1>1, <1>2, <1>3, <1>4, <1>5, FirstAt, LabelLineAt DEF Begun
<1>7. PICK C : Path(C) /\ source \in C
  BY PathOf
<1>8. (\E m \in C : BlockAt(M, m, block')) /\ (\E m \in C : LineAt(M, m, at')) /\ source' \in C
  BY <1>1, <1>6, <1>7
<1>9. Running(M)'
  BY <1>1, <1>7, <1>8, RunningKept
<1>10. Ready(M)'
  BY <1>1, <1>3, ReadyKept
<1> QED BY <1>1, <1>9, <1>10 DEF Inv

LEMMA RunStep ==
  ASSUME Inv, EnterDoWhile \/ FollowJmp \/ SkipLine \/ Step \/ End
  PROVE  Inv'
<1>1. phase = "run"
  BY DEF EnterDoWhile, FollowJmp, SkipLine, Step, End, Visible
<1>2. PICK M : Ready(M) /\ Running(M)
  BY <1>1 DEF Inv
<1>3. CASE End
  BY <1>3 DEF End, Inv
<1>4. CASE EnterDoWhile \/ FollowJmp \/ SkipLine \/ Step
  <2>1. phase' = "run"
    BY <1>1, <1>4 DEF EnterDoWhile, FollowJmp, SkipLine, Step, cfVars
  <2>2. Ready(M)' /\ Running(M)'
    BY <1>2, <1>4, StepRuns, SilentRuns
  <2> QED BY <2>1, <2>2 DEF Inv
<1> QED BY <1>3, <1>4

LEMMA InvStep ==
  ASSUME Inv, WayKept, [Next]_vars
  PROVE  Inv'
<1>1. CASE UNCHANGED vars
  BY <1>1, Unchanged
<1>2. CASE Compile
  BY <1>2, GeneratorStep, WriterStep DEF Compile
<1>3. CASE Execute
  BY <1>3, StartStep, RunStep DEF Execute
<1>4. CASE Stopped
  BY <1>4, Unchanged DEF Stopped
<1> QED BY <1>1, <1>2, <1>3, <1>4 DEF Next

LEMMA InvAgrees == Inv => Agree
<1>1. SUFFICES ASSUME Inv, Visible
               PROVE  BlockShows(block) = Shows(source) /\ LineShows(at) = Shows(source)
  BY DEF Agree
<1>2. phase = "run"
  BY <1>1 DEF Visible
<1>3. PICK M : Ready(M) /\ Running(M)
  BY <1>1, <1>2 DEF Inv
<1> QED BY <1>1, <1>3, RunningAgrees

-----------------------------------------------------------------------------
\* What is said of a list, by its first statement.

Finals == {"return", "exit"}

LEMMA NothingListed ==
  ~Stops(<<>>) /\ ~DeadEnd(<<>>) /\ ~EndsClosed(<<>>)
<1>1. DOMAIN <<>> = {}
  OBVIOUS
<1> QED BY <1>1 DEF Stops, DeadEnd, EndsClosed, Generated

LEMMA FirstListed ==
  ASSUME NEW s, Listed(s), s # <<>>
  PROVE  LET h == Head(s)
             r == Tail(s)
         IN /\ Stops(s) <=> Stopping(h) \/ Stops(r)
            /\ DeadEnd(s) <=> \/ Trapping(h) \/ (r # <<>> /\ Closed(h))
                              \/ h.k \notin Finals /\ DeadEnd(r)
            /\ EndsClosed(s) <=> IF r = <<>> THEN Closed(h)
                                 ELSE h.k \notin Finals /\ EndsClosed(r)
<1> DEFINE h == Head(s)
           r == Tail(s)
           n == Len(r)
<1>1. /\ Listed(r) /\ n \in Nat /\ Len(s) = n + 1 /\ h = s[1]
      /\ DOMAIN r = 1 .. n /\ DOMAIN s = 1 .. n + 1
      /\ r = <<>> <=> n = 0
      /\ \A i \in 1 .. n : r[i] = s[i + 1]
  <2>1. Listed(r) /\ Len(r) = Len(s) - 1 /\ (\A i \in 1 .. Len(s) - 1 : r[i] = s[i + 1]) /\ h = s[1]
    BY ListedTail
  <2>2. Len(s) \in Nat /\ n \in Nat /\ DOMAIN r = 1 .. n /\ DOMAIN s = 1 .. Len(s) /\ (r = <<>> <=> n = 0)
    BY <2>1, ListedIs
  <2>3. Len(s) = n + 1 /\ Len(s) - 1 = n
    BY <2>1, <2>2
  <2> QED BY <2>1, <2>2, <2>3
<1> HIDE DEF h, r, n
<1>2. /\ 1 \in DOMAIN s
      /\ \A i \in DOMAIN r : i + 1 \in DOMAIN s /\ i + 1 # 1 /\ i \in Nat /\ s[i + 1] = r[i]
      /\ \A i \in DOMAIN s : i = 1 \/ (i # 1 /\ i - 1 \in DOMAIN r /\ (i - 1) + 1 = i)
  BY <1>1
<1>3. Stops(s) <=> Stopping(h) \/ Stops(r)
  BY <1>1, <1>2 DEF Stops
<1>4. 1 \in Generated(s)
  <2>1. \A j \in 1 .. 1 - 1 : FALSE
    OBVIOUS
  <2> QED BY <1>2, <2>1 DEF Generated
<1>5. ASSUME NEW i \in DOMAIN r
      PROVE  i + 1 \in Generated(s) <=> h.k \notin Finals /\ i \in Generated(r)
  <2>1. i \in 1 .. n /\ i \in Nat
    BY <1>1
  <2>2. \A j \in 1 .. (i + 1) - 1 : j = 1 \/ (j - 1 \in 1 .. i - 1 /\ j - 1 \in 1 .. n /\ (j - 1) + 1 = j)
    BY <1>1, <2>1
  <2>3. \A j \in 1 .. i - 1 : j + 1 \in 1 .. (i + 1) - 1 /\ j \in 1 .. n
    BY <1>1, <2>1
  <2>4. 1 \in 1 .. (i + 1) - 1
    BY <2>1
  <2>5. (\A j \in 1 .. (i + 1) - 1 : s[j].k \notin Finals)
          <=> h.k \notin Finals /\ \A j \in 1 .. i - 1 : r[j].k \notin Finals
    BY <1>1, <2>2, <2>3, <2>4
  <2> QED BY <1>2, <2>5 DEF Generated, Finals
<1>6. \A i \in Generated(s) : i \in DOMAIN s
  BY DEF Generated
<1>7. \A i \in Generated(r) : i \in DOMAIN r
  BY DEF Generated
<1>8. /\ 1 + 1 \in DOMAIN s <=> r # <<>>
      /\ 1 = Len(s) <=> r = <<>>
      /\ \A i \in DOMAIN r : /\ (i + 1) + 1 \in DOMAIN s <=> i + 1 \in DOMAIN r
                             /\ i + 1 = Len(s) <=> i = Len(r)
  <2>1. Len(r) = n
    BY DEF n
  <2> QED BY <1>1, <2>1
<1> DEFINE Bad(t, i) == Trapping(t[i]) \/ (i + 1 \in DOMAIN t /\ Closed(t[i]))
<1>9. /\ Bad(s, 1) <=> Trapping(h) \/ (r # <<>> /\ Closed(h))
      /\ \A i \in DOMAIN r : Bad(s, i + 1) <=> Bad(r, i)
  BY <1>1, <1>2, <1>8
<1>10. (DeadEnd(s) <=> \E i \in Generated(s) : Bad(s, i))
       /\ (DeadEnd(r) <=> \E i \in Generated(r) : Bad(r, i))
  BY DEF DeadEnd
<1> HIDE DEF Bad
<1>11. DeadEnd(s) <=> \/ Trapping(h) \/ (r # <<>> /\ Closed(h))
                      \/ h.k \notin Finals /\ DeadEnd(r)
  <2>1. ASSUME NEW i \in Generated(s), Bad(s, i)
        PROVE  Bad(s, 1) \/ (h.k \notin Finals /\ DeadEnd(r))
    <3>1. CASE i = 1
      BY <2>1, <3>1
    <3>2. CASE i # 1
      <4>1. i - 1 \in DOMAIN r /\ (i - 1) + 1 = i
        BY <1>2, <1>6, <3>2
      <4>2. h.k \notin Finals /\ i - 1 \in Generated(r) /\ Bad(r, i - 1)
        BY <1>5, <1>9, <2>1, <4>1
      <4> QED BY <1>10, <4>2
    <3> QED BY <3>1, <3>2
  <2>2. ASSUME NEW i \in Generated(r), Bad(r, i), h.k \notin Finals
        PROVE  DeadEnd(s)
    <3>1. i + 1 \in Generated(s) /\ Bad(s, i + 1)
      BY <1>5, <1>7, <1>9, <2>2
    <3> QED BY <1>10, <3>1
  <2> QED BY <1>4, <1>9, <1>10, <2>1, <2>2
<1>12. EndsClosed(s) <=> IF r = <<>> THEN Closed(h) ELSE h.k \notin Finals /\ EndsClosed(r)
  <2>1. CASE r = <<>>
    <3>1. \A i \in Generated(s) : i = 1
      BY <1>1, <1>6, <2>1
    <3> QED BY <1>1, <1>4, <1>8, <2>1, <3>1 DEF EndsClosed
  <2>2. CASE r # <<>>
    <3>1. ASSUME NEW i \in Generated(s), i = Len(s), Closed(s[i])
          PROVE  h.k \notin Finals /\ EndsClosed(r)
      <4>1. i # 1
        BY <1>8, <2>2, <3>1
      <4>2. i - 1 \in DOMAIN r /\ (i - 1) + 1 = i
        BY <1>2, <1>6, <4>1
      <4>3. h.k \notin Finals /\ i - 1 \in Generated(r) /\ i - 1 = Len(r) /\ r[i - 1] = s[i]
        BY <1>2, <1>5, <1>8, <3>1, <4>2
      <4> QED BY <3>1, <4>3 DEF EndsClosed
    <3>2. ASSUME NEW i \in Generated(r), i = Len(r), Closed(r[i]), h.k \notin Finals
          PROVE  EndsClosed(s)
      <4>1. i + 1 \in Generated(s) /\ i + 1 = Len(s) /\ s[i + 1] = r[i]
        BY <1>2, <1>5, <1>7, <1>8, <3>2
      <4> QED BY <3>2, <4>1 DEF EndsClosed
    <3> QED BY <2>2, <3>1, <3>2 DEF EndsClosed
  <2> QED BY <2>1, <2>2
<1> QED BY <1>3, <1>11, <1>12 DEF h, r

\* What is said of a statement, by its kind.
LEMMA Kinds ==
  ASSUME NEW st \in Stmts
  PROVE  /\ st.k \in {"do", "exit", "return", "while", "dowhile", "if"}
         /\ st.k = "do" => ~Stopping(st) /\ ~Trapping(st)
         /\ st.k \in Finals => Stopping(st) /\ ~Trapping(st)
         /\ st.k = "while" => ~Stopping(st)
         /\ st.k = "dowhile" => (Stopping(st) <=> Stops(st.body))
         /\ st.k \in {"while", "dowhile"} =>
              (Trapping(st) <=> DeadEnd(st.body) \/ EndsClosed(st.body))
         /\ st.k = "if" =>
              /\ Stopping(st) <=> Stops(st.else) /\ \A j \in DOMAIN st.arms : Stops(st.arms[j].body)
              /\ Trapping(st) <=> \/ DeadEnd(st.else)
                                  \/ \E j \in DOMAIN st.arms : DeadEnd(st.arms[j].body)
         /\ Closed(st) <=> st.k = "if" /\ Stopping(st)
<1>1. st.k \in {"do", "exit", "return", "while", "dowhile", "if"}
  BY InStmts DEF Parsed
<1>2. Closed(st) <=> st.k = "if" /\ Stopping(st)
  BY DEF Closed
<1>3. CASE st.k = "do"
  BY <1>1, <1>2, <1>3, StoppingAre, TrappingAre DEF Finals
<1>4. CASE st.k \in {"return", "exit"}
  BY <1>1, <1>2, <1>4, StoppingAre, TrappingAre DEF Finals
<1>5. CASE st.k = "while"
  BY <1>1, <1>2, <1>5, StoppingAre, TrappingAre DEF Finals
<1>6. CASE st.k = "dowhile"
  BY <1>1, <1>2, <1>6, StoppingAre, TrappingAre DEF Finals
<1>7. CASE st.k = "if"
  BY <1>1, <1>2, <1>7, StoppingAre, TrappingAre DEF Finals
<1> QED BY <1>1, <1>3, <1>4, <1>5, <1>6, <1>7

-----------------------------------------------------------------------------
\* What is said of a list, or of a statement, as a whole: a set of words.
\*   "list"    it is a list
\*   "stops"   Stops, Stopping       "dead"   DeadEnd, Trapping
\*   "ends"    of a list: EndsClosed; of a statement "closed": Closed
\*   "plain"   of a list: no return or exit is in it

PlainList(s) == \A i \in DOMAIN s : s[i].k \notin Finals

OfList(s) == {"list"} \cup {x \in {"stops"} : Stops(s)} \cup {x \in {"dead"} : DeadEnd(s)}
               \cup {x \in {"ends"} : EndsClosed(s)} \cup {x \in {"plain"} : PlainList(s)}

OfStatement(st) == {x \in {"stops"} : Stopping(st)} \cup {x \in {"dead"} : Trapping(st)}
                     \cup {x \in {"closed"} : Closed(st)}

\* A list of which z is said, of which s is left, after a statement of which
\* u is said.
Inside(s, z, u) ==
  /\ "list" \in z /\ "list" \notin u
  /\ "stops" \in z <=> "stops" \in u \/ Stops(s)
  /\ "dead" \in z <=> "dead" \in u \/ DeadEnd(s) \/ (s # <<>> /\ "closed" \in u)
  /\ "ends" \in z <=> IF s = <<>> THEN "closed" \in u ELSE EndsClosed(s)

\* A statement of which z is said, in the list of which u is said.
Under(fr, z, u) ==
  /\ "list" \notin z /\ "list" \in u
  /\ fr.k \in {"true", "elseif"} =>
       /\ "stops" \in u <=> Stops(Head(fr.st.arms).body)
       /\ "dead" \in u <=> DeadEnd(Head(fr.st.arms).body)
  /\ fr.k = "else" =>
       /\ "stops" \in u <=> Stops(fr.st.else)
       /\ "dead" \in u <=> DeadEnd(fr.st.else)
  /\ fr.k \in {"while", "dowhile"} => ("dead" \in z <=> "dead" \in u \/ "ends" \in u)
  /\ fr.k = "dowhile" => ("stops" \in z <=> "stops" \in u) /\ "plain" \in u

Fits(fr, z, u) == IF fr.k = "statements" THEN Inside(fr.s, z, u) ELSE Under(fr, z, u)

AllStop(st) == \A j \in DOMAIN st.arms : Stops(st.arms[j].body)

\* What is left of an if, after its first arm.
RestDead(st) == \/ DeadEnd(st.else)
                \/ \E j \in DOMAIN st.arms : j # 1 /\ DeadEnd(st.arms[j].body)

\* What a frame knows of what is said of its list or statement.
Knows(fr, z) ==
  /\ fr.k = "statements" =>
       /\ Listed(fr.s) /\ Elements(fr.s) \subseteq Stmts \cap Sources
       /\ "plain" \in z => PlainList(fr.s)
  /\ fr.k \in {"true", "elseif", "chain", "else"} =>
       /\ fr.st \in Stmts /\ fr.st.k = "if"
       /\ "closed" \in z <=> "stops" \in z
  /\ fr.k = "true" => /\ Stops(Head(fr.st.arms).body) => AllStop(fr.st)
                      /\ "stops" \in z <=> AllStop(fr.st) /\ Stops(fr.st.else)
  /\ fr.k \in {"elseif", "chain", "else"} =>
       /\ fr.outbl = Nil => AllStop(fr.st)
       /\ "stops" \in z <=> fr.outbl = Nil /\ Stops(fr.st.else)
  /\ fr.k \in {"true", "elseif"} => ("dead" \in z <=> Trapping(fr.st))
  /\ fr.k = "chain" => ("dead" \in z <=> RestDead(fr.st))
  /\ fr.k = "else"  => ("dead" \in z <=> DeadEnd(fr.st.else))
  /\ fr.k \in {"while", "dowhile"} => "closed" \notin z /\ fr.end # Nil
  /\ fr.k = "while" => "stops" \notin z

\* Of the procedure.
Whole(u) == /\ "list" \in u
            /\ "stops" \in u <=> Stops(proc.body)
            /\ "dead" \in u <=> DeadEnd(proc.body)

\* Each frame of w has its verdict in vs, behind that of what is above it.
Verdicts(w, vs) ==
  /\ Listed(w) /\ Listed(vs) /\ Len(vs) = Len(w) + 1
  /\ \A i \in 1 .. Len(w) : Knows(w[i], vs[i + 1]) /\ Fits(w[i], vs[i + 1], vs[i])
  /\ \A i \in 1 .. Len(w) + 1 : "dead" \in vs[i] => DeadEnd(proc.body)
  /\ Whole(vs[Len(w) + 1])

\* What is above the frames w may be what u is said of.
Allows(w, u) == \E vs : Verdicts(w, vs) /\ vs[1] = u

LEMMA AllowsDead ==
  ASSUME NEW w, NEW u, Allows(w, u)
  PROVE  Listed(w) /\ ("dead" \in u => DeadEnd(proc.body))
<1>1. PICK vs : Verdicts(w, vs) /\ vs[1] = u
  BY DEF Allows
<1>2. Len(w) \in Nat
  BY <1>1, ListedIs DEF Verdicts
<1>3. 1 \in 1 .. Len(w) + 1
  BY <1>2
<1> QED BY <1>1, <1>3 DEF Verdicts

LEMMA AllowsNone ==
  ASSUME NEW u
  PROVE  Allows(<<>>, u) <=> Whole(u)
<1>1. ASSUME Allows(<<>>, u) PROVE Whole(u)
  <2>1. PICK vs : Verdicts(<<>>, vs) /\ vs[1] = u
    BY <1>1 DEF Allows
  <2>2. Len(<<>>) + 1 = 1
    OBVIOUS
  <2> QED BY <2>1, <2>2 DEF Verdicts
<1>2. ASSUME Whole(u) PROVE Allows(<<>>, u)
  <2> DEFINE vs == <<u>>
  <2>1. Listed(vs) /\ Len(vs) = 1 /\ vs[1] = u
    BY ListedOne
  <2> HIDE DEF vs
  <2>2. Len(<<>>) = 0 /\ Len(<<>>) + 1 = 1
    OBVIOUS
  <2>3. \A i \in 1 .. Len(<<>>) : FALSE
    OBVIOUS
  <2>4. \A i \in 1 .. 1 : i = 1
    OBVIOUS
  <2>5. "dead" \in u => DeadEnd(proc.body)
    BY <1>2 DEF Whole
  <2>6. Verdicts(<<>>, vs)
    <3>1. Listed(<<>>)
      BY ListedEmpty
    <3>2. Len(vs) = Len(<<>>) + 1 /\ Whole(vs[Len(<<>>) + 1])
      BY <1>2, <2>1, <2>2
    <3>3. \A i \in 1 .. Len(<<>>) + 1 : "dead" \in vs[i] => DeadEnd(proc.body)
      BY <2>1, <2>2, <2>4, <2>5
    <3> QED BY <2>1, <2>3, <3>1, <3>2, <3>3 DEF Verdicts
  <2> QED BY <2>1, <2>6 DEF Allows
<1> QED BY <1>1, <1>2

LEMMA AllowsPop ==
  ASSUME NEW w, NEW u, Allows(w, u), w # <<>>
  PROVE  \E z : Allows(Tail(w), z) /\ Knows(First(w), z) /\ Fits(First(w), z, u)
<1>1. PICK vs : Verdicts(w, vs) /\ vs[1] = u
  BY DEF Allows
<1> DEFINE v == Tail(w)
           zs == Tail(vs)
           n == Len(v)
<1>2. /\ Listed(v) /\ n \in Nat /\ Len(w) = n + 1 /\ First(w) = w[1]
      /\ \A i \in 1 .. n : v[i] = w[i + 1]
  <2>1. Listed(w)
    BY <1>1 DEF Verdicts
  <2>2. Listed(v) /\ Len(v) = Len(w) - 1 /\ (\A i \in 1 .. Len(w) - 1 : v[i] = w[i + 1]) /\ Head(w) = w[1]
    BY <2>1, ListedTail
  <2>3. Len(w) \in Nat /\ n \in Nat
    BY <2>1, <2>2, ListedIs
  <2>4. Len(w) = n + 1 /\ Len(w) - 1 = n
    BY <2>2, <2>3
  <2> QED BY <2>2, <2>3, <2>4 DEF First
<1>3. /\ Listed(zs) /\ Len(zs) = n + 1
      /\ \A i \in 1 .. n + 1 : zs[i] = vs[i + 1]
  <2>1. Listed(vs) /\ Len(vs) = Len(w) + 1
    BY <1>1 DEF Verdicts
  <2>2. Len(vs) # 0
    BY <1>2, <2>1
  <2>3. Listed(zs) /\ Len(zs) = Len(vs) - 1 /\ \A i \in 1 .. Len(vs) - 1 : zs[i] = vs[i + 1]
    BY <2>1, <2>2, ListedTail, ListedIs
  <2> HIDE DEF zs, n, v
  <2> QED BY <1>2, <2>1, <2>3
<1> HIDE DEF v, zs, n
<1>4. \A i \in 1 .. n + 1 : i + 1 \in 1 .. Len(w) + 1 /\ zs[i] = vs[i + 1]
  BY <1>2, <1>3
<1>5. \A i \in 1 .. n : /\ i + 1 \in 1 .. Len(w) /\ v[i] = w[i + 1] /\ zs[i] = vs[i + 1]
                        /\ zs[i + 1] = vs[(i + 1) + 1]
  BY <1>2, <1>3
<1>6. 1 \in 1 .. Len(w) /\ 1 \in 1 .. n + 1 /\ n + 1 \in 1 .. n + 1 /\ 1 + 1 = 2
  BY <1>2
<1>7. Verdicts(v, zs)
  <2>1. Len(v) = n
    BY DEF n
  <2>2. \A i \in 1 .. n : Knows(v[i], zs[i + 1]) /\ Fits(v[i], zs[i + 1], zs[i])
    BY <1>1, <1>5 DEF Verdicts
  <2>3. \A i \in 1 .. n + 1 : "dead" \in zs[i] => DeadEnd(proc.body)
    BY <1>1, <1>4 DEF Verdicts
  <2>4. Whole(zs[n + 1])
    <3>1. zs[n + 1] = vs[Len(w) + 1]
      BY <1>2, <1>4, <1>6
    <3> QED BY <1>1, <3>1 DEF Verdicts
  <2> QED BY <1>2, <1>3, <2>1, <2>2, <2>3, <2>4 DEF Verdicts
<1>8. Allows(v, zs[1]) /\ zs[1] = vs[2]
  BY <1>4, <1>6, <1>7 DEF Allows
<1>9. Knows(First(w), vs[2]) /\ Fits(First(w), vs[2], u)
  BY <1>1, <1>2, <1>6 DEF Verdicts
<1> QED BY <1>8, <1>9 DEF v

LEMMA AllowsPush ==
  ASSUME NEW w, NEW z, Allows(w, z), NEW fr, Knows(fr, z), NEW u, Fits(fr, z, u),
         "dead" \in u => DeadEnd(proc.body)
  PROVE  Allows(Push(fr, w), u)
<1>1. PICK zs : Verdicts(w, zs) /\ zs[1] = z
  BY DEF Allows
<1> DEFINE v == Push(fr, w)
           vs == Push(u, zs)
           n == Len(w)
<1>2. Listed(w) /\ Listed(zs) /\ n \in Nat /\ Len(zs) = n + 1
  BY <1>1, ListedIs DEF Verdicts
<1>3. /\ Listed(v) /\ Len(v) = n + 1 /\ v[1] = fr
      /\ \A i \in 1 .. n : v[i + 1] = w[i]
  BY <1>2, ListedPush DEF Push
<1>4. /\ Listed(vs) /\ Len(vs) = (n + 1) + 1 /\ vs[1] = u
      /\ \A i \in 1 .. n + 1 : vs[i + 1] = zs[i]
  BY <1>2, ListedPush DEF Push
<1> HIDE DEF v, vs, n
<1>5. \A i \in 1 .. n + 1 : i = 1 \/ (i - 1 \in 1 .. n /\ v[i] = w[i - 1]
                                    /\ vs[i] = zs[i - 1] /\ vs[i + 1] = zs[(i - 1) + 1])
  <2>1. SUFFICES ASSUME NEW i \in 1 .. n + 1, i # 1
                 PROVE /\ i - 1 \in 1 .. n /\ v[i] = w[i - 1]
                       /\ vs[i] = zs[i - 1] /\ vs[i + 1] = zs[(i - 1) + 1]
    OBVIOUS
  <2> DEFINE j == i - 1
  <2>2. j \in 1 .. n /\ j + 1 = i /\ j \in 1 .. n + 1 /\ j + 1 \in 1 .. n + 1
    BY <1>2, <2>1
  <2> HIDE DEF j
  <2>3. v[j + 1] = w[j] /\ vs[j + 1] = zs[j] /\ vs[(j + 1) + 1] = zs[j + 1]
    BY <1>3, <1>4, <2>2
  <2> QED BY <2>2, <2>3 DEF j
<1>6. \A i \in 1 .. (n + 1) + 1 : i = 1 \/ (i - 1 \in 1 .. n + 1 /\ vs[i] = zs[i - 1])
  <2>1. SUFFICES ASSUME NEW i \in 1 .. (n + 1) + 1, i # 1
                 PROVE  i - 1 \in 1 .. n + 1 /\ vs[i] = zs[i - 1]
    OBVIOUS
  <2> DEFINE j == i - 1
  <2>2. j \in 1 .. n + 1 /\ j + 1 = i
    BY <1>2, <2>1
  <2> HIDE DEF j
  <2>3. vs[j + 1] = zs[j]
    BY <1>4, <2>2
  <2> QED BY <2>2, <2>3 DEF j
<1>7. 1 \in 1 .. n + 1 /\ vs[1 + 1] = zs[1] /\ vs[(n + 1) + 1] = zs[n + 1]
  BY <1>2, <1>4
<1>8. Verdicts(v, vs)
  <2>1. \A i \in 1 .. n + 1 : Knows(v[i], vs[i + 1]) /\ Fits(v[i], vs[i + 1], vs[i])
    <3>1. SUFFICES ASSUME NEW i \in 1 .. n + 1
                   PROVE  Knows(v[i], vs[i + 1]) /\ Fits(v[i], vs[i + 1], vs[i])
      OBVIOUS
    <3>2. CASE i = 1
      BY <1>1, <1>3, <1>4, <1>7, <3>2
    <3>3. CASE i - 1 \in 1 .. n /\ v[i] = w[i - 1] /\ vs[i] = zs[i - 1] /\ vs[i + 1] = zs[(i - 1) + 1]
      BY <1>1, <3>3 DEF Verdicts, n
    <3> QED BY <1>5, <3>2, <3>3
  <2>2. \A i \in 1 .. (n + 1) + 1 : "dead" \in vs[i] => DeadEnd(proc.body)
    BY <1>1, <1>4, <1>6 DEF Verdicts, n
  <2>3. Whole(vs[(n + 1) + 1])
    BY <1>1, <1>7 DEF Verdicts, n
  <2> QED BY <1>3, <1>4, <2>1, <2>2, <2>3 DEF Verdicts
<1> QED BY <1>4, <1>8 DEF Allows, v

\* Frames of statements and frames of lists take turns.
LEMMA AllowsTurns ==
  ASSUME NEW w, NEW u, Allows(w, u)
  PROVE  /\ "list" \notin u => w # <<>> /\ First(w).k = "statements"
         /\ "list" \in u /\ w # <<>> => First(w).k # "statements"
<1>1. w = <<>> => "list" \in u
  BY AllowsNone DEF Whole
<1>2. ASSUME w # <<>>
      PROVE  First(w).k = "statements" <=> "list" \notin u
  <2>1. PICK z : Fits(First(w), z, u)
    BY <1>2, AllowsPop
  <2> QED BY <2>1 DEF Fits, Inside, Under
<1> QED BY <1>1, <1>2

\* As much as matters to what is below.
SameToBelow(z, u) ==
  /\ "stops" \in z <=> "stops" \in u
  /\ "dead" \in z <=> "dead" \in u
  /\ "list" \in z <=> "list" \in u
  /\ "list" \in z => /\ "ends" \in z <=> "ends" \in u
                     /\ "plain" \in z => "plain" \in u
  /\ "list" \notin z => ("closed" \in z <=> "closed" \in u)

LEMMA AllowsSame ==
  ASSUME NEW w, NEW z, Allows(w, z), NEW u, SameToBelow(z, u)
  PROVE  Allows(w, u)
<1>1. CASE w = <<>>
  BY <1>1, AllowsNone DEF Whole, SameToBelow
<1>2. CASE w # <<>>
  <2>1. PICK y : Allows(Tail(w), y) /\ Knows(First(w), y) /\ Fits(First(w), y, z)
    BY <1>2, AllowsPop
  <2>2. Fits(First(w), y, u)
    <3>1. CASE First(w).k = "statements"
      BY <2>1, <3>1 DEF Fits, Inside, SameToBelow
    <3>2. CASE First(w).k # "statements"
      BY <2>1, <3>2 DEF Fits, Under, SameToBelow
    <3> QED BY <3>1, <3>2
  <2>3. "dead" \in u => DeadEnd(proc.body)
    BY AllowsDead DEF SameToBelow
  <2>4. w = Push(First(w), Tail(w))
    BY <1>2, AllowsDead, ListedTail DEF First, Push
  <2> QED BY <2>1, <2>2, <2>3, <2>4, AllowsPush
<1> QED BY <1>1, <1>2

-----------------------------------------------------------------------------
\* What is said of what the generator is doing: of the statement of a list that
\* is done, or of a list that is done.
Doing(c) == IF c = Nil THEN {"stops", "closed"} ELSE {}

Done(bs, c) ==
  {"list"} \cup (IF c = Nil THEN {"stops", "ends", "plain"}
                 ELSE IF bs[c + 1].out # NoFlow THEN {"stops"} ELSE {"plain"})

Current(w, bs, c) ==
  IF w # <<>> /\ First(w).k = "statements" THEN Doing(c) ELSE Done(bs, c)

OnTheWay == Allows(work, Current(work, blocks, curr))

LEMMA DoingIs ==
  ASSUME NEW c
  PROVE  /\ "list" \notin Doing(c) /\ "dead" \notin Doing(c)
         /\ "stops" \in Doing(c) <=> c = Nil
         /\ "closed" \in Doing(c) <=> c = Nil
BY DEF Doing

LEMMA DoneIs ==
  ASSUME NEW bs, NEW c
  PROVE  /\ "list" \in Done(bs, c) /\ "dead" \notin Done(bs, c)
         /\ "stops" \in Done(bs, c) <=> c = Nil \/ bs[c + 1].out # NoFlow
         /\ "ends" \in Done(bs, c) <=> c = Nil
         /\ "plain" \in Done(bs, c) <=> c = Nil \/ bs[c + 1].out = NoFlow
<1>1. CASE c = Nil
  BY <1>1 DEF Done
<1>2. CASE c # Nil /\ bs[c + 1].out = NoFlow
  BY <1>2 DEF Done
<1>3. CASE c # Nil /\ bs[c + 1].out # NoFlow
  BY <1>3 DEF Done
<1> QED BY <1>1, <1>2, <1>3

LEMMA OfListIs ==
  ASSUME NEW s
  PROVE  /\ "list" \in OfList(s)
         /\ "stops" \in OfList(s) <=> Stops(s)
         /\ "dead" \in OfList(s) <=> DeadEnd(s)
         /\ "ends" \in OfList(s) <=> EndsClosed(s)
         /\ "plain" \in OfList(s) <=> PlainList(s)
BY DEF OfList

LEMMA OfStatementIs ==
  ASSUME NEW st
  PROVE  /\ "list" \notin OfStatement(st)
         /\ "stops" \in OfStatement(st) <=> Stopping(st)
         /\ "dead" \in OfStatement(st) <=> Trapping(st)
         /\ "closed" \in OfStatement(st) <=> Closed(st)
BY DEF OfStatement

\* A body is about to be generated.
LEMMA ListAllowed ==
  ASSUME NEW w, NEW s, Allows(w, OfList(s)), Listed(s), Elements(s) \subseteq Stmts \cap Sources,
         NEW bs, NEW c, c # Nil
  PROVE  LET v == Push(Statements(s), w) IN Allows(v, Current(v, bs, c))
<1> DEFINE fr == Statements(s)
           v == Push(fr, w)
           z == OfList(s)
           u == Doing(c)
<1>1. fr.k = "statements" /\ fr.s = s
  BY DEF Statements
<1>2. Knows(fr, z)
  BY <1>1, OfListIs DEF Knows
<1>3. Fits(fr, z, u)
  BY <1>1, OfListIs, DoingIs, NothingListed DEF Fits, Inside
<1>4. "dead" \notin u
  BY DoingIs
<1>5. v # <<>> /\ First(v) = fr
  <2>1. Listed(w)
    BY AllowsDead
  <2>2. Listed(v) /\ Len(v) = Len(w) + 1 /\ Head(v) = fr /\ Len(w) \in Nat
    BY <2>1, ListedPush, ListedIs DEF Push
  <2> HIDE DEF v, fr
  <2>3. Len(v) # 0
    BY <2>2
  <2> QED BY <2>2, <2>3, ListedIs DEF First
<1> HIDE DEF fr, z, u
<1>6. Allows(v, u)
  BY <1>2, <1>3, <1>4, AllowsPush DEF z
<1>7. Current(v, bs, c) = u
  BY <1>1, <1>5 DEF Current, u
<1> QED BY <1>6, <1>7 DEF fr

\* The statement at hand, and what is below it once it is generated.
LEMMA StatementAllowed ==
  ASSUME OnTheWay, work # <<>>, Top.k = "statements", Top.s # <<>>, curr # Nil
  PROVE  /\ St \in Stmts \cap Sources
         /\ Later # <<>> /\ First(Later).k = "statements"
         /\ St.k \notin Finals => Allows(Later, OfStatement(St))
         /\ St.k \in Finals => Allows(Rest, {"list", "stops"}) /\ ~(Rest # <<>> /\ First(Rest).k = "statements")
<1> DEFINE s  == Top.s
           r  == Tail(s)
           fr == Statements(r)
           u  == OfStatement(St)
<1>1. First(work) = Top /\ Tail(work) = Rest /\ St = Head(s)
  BY DEF First, Top, Rest, St
<1>2. Current(work, blocks, curr) = Doing(curr)
  BY <1>1 DEF Current
<1>3. PICK z : /\ Allows(Rest, z) /\ Knows(Top, z) /\ Fits(Top, z, Doing(curr))
  BY <1>1, <1>2, AllowsPop DEF OnTheWay
<1>4. Listed(s) /\ Elements(s) \subseteq Stmts \cap Sources /\ ("plain" \in z => PlainList(s))
  BY <1>3 DEF Knows
<1>5. /\ "list" \in z
      /\ "stops" \in z <=> Stops(s)
      /\ "dead" \in z <=> DeadEnd(s)
      /\ "ends" \in z <=> EndsClosed(s)
  BY <1>3, DoingIs DEF Fits, Inside
<1>6. /\ Listed(r) /\ Elements(r) \subseteq Elements(s) /\ 1 \in DOMAIN s /\ Head(s) = s[1]
      /\ \A i \in DOMAIN r : i + 1 \in DOMAIN s /\ r[i] = s[i + 1]
  <2>1. Listed(r) /\ Len(r) = Len(s) - 1 /\ (\A i \in 1 .. Len(s) - 1 : r[i] = s[i + 1])
        /\ Head(s) = s[1] /\ 1 \in DOMAIN s /\ Elements(r) \subseteq Elements(s)
    BY <1>4, ListedTail
  <2>2. DOMAIN r = 1 .. Len(r) /\ DOMAIN s = 1 .. Len(s) /\ Len(s) \in Nat
    BY <1>4, <2>1, ListedIs
  <2> HIDE DEF r
  <2>3. \A i \in 1 .. Len(r) : i + 1 \in 1 .. Len(s) /\ i \in 1 .. Len(s) - 1
    BY <2>1, <2>2
  <2> QED BY <2>1, <2>2, <2>3
<1>7. St \in Stmts \cap Sources
  BY <1>1, <1>4, <1>6 DEF Elements
<1>8. /\ Stops(s) <=> Stopping(St) \/ Stops(r)
      /\ DeadEnd(s) <=> \/ Trapping(St) \/ (r # <<>> /\ Closed(St))
                        \/ St.k \notin Finals /\ DeadEnd(r)
      /\ EndsClosed(s) <=> IF r = <<>> THEN Closed(St) ELSE St.k \notin Finals /\ EndsClosed(r)
  BY <1>1, <1>4, FirstListed
<1>9. fr.k = "statements" /\ fr.s = r /\ Later = Push(fr, Rest)
  BY DEF Statements, Later, Push
<1>10. Later # <<>> /\ First(Later) = fr
  <2>1. Listed(Rest)
    BY <1>3, AllowsDead
  <2> HIDE DEF fr
  <2>2. Listed(Later) /\ Len(Later) = Len(Rest) + 1 /\ Head(Later) = fr /\ Len(Rest) \in Nat
    BY <1>9, <2>1, ListedPush, ListedIs DEF Push
  <2>3. Len(Later) # 0
    BY <2>2
  <2> QED BY <2>2, <2>3, ListedIs DEF First
<1> HIDE DEF r, fr
<1>11. ASSUME St.k \notin Finals
       PROVE  Allows(Later, u)
  <2>1. Knows(fr, z)
    <3>1. "plain" \in z => PlainList(r)
      BY <1>4, <1>6 DEF PlainList
    <3> QED BY <1>4, <1>6, <1>9, <3>1 DEF Knows
  <2>2. Inside(r, z, u)
    BY <1>5, <1>8, <1>11, OfStatementIs DEF Inside
  <2>3. Fits(fr, z, u)
    BY <1>9, <2>2 DEF Fits
  <2>4. "dead" \in u => DeadEnd(proc.body)
    BY <1>3, <1>5, <1>8, OfStatementIs, AllowsDead
  <2> HIDE DEF u
  <2> QED BY <1>3, <1>9, <2>1, <2>3, <2>4, AllowsPush
<1>12. ASSUME St.k \in Finals
       PROVE  Allows(Rest, {"list", "stops"}) /\ ~(Rest # <<>> /\ First(Rest).k = "statements")
  <2>1. Stopping(St) /\ ~Trapping(St) /\ ~Closed(St)
    BY <1>7, <1>12, Kinds DEF Finals
  <2>2. ~PlainList(s)
    BY <1>1, <1>6, <1>12 DEF PlainList
  <2>3. "stops" \in z /\ "dead" \notin z /\ "ends" \notin z /\ "plain" \notin z
    BY <1>4, <1>5, <1>8, <1>12, <2>1, <2>2
  <2>4. SameToBelow(z, {"list", "stops"})
    BY <1>5, <2>3 DEF SameToBelow
  <2> QED BY <1>3, <1>5, <2>4, AllowsSame, AllowsTurns
<1> QED BY <1>7, <1>9, <1>10, <1>11, <1>12

\* The lists in a statement are sources too.
LEMMA ListsAreSources ==
  ASSUME NEW st \in Stmts, NEW l \in Lists(st)
  PROVE  Elements(l) \subseteq Sources
BY DEF Sources

LEMMA ListsIs ==
  ASSUME NEW st \in Stmts
  PROVE  /\ st.k \in {"while", "dowhile"} => st.body \in Lists(st)
         /\ st.k = "if" => st.else \in Lists(st) /\ Head(st.arms).body \in Lists(st)
         /\ st.k = "if" => Head(st.arms) = st.arms[1] /\ 1 \in DOMAIN st.arms
<1>1. CASE st.k \in {"while", "dowhile"}
  BY <1>1 DEF Lists
<1>2. CASE st.k = "if"
  <2>1. Listed(st.arms) /\ st.arms # <<>>
    BY <1>2, InStmts DEF Parsed
  <2>2. Head(st.arms) = st.arms[1] /\ 1 \in DOMAIN st.arms
    BY <2>1, ListedTail
  <2> QED BY <1>2, <2>2 DEF Lists
<1> QED BY <1>1, <1>2

LEMMA ArmList ==
  ASSUME NEW st \in Stmts, st.k = "if"
  PROVE  LET b == Head(st.arms).body IN Listed(b) /\ Elements(b) \subseteq Stmts \cap Sources
BY ListsIs, ListsAreSources, IfParts

LEMMA LoopList ==
  ASSUME NEW st \in Stmts, st.k \in {"while", "dowhile"}
  PROVE  Listed(st.body) /\ Elements(st.body) \subseteq Stmts \cap Sources
BY ListsIs, ListsAreSources, LoopParts

LEMMA ElseList ==
  ASSUME NEW st \in Stmts, st.k = "if", Len(st.arms) = 1
  PROVE  Listed(st.else) /\ Elements(st.else) \subseteq Stmts \cap Sources
BY ListsIs, ListsAreSources, IfParts

\* An if, by its first arm.
LEMMA IfByArms ==
  ASSUME NEW st \in Stmts, st.k = "if"
  PROVE  /\ Stopping(st) <=> AllStop(st) /\ Stops(st.else)
         /\ Trapping(st) <=> DeadEnd(Head(st.arms).body) \/ RestDead(st)
         /\ AllStop(st) => Stops(Head(st.arms).body)
         /\ Len(st.arms) = 1 => (RestDead(st) <=> DeadEnd(st.else))
         /\ Len(st.arms) > 1 =>
              LET st2 == If(Tail(st.arms), st.else)
              IN /\ st2 \in Stmts /\ st2.k = "if" /\ st2.else = st.else
                 /\ Head(st2.arms) = Head(Tail(st.arms))
                 /\ AllStop(st) => AllStop(st2)
                 /\ RestDead(st) <=> Trapping(st2)
<1>1. Head(st.arms) = st.arms[1] /\ 1 \in DOMAIN st.arms
  BY ListsIs
<1>2. Stopping(st) <=> AllStop(st) /\ Stops(st.else)
  BY Kinds DEF AllStop
<1>3. Trapping(st) <=> DeadEnd(Head(st.arms).body) \/ RestDead(st)
  BY <1>1, Kinds DEF RestDead
<1>4. AllStop(st) => Stops(Head(st.arms).body)
  BY <1>1 DEF AllStop
<1>5. Listed(st.arms) /\ st.arms # <<>> /\ DOMAIN st.arms = 1 .. Len(st.arms) /\ Len(st.arms) \in Nat
  BY InStmts, ListedIs DEF Parsed
<1>6. ASSUME Len(st.arms) = 1
      PROVE  RestDead(st) <=> DeadEnd(st.else)
  <2>1. \A j \in DOMAIN st.arms : j = 1
    BY <1>5, <1>6
  <2> QED BY <2>1 DEF RestDead
<1>7. ASSUME Len(st.arms) > 1
      PROVE  LET st2 == If(Tail(st.arms), st.else)
             IN /\ st2 \in Stmts /\ st2.k = "if" /\ st2.else = st.else
                /\ Head(st2.arms) = Head(Tail(st.arms))
                /\ AllStop(st) => AllStop(st2)
                /\ RestDead(st) <=> Trapping(st2)
  <2> DEFINE st2 == If(Tail(st.arms), st.else)
  <2>1. st2 \in Stmts /\ st2.k = "if" /\ st2.else = st.else /\ st2.arms = Tail(st.arms)
    BY <1>7, IfParts
  <2> HIDE DEF st2
  <2>2. /\ Listed(st2.arms) /\ Len(st2.arms) = Len(st.arms) - 1
        /\ \A i \in 1 .. Len(st.arms) - 1 : st2.arms[i] = st.arms[i + 1]
    BY <1>5, <2>1, ListedTail
  <2>3. DOMAIN st2.arms = 1 .. Len(st.arms) - 1
    BY <2>2, ListedIs
  <2>4. /\ \A i \in DOMAIN st2.arms : i + 1 \in DOMAIN st.arms /\ i + 1 # 1 /\ st2.arms[i] = st.arms[i + 1]
        /\ \A i \in DOMAIN st.arms : i # 1 => i - 1 \in DOMAIN st2.arms /\ (i - 1) + 1 = i
    BY <1>5, <2>2, <2>3
  <2>5. \A i \in DOMAIN st.arms : i # 1 => i - 1 \in DOMAIN st2.arms /\ st2.arms[i - 1] = st.arms[i]
    BY <2>4
  <2>6. AllStop(st) => AllStop(st2)
    BY <2>4 DEF AllStop
  <2>7. (\E j \in DOMAIN st.arms : j # 1 /\ DeadEnd(st.arms[j].body))
          <=> \E j \in DOMAIN st2.arms : DeadEnd(st2.arms[j].body)
    BY <2>4, <2>5
  <2>8. RestDead(st) <=> Trapping(st2)
    BY <2>1, <2>7, Kinds DEF RestDead
  <2> QED BY <2>1, <2>6, <2>8 DEF st2
<1> QED BY <1>2, <1>3, <1>4, <1>6, <1>7

-----------------------------------------------------------------------------
\* The steps of the generator.

\* What the frame on top waits for.
Steady == /\ N \in Nat /\ Made(blocks) /\ curr \in IdsOf(blocks) \cup {Nil}
          /\ work # <<>> /\ Top.k \in {"statements", "chain"} /\ curr # Nil =>
               blocks[curr + 1].out = NoFlow
          /\ work # <<>> /\ Top.k = "chain" => curr # Nil

LEMMA GenSteady ==
  ASSUME NEW M, NEW ks, Gen(M, ks, work, blocks, curr)
  PROVE  Steady
<1>1. N \in Nat /\ Made(blocks) /\ curr \in IdsOf(blocks) \cup {Nil}
  BY MadeIs DEF Gen, N
<1>2. CASE work = <<>>
  BY <1>1, <1>2 DEF Steady
<1>3. CASE work # <<>>
  BY <1>1, <1>3, Popped DEF Steady, UnderTop
<1> QED BY <1>2, <1>3

\* The frame on top, and what is said of what it handles.
LEMMA TopKnows ==
  ASSUME OnTheWay, work # <<>>
  PROVE  \E z : /\ Allows(Rest, z) /\ Listed(Rest) /\ Knows(Top, z)
                /\ Top.k = "statements" => Inside(Top.s, z, Doing(curr))
                /\ Top.k # "statements" => Under(Top, z, Done(blocks, curr))
<1>1. First(work) = Top /\ Tail(work) = Rest
  BY DEF First, Top, Rest
<1>2. Current(work, blocks, curr) = IF Top.k = "statements" THEN Doing(curr) ELSE Done(blocks, curr)
  BY <1>1 DEF Current
<1>3. PICK z : Allows(Rest, z) /\ Knows(Top, z) /\ Fits(Top, z, Current(work, blocks, curr))
  BY <1>1, AllowsPop DEF OnTheWay
<1>4. Listed(Rest)
  BY <1>3, AllowsDead
<1> QED BY <1>2, <1>3, <1>4 DEF Fits

\* Back to the frames below.
LEMMA WayBack ==
  ASSUME NEW w, NEW z, Allows(w, z), NEW bs, NEW c,
         "list" \in z => SameToBelow(z, Done(bs, c)),
         "list" \notin z => SameToBelow(z, Doing(c))
  PROVE  Allows(w, Current(w, bs, c))
<1>1. CASE "list" \in z
  <2>1. ~(w # <<>> /\ First(w).k = "statements")
    BY <1>1, AllowsTurns
  <2>2. Current(w, bs, c) = Done(bs, c)
    BY <2>1 DEF Current
  <2> QED BY <1>1, <2>2, AllowsSame
<1>2. CASE "list" \notin z
  <2>1. w # <<>> /\ First(w).k = "statements"
    BY <1>2, AllowsTurns
  <2>2. Current(w, bs, c) = Doing(c)
    BY <2>1 DEF Current
  <2> QED BY <1>2, <2>2, AllowsSame
<1> QED BY <1>1, <1>2

\* A frame takes the place of the one on top.
LEMMA WayOn ==
  ASSUME NEW w, NEW z, Allows(w, z), NEW fr, Knows(fr, z), fr.k # "statements",
         NEW bs, NEW c, Under(fr, z, Done(bs, c))
  PROVE  Allows(Push(fr, w), Current(Push(fr, w), bs, c))
<1> DEFINE v == Push(fr, w)
           u == Done(bs, c)
<1>1. Fits(fr, z, u) /\ "dead" \notin u
  BY DoneIs DEF Fits
<1>2. First(v) = fr
  <2>1. Listed(w)
    BY AllowsDead
  <2> QED BY <2>1, ListedPush DEF First, Push
<1>3. Current(v, bs, c) = u
  BY <1>2 DEF Current
<1> HIDE DEF v, u
<1>4. Allows(v, u)
  BY <1>1, AllowsPush DEF v
<1> QED BY <1>3, <1>4 DEF v

\* A frame, and the statements above it.
LEMMA WayIn ==
  ASSUME NEW w, NEW z, Allows(w, z), NEW fr, Knows(fr, z), fr.k # "statements",
         NEW s, Under(fr, z, OfList(s)), Listed(s), Elements(s) \subseteq Stmts \cap Sources,
         DeadEnd(s) => "dead" \in z,
         NEW v, v = <<Statements(s), fr>> \o w,
         NEW bs, NEW c, c # Nil
  PROVE  Allows(v, Current(v, bs, c))
<1>1. Fits(fr, z, OfList(s))
  BY DEF Fits
<1>2. "dead" \in OfList(s) => DeadEnd(proc.body)
  BY OfListIs, AllowsDead
<1>3. Allows(Push(fr, w), OfList(s))
  BY <1>1, <1>2, AllowsPush
<1>4. v = Push(Statements(s), Push(fr, w))
  BY AllowsDead, PushTwo
<1> QED BY <1>3, <1>4, ListAllowed

LEMMA NextWay ==
  ASSUME proc' = proc, Allows(work', Current(work', blocks', curr'))
  PROVE  OnTheWay'
BY DEF OnTheWay, Allows, Verdicts, Whole

LEMMA BlockEndWay ==
  ASSUME OnTheWay, Steady, GenBlockEnd
  PROVE  OnTheWay'
<1>1. /\ work # <<>> /\ Top.k = "statements" /\ Top.s = <<>>
      /\ work' = Rest /\ blocks' = blocks /\ curr' = curr /\ proc' = proc
  BY DEF GenBlockEnd, AtFrame, Go
<1>2. PICK z : Allows(Rest, z) /\ Inside(<<>>, z, Doing(curr))
  BY <1>1, TopKnows
<1>3. "list" \in z /\ SameToBelow(z, Done(blocks, curr))
  BY <1>1, <1>2, NothingListed, DoingIs, DoneIs DEF Inside, SameToBelow, Steady
<1> QED BY <1>1, <1>2, <1>3, WayBack, NextWay

LEMMA AtStatementIs ==
  ASSUME NEW kind, AtStatement(kind)
  PROVE  work # <<>> /\ Top.k = "statements" /\ Top.s # <<>> /\ curr # Nil /\ St.k = kind
BY DEF AtStatement, AtFrame, St

LEMMA StatementWay ==
  ASSUME OnTheWay, Steady, GenStatement
  PROVE  OnTheWay'
<1>1. AtStatement("do") /\ work' = Later /\ curr' = curr /\ proc' = proc
  BY DEF GenStatement, Go
<1>2. /\ St \in Stmts /\ Allows(Later, OfStatement(St)) /\ curr # Nil /\ St.k = "do"
  BY <1>1, AtStatementIs, StatementAllowed DEF Finals
<1>3. ~Stopping(St) /\ ~Trapping(St) /\ ~Closed(St)
  BY <1>2, Kinds
<1>4. "list" \notin OfStatement(St) /\ SameToBelow(OfStatement(St), Doing(curr))
  BY <1>2, <1>3, OfStatementIs, DoingIs DEF SameToBelow
<1> QED BY <1>1, <1>2, <1>4, WayBack, NextWay

LEMMA LastFlow ==
  ASSUME NEW bs, Made(bs), NEW b \in IdsOf(bs), NEW e, NEW o
  PROVE  Alters(bs, SetOut(GenExpr(bs, b, e), b, o), b, Coded(bs[b + 1].code, e), o, 0)
<1> DEFINE us == GenExpr(bs, b, e)
           code == Coded(bs[b + 1].code, e)
<1>1. Alters(bs, us, b, code, bs[b + 1].out, 0)
  BY GenExprAlters DEF Coded
<1> HIDE DEF us, code
<1>2. Listed(code)
  BY MadeIs, ListedAppend DEF code, Coded
<1> QED BY <1>1, <1>2, ThenSetOut DEF us, code

LEMMA LeaveWay ==
  ASSUME OnTheWay, Steady, GenReturn \/ GenExit
  PROVE  OnTheWay'
<1>1. /\ AtStatement("return") \/ AtStatement("exit")
      /\ work' = Rest /\ curr' = curr /\ proc' = proc
      /\ \/ blocks' = blocks /\ IsTerminal(curr)
         \/ blocks' = SetOut(GenExpr(blocks, curr, St.e), curr, ReturnOf(St.e))
         \/ blocks' = SetOut(GenExpr(blocks, curr, St.e), curr, ExitOf(St.e))
  BY DEF GenReturn, GenExit, Go
<1>2. /\ work # <<>> /\ Top.k = "statements" /\ Top.s # <<>> /\ curr # Nil /\ St.k \in Finals
  BY <1>1, AtStatementIs DEF Finals
<1>3. Allows(Rest, {"list", "stops"}) /\ ~(Rest # <<>> /\ First(Rest).k = "statements")
  BY <1>2, StatementAllowed
<1>4. blocks'[curr + 1].out # NoFlow
  <2>1. CASE blocks' = blocks /\ IsTerminal(curr)
    BY <2>1 DEF IsTerminal, Out, NoFlow, Flow
  <2>2. ASSUME NEW o, o # NoFlow, blocks' = SetOut(GenExpr(blocks, curr, St.e), curr, o)
        PROVE  blocks'[curr + 1].out # NoFlow
    <3>1. Made(blocks) /\ curr \in IdsOf(blocks)
      BY <1>2 DEF Steady
    <3>2. blocks'[curr + 1] = [code |-> Coded(blocks[curr + 1].code, St.e), out |-> o]
      BY <2>2, <3>1, LastFlow DEF Alters
    <3>3. blocks'[curr + 1].out = o
      BY <3>2
    <3> QED BY <2>2, <3>3
  <2> QED BY <1>1, <2>1, <2>2, NotNoFlow
<1>5. SameToBelow({"list", "stops"}, Done(blocks', curr))
  <2>1. /\ "list" \in Done(blocks', curr) /\ "dead" \notin Done(blocks', curr)
        /\ "stops" \in Done(blocks', curr) /\ "ends" \notin Done(blocks', curr)
    BY <1>2, <1>4, DoneIs
  <2> QED BY <2>1 DEF SameToBelow
<1> QED BY <1>1, <1>3, <1>5, WayBack, NextWay

LEMMA NilNew ==
  ASSUME NEW n \in Nat
  PROVE  n # Nil /\ n + 1 # Nil /\ n + 2 # Nil
BY DEF Nil

LEMMA FrameIs ==
  ASSUME NEW kind, NEW st, NEW f, NEW o, NEW id
  PROVE  LET fr == IfFrame(kind, st, f, o, id)
         IN fr.k = kind /\ fr.st = st /\ fr.f = f /\ fr.outbl = o /\ fr.outblID = id
BY DEF IfFrame

\* An arm is about to be generated.
LEMMA ArmWay ==
  ASSUME NEW w, NEW z, Allows(w, z), NEW fr, Knows(fr, z), fr.k \in {"true", "elseif"},
         "list" \notin z, NEW v, v = <<Statements(Head(fr.st.arms).body), fr>> \o w,
         NEW bs, NEW c, c # Nil
  PROVE  Allows(v, Current(v, bs, c))
<1> DEFINE s == Head(fr.st.arms).body
<1>1. fr.st \in Stmts /\ fr.st.k = "if" /\ ("dead" \in z <=> Trapping(fr.st))
  BY DEF Knows
<1>2. Listed(s) /\ Elements(s) \subseteq Stmts \cap Sources
  BY <1>1, ArmList
<1>3. Under(fr, z, OfList(s))
  BY OfListIs DEF Under
<1>4. DeadEnd(s) => "dead" \in z
  BY <1>1, IfByArms
<1> HIDE DEF s
<1> QED BY <1>2, <1>3, <1>4, WayIn DEF s

LEMMA IfWay ==
  ASSUME Straight, OnTheWay, Steady, GenIf
  PROVE  OnTheWay'
<1> DEFINE fr == IfFrame("true", St, N + 1, Nil, 0)
           z  == OfStatement(St)
<1>1. AtStatement("if") /\ work' = <<Statements(Head(St.arms).body), fr>> \o Later /\ curr' = N /\ proc' = proc
  BY DEF GenIf, GenArm, Go
<1>2. /\ St \in Stmts \cap Sources /\ Allows(Later, z) /\ St.k = "if"
  BY <1>1, AtStatementIs, StatementAllowed DEF Finals
<1>3. /\ Stopping(St) <=> AllStop(St) /\ Stops(St.else)
      /\ Closed(St) <=> Stopping(St)
  BY <1>2, IfByArms, Kinds
<1>4. Stops(Head(St.arms).body) => AllStop(St)
  BY <1>2, ListsIs DEF Straight, AllStop
<1>5. fr.k = "true" /\ fr.st = St
  BY FrameIs
<1> HIDE DEF fr, z
<1>6. Knows(fr, z)
  BY <1>2, <1>3, <1>4, <1>5, OfStatementIs DEF Knows, z
<1>7. "list" \notin z
  BY OfStatementIs DEF z
<1>8. N # Nil
  BY NilNew DEF Steady
<1>9. Allows(work', Current(work', blocks', N))
  BY <1>1, <1>2, <1>5, <1>6, <1>7, <1>8, ArmWay
<1> QED BY <1>1, <1>9, NextWay

LEMMA ContinuesIs == Continues <=> "stops" \notin Done(blocks, curr)
BY DoneIs DEF Continues, HasFlow, Out

\* An arm is done.
LEMMA ArmDone ==
  ASSUME OnTheWay, work # <<>>, Top.k \in {"true", "elseif"}
  PROVE  \E z : /\ Allows(Rest, z) /\ Listed(Rest) /\ Knows(Top, z) /\ "list" \notin z
                /\ Continues <=> ~Stops(Head(Top.st.arms).body)
                /\ "dead" \in z <=> RestDead(Top.st)
                /\ Top.st \in Stmts /\ Top.st.k = "if"
<1>1. PICK z : /\ Allows(Rest, z) /\ Listed(Rest) /\ Knows(Top, z)
               /\ Under(Top, z, Done(blocks, curr))
  BY TopKnows
<1>2. Top.st \in Stmts /\ Top.st.k = "if" /\ ("dead" \in z <=> Trapping(Top.st))
  BY <1>1 DEF Knows
<1>3. /\ "stops" \in Done(blocks, curr) <=> Stops(Head(Top.st.arms).body)
      /\ ~DeadEnd(Head(Top.st.arms).body) /\ "list" \notin z
  BY <1>1, DoneIs DEF Under
<1>4. Continues <=> ~Stops(Head(Top.st.arms).body)
  BY <1>3, ContinuesIs
<1>5. "dead" \in z <=> RestDead(Top.st)
  BY <1>2, <1>3, IfByArms
<1> QED BY <1>1, <1>2, <1>3, <1>4, <1>5

\* The frame between two arms.
LEMMA ChainWay ==
  ASSUME NEW w, NEW z, Allows(w, z), NEW fr, Knows(fr, z), fr.k = "chain", "list" \notin z,
         NEW bs, NEW c, NEW v, v = Push(fr, w)
  PROVE  Allows(v, Current(v, bs, c))
<1>1. Under(fr, z, Done(bs, c))
  BY DoneIs DEF Under
<1> QED BY <1>1, WayOn

LEMMA IfTrueWay ==
  ASSUME OnTheWay, Steady, GenIfTrue
  PROVE  OnTheWay'
<1> DEFINE st == Top.st
<1>1. /\ work # <<>> /\ Top.k = "true" /\ proc' = proc
      /\ \E o, id : /\ work' = Push(IfFrame("chain", st, Top.f, o, id), Rest)
                    /\ o = IF Continues THEN N ELSE Nil
  BY DEF GenIfTrue, AtFrame, Go, Push
<1>2. PICK o, id : /\ work' = Push(IfFrame("chain", st, Top.f, o, id), Rest)
                   /\ o = IF Continues THEN N ELSE Nil
  BY <1>1
<1>3. o = Nil <=> ~Continues
  BY <1>2, NilNew DEF Steady
<1>4. PICK z : /\ Allows(Rest, z) /\ Knows(Top, z) /\ "list" \notin z
               /\ Continues <=> ~Stops(Head(st.arms).body)
               /\ "dead" \in z <=> RestDead(st)
               /\ st \in Stmts /\ st.k = "if"
  BY <1>1, ArmDone
<1>5. /\ Stops(Head(st.arms).body) => AllStop(st)
      /\ "stops" \in z <=> AllStop(st) /\ Stops(st.else)
      /\ "closed" \in z <=> "stops" \in z
  BY <1>1, <1>4 DEF Knows
<1>6. AllStop(st) => Stops(Head(st.arms).body)
  BY <1>4, IfByArms
<1> DEFINE fr == IfFrame("chain", st, Top.f, o, id)
<1>7. fr.k = "chain" /\ fr.st = st /\ fr.outbl = o
  BY FrameIs
<1>8. work' = Push(fr, Rest)
  BY <1>2
<1> HIDE DEF fr, st
<1>9. Knows(fr, z)
  BY <1>3, <1>4, <1>5, <1>6, <1>7 DEF Knows
<1>10. Allows(work', Current(work', blocks', curr'))
  BY <1>4, <1>7, <1>8, <1>9, ChainWay
<1> QED BY <1>1, <1>10, NextWay

LEMMA ElseIfEndWay ==
  ASSUME OnTheWay, Steady, GenElseIfEnd, NEW M, NEW ks, Gen(M, ks, work, blocks, curr)
  PROVE  OnTheWay'
<1> DEFINE st == Top.st
           fr == [Top EXCEPT !.k = "chain"]
<1>1. /\ work # <<>> /\ Top.k = "elseif" /\ proc' = proc /\ work' = Push(fr, Rest)
  BY DEF GenElseIfEnd, AtFrame, Go, Push
<1>2. PICK z : /\ Allows(Rest, z) /\ Knows(Top, z) /\ "list" \notin z
               /\ "dead" \in z <=> RestDead(st)
               /\ st \in Stmts /\ st.k = "if"
  BY <1>1, ArmDone
<1>3. fr.k = "chain" /\ fr.st = st /\ fr.outbl = Top.outbl
  <2>1. PICK l : FrameMeans(Top, ks[1], l, M, blocks)
    BY <1>1, Popped DEF UnderTop
  <2>2. Top = IfFrame(Top.k, Top.st, Top.f, Top.outbl, Top.outblID)
    BY <1>1, <2>1 DEF FrameMeans, IfMeans
  <2> QED BY <2>2 DEF IfFrame
<1> HIDE DEF fr, st
<1>4. Knows(fr, z)
  <2>1. /\ Top.outbl = Nil => AllStop(st)
        /\ "stops" \in z <=> Top.outbl = Nil /\ Stops(st.else)
        /\ "closed" \in z <=> "stops" \in z
    BY <1>1, <1>2 DEF Knows, st
  <2> QED BY <1>2, <1>3, <2>1 DEF Knows
<1>5. Allows(work', Current(work', blocks', curr'))
  BY <1>1, <1>2, <1>3, <1>4, ChainWay
<1> QED BY <1>1, <1>5, NextWay

LEMMA ElseIfWay ==
  ASSUME OnTheWay, Steady, GenElseIf
  PROVE  OnTheWay'
<1> DEFINE st == Top.st
           st2 == If(Tail(st.arms), st.else)
           fr == IfFrame("elseif", st2, N + 1, Top.outbl, Top.outblID)
<1>1. /\ work # <<>> /\ Top.k = "chain" /\ Len(st.arms) > 1 /\ proc' = proc /\ curr' = N
      /\ work' = <<Statements(Head(Tail(st.arms)).body), fr>> \o Rest
  BY DEF GenElseIf, AtFrame, GenArm, Go
<1>2. PICK z : /\ Allows(Rest, z) /\ Knows(Top, z) /\ Under(Top, z, Done(blocks, curr))
  BY <1>1, TopKnows
<1>3. /\ st \in Stmts /\ st.k = "if" /\ "list" \notin z
      /\ "closed" \in z <=> "stops" \in z
      /\ Top.outbl = Nil => AllStop(st)
      /\ "stops" \in z <=> Top.outbl = Nil /\ Stops(st.else)
      /\ "dead" \in z <=> RestDead(st)
  BY <1>1, <1>2 DEF Knows, Under
<1>4. /\ st2 \in Stmts /\ st2.k = "if" /\ st2.else = st.else
      /\ Head(st2.arms) = Head(Tail(st.arms))
      /\ AllStop(st) => AllStop(st2)
      /\ RestDead(st) <=> Trapping(st2)
  BY <1>1, <1>3, IfByArms
<1>5. fr.k = "elseif" /\ fr.st = st2 /\ fr.outbl = Top.outbl
  BY FrameIs
<1> HIDE DEF fr, st2, st
<1>6. Knows(fr, z)
  BY <1>3, <1>4, <1>5 DEF Knows
<1>7. N # Nil
  BY NilNew DEF Steady
<1>8. work' = <<Statements(Head(fr.st.arms).body), fr>> \o Rest
  BY <1>1, <1>4, <1>5
<1>9. Allows(work', Current(work', blocks', N))
  BY <1>2, <1>3, <1>5, <1>6, <1>7, <1>8, ArmWay
<1> QED BY <1>1, <1>9, NextWay

LEMMA ElseWay ==
  ASSUME OnTheWay, Steady, GenElse, NEW M, NEW ks, Gen(M, ks, work, blocks, curr)
  PROVE  OnTheWay'
<1> DEFINE st == Top.st
           fr == [Top EXCEPT !.k = "else"]
<1>1. /\ work # <<>> /\ Top.k = "chain" /\ Len(st.arms) = 1 /\ proc' = proc /\ curr' = curr
      /\ work' = <<Statements(st.else), fr>> \o Rest /\ blocks' = blocks
  BY DEF GenElse, AtFrame, Go
<1>2. PICK z : /\ Allows(Rest, z) /\ Knows(Top, z) /\ Under(Top, z, Done(blocks, curr))
  BY <1>1, TopKnows
<1>3. /\ st \in Stmts /\ st.k = "if" /\ "list" \notin z
      /\ "closed" \in z <=> "stops" \in z
      /\ Top.outbl = Nil => AllStop(st)
      /\ "stops" \in z <=> Top.outbl = Nil /\ Stops(st.else)
      /\ "dead" \in z <=> RestDead(st)
  BY <1>1, <1>2 DEF Knows, Under
<1>4. RestDead(st) <=> DeadEnd(st.else)
  BY <1>1, <1>3, IfByArms
<1>5. fr.k = "else" /\ fr.st = st /\ fr.outbl = Top.outbl
  <2>1. PICK l : FrameMeans(Top, ks[1], l, M, blocks)
    BY <1>1, Popped DEF UnderTop
  <2>2. Top = IfFrame(Top.k, Top.st, Top.f, Top.outbl, Top.outblID)
    BY <1>1, <2>1 DEF FrameMeans, IfMeans
  <2> QED BY <2>2 DEF IfFrame
<1>6. Listed(st.else) /\ Elements(st.else) \subseteq Stmts \cap Sources
  BY <1>1, <1>3, ElseList
<1>7. curr # Nil
  BY <1>1 DEF Steady
<1> HIDE DEF fr, st
<1>8. Knows(fr, z)
  BY <1>3, <1>4, <1>5 DEF Knows
<1>9. Under(fr, z, OfList(st.else))
  BY <1>3, <1>5, OfListIs DEF Under
<1>10. DeadEnd(st.else) => "dead" \in z
  BY <1>3, <1>4
<1>11. Allows(work', Current(work', blocks', curr))
  BY <1>1, <1>2, <1>5, <1>6, <1>7, <1>8, <1>9, <1>10, WayIn
<1> QED BY <1>1, <1>11, NextWay

LEMMA IfEndWay ==
  ASSUME OnTheWay, Steady, GenIfEnd
  PROVE  OnTheWay'
<1>1. /\ work # <<>> /\ Top.k = "else" /\ proc' = proc /\ work' = Rest
      /\ curr' = IF Continues /\ Top.outbl = Nil THEN N ELSE Top.outbl
  BY DEF GenIfEnd, AtFrame, Go
<1>2. PICK z : /\ Allows(Rest, z) /\ Knows(Top, z) /\ Under(Top, z, Done(blocks, curr))
  BY <1>1, TopKnows
<1>3. /\ "list" \notin z
      /\ "closed" \in z <=> "stops" \in z
      /\ "stops" \in z <=> Top.outbl = Nil /\ Stops(Top.st.else)
      /\ "dead" \in z <=> DeadEnd(Top.st.else)
  BY <1>1, <1>2 DEF Knows, Under
<1>4. ~DeadEnd(Top.st.else) /\ (Continues <=> ~Stops(Top.st.else))
  BY <1>1, <1>2, ContinuesIs, DoneIs DEF Under
<1>5. N # Nil
  BY NilNew DEF Steady
<1>6. curr' = Nil <=> Top.outbl = Nil /\ ~Continues
  BY <1>1, <1>5
<1>7. SameToBelow(z, Doing(curr'))
  BY <1>3, <1>4, <1>6, DoingIs DEF SameToBelow
<1>8. Allows(Rest, Current(Rest, blocks', curr'))
  BY <1>2, <1>3, <1>7, WayBack
<1> QED BY <1>1, <1>8, NextWay

\* A loop's body is about to be generated.
LEMMA LoopWay ==
  ASSUME Straight, OnTheWay, Steady, NEW kind \in {"while", "dowhile"}, AtStatement(kind),
         NEW e, NEW start, NEW end, end # Nil, curr' # Nil, proc' = proc,
         work' = <<Statements(St.body), LoopFrame(kind, e, start, end)>> \o Later
  PROVE  OnTheWay'
<1> DEFINE fr == LoopFrame(kind, e, start, end)
           z  == OfStatement(St)
<1>1. St \in Stmts \cap Sources /\ Allows(Later, z) /\ St.k = kind
  BY AtStatementIs, StatementAllowed DEF Finals
<1>2. Listed(St.body) /\ Elements(St.body) \subseteq Stmts \cap Sources
  BY <1>1, LoopList
<1>3. /\ ~Closed(St)
      /\ kind = "while" => ~Stopping(St)
      /\ kind = "dowhile" => (Stopping(St) <=> Stops(St.body)) /\ PlainList(St.body)
      /\ Trapping(St) <=> DeadEnd(St.body) \/ EndsClosed(St.body)
  <2>1. kind = "dowhile" => PlainList(St.body)
    BY <1>1 DEF Straight, PlainList, Finals
  <2> QED BY <1>1, <2>1, Kinds
<1>4. fr.k = kind /\ fr.end = end
  BY DEF LoopFrame
<1> HIDE DEF fr, z
<1>5. Knows(fr, z)
  BY <1>3, <1>4, OfStatementIs DEF Knows, z
<1>6. Under(fr, z, OfList(St.body))
  BY <1>3, <1>4, OfStatementIs, OfListIs DEF Under, z
<1>7. DeadEnd(St.body) => "dead" \in z
  BY <1>3, OfStatementIs DEF z
<1>8. Allows(work', Current(work', blocks', curr'))
  BY <1>1, <1>2, <1>4, <1>5, <1>6, <1>7, WayIn DEF fr
<1> QED BY <1>8, NextWay

LEMMA WhileWay ==
  ASSUME Straight, OnTheWay, Steady, GenWhile \/ GenDoWhile
  PROVE  OnTheWay'
<1>1. N # Nil /\ N + 1 # Nil /\ N + 2 # Nil
  BY NilNew DEF Steady
<1>2. CASE GenWhile
  BY <1>1, <1>2, LoopWay DEF GenWhile, Go
<1>3. CASE GenDoWhile
  BY <1>1, <1>3, LoopWay DEF GenDoWhile, Go
<1> QED BY <1>2, <1>3

LEMMA LoopEndWay ==
  ASSUME OnTheWay, Steady, GenWhileEnd \/ GenDoWhileEnd
  PROVE  OnTheWay'
<1>1. /\ work # <<>> /\ Top.k \in {"while", "dowhile"} /\ curr # Nil
      /\ proc' = proc /\ work' = Rest /\ curr' = Top.end
  BY DEF GenWhileEnd, GenDoWhileEnd, AtFrame, Go
<1>2. PICK z : /\ Allows(Rest, z) /\ Knows(Top, z) /\ Under(Top, z, Done(blocks, curr))
  BY <1>1, TopKnows
<1>3. "ends" \notin Done(blocks, curr) /\ "dead" \notin Done(blocks, curr)
  BY <1>1, DoneIs
<1>4. "list" \notin z /\ "closed" \notin z /\ "dead" \notin z /\ Top.end # Nil
  BY <1>1, <1>2, <1>3 DEF Knows, Under
<1>5. "stops" \notin z
  <2>1. CASE Top.k = "while"
    BY <1>2, <2>1 DEF Knows
  <2>2. CASE Top.k = "dowhile"
    <3>1. "plain" \in Done(blocks, curr) /\ ("stops" \in z <=> "stops" \in Done(blocks, curr))
      BY <1>2, <2>2 DEF Under
    <3> QED BY <1>1, <3>1, DoneIs
  <2> QED BY <1>1, <2>1, <2>2
<1>6. SameToBelow(z, Doing(Top.end))
  BY <1>4, <1>5, DoingIs DEF SameToBelow
<1>7. Allows(Rest, Current(Rest, blocks', Top.end))
  BY <1>2, <1>4, <1>6, WayBack
<1> QED BY <1>1, <1>7, NextWay

-----------------------------------------------------------------------------
\* What the generator comes to.

LEMMA WayStarts ==
  ASSUME CFInit
  PROVE  OnTheWay
<1> DEFINE s == proc.body
<1>1. proc \in Procedures /\ work = <<Statements(s)>> /\ curr = 0
  BY DEF CFInit
<1>2. Listed(s) /\ Elements(s) \subseteq Stmts \cap Sources
  BY <1>1, ProceduresParsed DEF Sources
<1>3. Allows(<<>>, OfList(s))
  BY AllowsNone, OfListIs DEF Whole
<1>4. work = Push(Statements(s), <<>>)
  BY <1>1, ListedOne, JoinEmpty DEF Push
<1>5. curr # Nil
  BY <1>1 DEF Nil
<1> HIDE DEF s
<1> QED BY <1>2, <1>3, <1>4, <1>5, ListAllowed DEF OnTheWay

LEMMA NilIsDeadEnd ==
  ASSUME OnTheWay, NilBlock
  PROVE  DeadEnd(proc.body)
<1>1. /\ work # <<>> /\ curr = Nil
      /\ Top.k \in {"while", "dowhile"} \/ (Top.k = "statements" /\ Top.s # <<>>)
  BY DEF NilBlock
<1>2. PICK z : /\ Allows(Rest, z)
               /\ Top.k = "statements" => Inside(Top.s, z, Doing(curr))
               /\ Top.k # "statements" => Under(Top, z, Done(blocks, curr))
  BY <1>1, TopKnows
<1>3. CASE Top.k = "statements"
  BY <1>1, <1>2, <1>3, DoingIs, AllowsDead DEF Inside
<1>4. CASE Top.k # "statements"
  BY <1>1, <1>2, <1>4, DoneIs, AllowsDead DEF Under
<1> QED BY <1>3, <1>4

LEMMA AtTheEnd ==
  ASSUME OnTheWay, work = <<>>
  PROVE  (Stops(proc.body) <=> ~Continues) /\ ~DeadEnd(proc.body)
<1>1. Whole(Done(blocks, curr))
  BY AllowsNone DEF OnTheWay, Current
<1> QED BY <1>1, ContinuesIs, DoneIs DEF Whole

LEMMA KeepsTheWay ==
  ASSUME OnTheWay
  PROVE  WayKept
<1>1. ~Mislinked
  <2>1. SUFFICES ASSUME work # <<>>, Top.k = "elseif", Continues, Top.outbl = Nil
                 PROVE  FALSE
    BY DEF Mislinked, AtFrame
  <2>2. PICK z : Knows(Top, z) /\ ~Stops(Head(Top.st.arms).body) /\ Top.st \in Stmts /\ Top.st.k = "if"
    BY <2>1, ArmDone
  <2>3. AllStop(Top.st)
    BY <2>1, <2>2 DEF Knows
  <2> QED BY <2>2, <2>3, IfByArms
<1>2. ~Overwritten
  <2>1. SUFFICES ASSUME work # <<>>, Top.k = "dowhile", curr # Nil, blocks[curr + 1].out # NoFlow
                 PROVE  FALSE
    BY DEF Overwritten, AtFrame, HasFlow, Out
  <2>2. PICK z : Under(Top, z, Done(blocks, curr))
    BY <2>1, TopKnows
  <2> QED BY <2>1, <2>2, DoneIs DEF Under
<1> QED BY <1>1, <1>2 DEF WayKept

LEMMA WayStep ==
  ASSUME Straight, OnTheWay, NEW M, NEW ks, Gen(M, ks, work, blocks, curr), phase = "gen",
         CFNext, phase' = "gen"
  PROVE  OnTheWay'
<1>1. Steady
  BY GenSteady
<1>2. ~NilBlock /\ ~GenProcEnd /\ ~Check
  BY DEF NilBlock, GenProcEnd, Check
<1> QED BY <1>1, <1>2, BlockEndWay, StatementWay, IfWay, IfTrueWay, ElseIfWay, ElseIfEndWay, ElseWay,
           IfEndWay, WhileWay, LoopEndWay, LeaveWay DEF CFNext

-----------------------------------------------------------------------------
\* Every block can be reached from the first, but for the ends of the do-whiles
\* that are open: their test is still to come.
DoEnd(fr) == IF fr.k = "dowhile" THEN {fr.end} ELSE {}

DoEnds(w) == UNION {DoEnd(w[i]) : i \in 1 .. Len(w)}

Rooted(bs, S) ==
  \A V : 0 \in V /\ (\A x \in IdsOf(bs) \cap V : To(bs, x) \subseteq V) => IdsOf(bs) \ S \subseteq V

\* And only the end of the body returns nothing.
Grounded(bs, S) ==
  Rooted(bs, S) /\ \A x \in IdsOf(bs) : bs[x + 1].out # ReturnOf("nothing")

LEMMA DoEndsPush ==
  ASSUME NEW w, Listed(w), NEW fr
  PROVE  DoEnds(Push(fr, w)) = DoEnd(fr) \cup DoEnds(w)
<1> DEFINE v == Push(fr, w)
           n == Len(w)
<1>1. n \in Nat /\ Len(v) = n + 1 /\ v[1] = fr /\ \A i \in 1 .. n : v[i + 1] = w[i]
  BY ListedPush, ListedIs DEF Push
<1> HIDE DEF v, n
<1>2. \A i \in 1 .. n + 1 : i = 1 \/ (i - 1 \in 1 .. n /\ (i - 1) + 1 = i)
  BY <1>1
<1>3. 1 \in 1 .. n + 1 /\ \A i \in 1 .. n : i + 1 \in 1 .. n + 1
  BY <1>1
<1>4. ASSUME NEW x \in DoEnds(v) PROVE x \in DoEnd(fr) \cup DoEnds(w)
  <2>1. PICK i \in 1 .. n + 1 : x \in DoEnd(v[i])
    BY <1>1 DEF DoEnds
  <2>2. CASE i = 1
    BY <1>1, <2>1, <2>2
  <2>3. CASE i # 1
    <3>1. i - 1 \in 1 .. n /\ v[i] = w[i - 1]
      BY <1>1, <1>2, <2>3
    <3> QED BY <2>1, <3>1 DEF DoEnds, n
  <2> QED BY <2>2, <2>3
<1>5. DoEnd(fr) \subseteq DoEnds(v)
  BY <1>1, <1>3 DEF DoEnds
<1>6. ASSUME NEW x \in DoEnds(w) PROVE x \in DoEnds(v)
  <2>1. PICK i \in 1 .. n : x \in DoEnd(w[i])
    BY DEF DoEnds, n
  <2>2. i + 1 \in 1 .. Len(v) /\ x \in DoEnd(v[i + 1])
    BY <1>1, <1>3, <2>1
  <2> QED BY <2>2 DEF DoEnds
<1> QED BY <1>4, <1>5, <1>6 DEF v

LEMMA DoEndsTop ==
  ASSUME Listed(work), work # <<>>
  PROVE  DoEnds(work) = DoEnd(Top) \cup DoEnds(Rest)
<1>1. work = Push(Top, Rest) /\ Listed(Rest)
  BY ListedTail DEF Push, Top, Rest
<1> QED BY <1>1, DoEndsPush

LEMMA DoEndsNone == DoEnds(<<>>) = {}
<1>1. \A i \in 1 .. Len(<<>>) : FALSE
  OBVIOUS
<1> QED BY <1>1 DEF DoEnds

LEMMA DoEndsOpen ==
  ASSUME NEW w
  PROVE  DoEnds(w) \subseteq OpenOf(w)
<1>1. \A i \in 1 .. Len(w) : DoEnd(w[i]) \subseteq Open(w[i])
  BY DEF DoEnd, Open
<1> QED BY <1>1 DEF DoEnds, OpenOf

\* A block without flow gets one, and there are new blocks.
LEMMA Grows ==
  ASSUME NEW bs, Made(bs), NEW S, Grounded(bs, S), NEW c \in IdsOf(bs), c \notin S,
         bs[c + 1].out = NoFlow,
         NEW us, NEW code, NEW o, NEW n \in Nat, Alters(bs, us, c, code, o, n),
         o # ReturnOf("nothing"),
         NEW T, S \subseteq T \cup TargetsOf(o),
         \A i \in 0 .. n - 1 : Len(bs) + i \in T \cup TargetsOf(o)
  PROVE  Grounded(us, T)
<1>1. /\ us[c + 1].out = o
      /\ \A x \in IdsOf(us) : x # c /\ x \in IdsOf(bs) => us[x + 1] = bs[x + 1]
      /\ \A x \in IdsOf(us) : x # c /\ x \notin IdsOf(bs) => us[x + 1] = EmptyBlock
  BY DEF Alters
<1>2. /\ \A x \in IdsOf(us) : x \notin IdsOf(bs) => x \in T \cup TargetsOf(o)
      /\ IdsOf(bs) \subseteq IdsOf(us)
  <2>1. \A x \in IdsOf(us) : x \notin IdsOf(bs) => x \in T \cup TargetsOf(o)
    BY NewIds
  <2>2. Len(us) = Len(bs) + n /\ Len(bs) \in Nat
    BY MadeIs DEF Alters
  <2>3. IdsOf(bs) \subseteq IdsOf(us)
    BY <2>2 DEF IdsOf
  <2> QED BY <2>1, <2>3
<1>3. TargetsOf(NoFlow) = {} /\ NoFlow # ReturnOf("nothing")
  BY DEF TargetsOf, NoFlow, Flow, ReturnOf
<1>4. ASSUME NEW V, 0 \in V, \A x \in IdsOf(us) \cap V : To(us, x) \subseteq V
      PROVE  IdsOf(us) \ T \subseteq V
  <2>1. ASSUME NEW x \in IdsOf(bs) \cap V PROVE To(bs, x) \subseteq V
    <3>1. CASE x = c
      BY <1>3, <3>1 DEF To
    <3>2. CASE x # c
      <4>1. us[x + 1] = bs[x + 1] /\ x \in IdsOf(us) \cap V
        BY <1>1, <1>2, <3>2
      <4> QED BY <1>4, <4>1 DEF To
    <3> QED BY <3>1, <3>2
  <2>2. IdsOf(bs) \ S \subseteq V
    BY <1>4, <2>1 DEF Grounded, Rooted
  <2>3. TargetsOf(o) \subseteq V
    BY <1>1, <1>2, <1>4, <2>2 DEF To
  <2> QED BY <1>2, <2>2, <2>3
<1>5. ASSUME NEW x \in IdsOf(us) PROVE us[x + 1].out # ReturnOf("nothing")
  <2>1. CASE x = c
    BY <1>1, <2>1
  <2>2. CASE x # c /\ x \in IdsOf(bs)
    BY <1>1, <2>2 DEF Grounded
  <2>3. CASE x # c /\ x \notin IdsOf(bs)
    BY <1>1, <1>3, <2>3, EmptyIs
  <2> QED BY <2>1, <2>2, <2>3
<1> QED BY <1>4, <1>5 DEF Grounded, Rooted

LEMMA FlowsAre ==
  ASSUME NEW e, NEW x, NEW y
  PROVE  /\ TargetsOf(JmpTo(x)) = {x} /\ JmpTo(x) # ReturnOf("nothing")
         /\ TargetsOf(Branch(e, x, y)) = {x, y} /\ Branch(e, x, y) # ReturnOf("nothing")
         /\ NoFlow # ReturnOf("nothing") /\ ExitOf(e) # ReturnOf("nothing")
         /\ e # "nothing" => ReturnOf(e) # ReturnOf("nothing")
BY DEF TargetsOf, JmpTo, Branch, NoFlow, ExitOf, ReturnOf, Flow

Planted == Grounded(blocks, DoEnds(work))

Footing == /\ Steady /\ Listed(work)
           /\ DoEnds(work) \subseteq IdsOf(blocks) /\ curr \notin DoEnds(work)

LEMMA GenFooting ==
  ASSUME NEW M, NEW ks, Gen(M, ks, work, blocks, curr)
  PROVE  Footing
<1>1. Stack(work, ks, M, blocks) /\ curr \notin OpenOf(work)
  BY DEF Gen
<1>2. OpenOf(work) \subseteq IdsOf(blocks)
  BY <1>1, OpenEmpty
<1>3. DoEnds(work) \subseteq OpenOf(work)
  BY DoEndsOpen
<1>4. Listed(work)
  BY <1>1 DEF Stack
<1> QED BY <1>1, <1>2, <1>3, <1>4, GenSteady DEF Footing

\* CurrBlock is given a flow, and blocks it leads to are made; what is above
\* the frames w has no open do-while but the one that ends at a new block.
LEMMA Plants ==
  ASSUME Planted, Footing, curr # Nil, blocks[curr + 1].out = NoFlow,
         NEW us, NEW code, NEW o, NEW n \in Nat, Alters(blocks, us, curr, code, o, n),
         o # ReturnOf("nothing"), NEW T, DoEnds(work) \subseteq T \cup TargetsOf(o),
         \A i \in 0 .. n - 1 : N + i \in T \cup TargetsOf(o)
  PROVE  Grounded(us, T)
<1>1. Made(blocks) /\ curr \in IdsOf(blocks) /\ N = Len(blocks)
  BY DEF Footing, Steady, N
<1> QED BY <1>1, Grows DEF Planted, Footing

LEMMA EndsBelow ==
  ASSUME Footing, work # <<>>, Top.k # "dowhile"
  PROVE  /\ DoEnds(Rest) = DoEnds(work) /\ Listed(Rest)
         /\ \A fr : DoEnds(<<fr>> \o Rest) = DoEnd(fr) \cup DoEnds(work)
         /\ \A fr, gr : DoEnds(<<fr, gr>> \o Rest) = DoEnd(fr) \cup DoEnd(gr) \cup DoEnds(work)
<1>1. Listed(Rest) /\ DoEnds(Rest) = DoEnds(work)
  BY DoEndsTop, ListedTail DEF Footing, DoEnd, Rest
<1>2. ASSUME NEW fr
      PROVE  DoEnds(<<fr>> \o Rest) = DoEnd(fr) \cup DoEnds(work)
  BY <1>1, DoEndsPush DEF Push
<1>3. ASSUME NEW fr, NEW gr
      PROVE  DoEnds(<<fr, gr>> \o Rest) = DoEnd(fr) \cup DoEnd(gr) \cup DoEnds(work)
  <2>1. Listed(Push(gr, Rest))
    BY <1>1, ListedPush DEF Push
  <2>2. <<fr, gr>> \o Rest = Push(fr, Push(gr, Rest))
    BY <1>1, PushTwo
  <2>3. /\ DoEnds(Push(fr, Push(gr, Rest))) = DoEnd(fr) \cup DoEnds(Push(gr, Rest))
        /\ DoEnds(Push(gr, Rest)) = DoEnd(gr) \cup DoEnds(Rest)
    BY <1>1, <2>1, DoEndsPush
  <2> QED BY <1>1, <2>2, <2>3
<1> QED BY <1>1, <1>2, <1>3

\* The same, above the statements that are left.
LEMMA EndsLater ==
  ASSUME Footing, work # <<>>, Top.k = "statements"
  PROVE  /\ DoEnds(Later) = DoEnds(work)
         /\ \A fr, gr : DoEnds(<<fr, gr>> \o Later) = DoEnd(fr) \cup DoEnd(gr) \cup DoEnds(work)
<1> DEFINE st == Statements(Tail(Top.s))
<1>1. Listed(Rest) /\ DoEnds(Rest) = DoEnds(work)
  BY EndsBelow
<1>2. DoEnd(st) = {}
  BY DEF Statements, DoEnd
<1>3. Later = Push(st, Rest)
  BY DEF Later, Push
<1> HIDE DEF st
<1>4. Listed(Later) /\ DoEnds(Later) = DoEnds(work)
  BY <1>1, <1>2, <1>3, ListedPush, DoEndsPush DEF Push
<1>5. ASSUME NEW fr, NEW gr
      PROVE  DoEnds(<<fr, gr>> \o Later) = DoEnd(fr) \cup DoEnd(gr) \cup DoEnds(work)
  <2>1. Listed(Push(gr, Later))
    BY <1>4, ListedPush DEF Push
  <2>2. <<fr, gr>> \o Later = Push(fr, Push(gr, Later))
    BY <1>4, PushTwo
  <2>3. /\ DoEnds(Push(fr, Push(gr, Later))) = DoEnd(fr) \cup DoEnds(Push(gr, Later))
        /\ DoEnds(Push(gr, Later)) = DoEnd(gr) \cup DoEnds(Later)
    BY <1>4, <2>1, DoEndsPush
  <2> QED BY <1>4, <2>2, <2>3
<1> QED BY <1>4, <1>5

LEMMA PlainEnds ==
  ASSUME NEW s, NEW kind \in {"true", "chain", "elseif", "else"}, NEW st, NEW f, NEW b, NEW id,
         NEW e, NEW x, NEW y
  PROVE  /\ DoEnd(Statements(s)) = {} /\ DoEnd(IfFrame(kind, st, f, b, id)) = {}
         /\ DoEnd(LoopFrame("while", e, x, y)) = {}
         /\ DoEnd(LoopFrame("dowhile", e, x, y)) = {y}
BY DEF DoEnd, Statements, IfFrame, LoopFrame

\* Nothing but the stack has changed.
LEMMA PlantedStill ==
  ASSUME Planted, blocks' = blocks, DoEnds(work') = DoEnds(work)
  PROVE  Planted'
BY DEF Planted

\* CurrBlock is given a jump to a block there is, or one to a new one.
LEMMA JumpPlants ==
  ASSUME Planted, Footing, Continues
  PROVE  /\ \A x : Grounded(SetOut(blocks, curr, JmpTo(x)), DoEnds(work))
         /\ Grounded(WithNew(SetOut(blocks, curr, JmpTo(N)), 1), DoEnds(work))
         /\ Grounded(WithNew(SetOut(blocks, curr, JmpTo(N)), 2), DoEnds(work) \cup {N + 1})
         /\ Grounded(WithNew(SetOut(blocks, curr, JmpTo(N)), 3), DoEnds(work) \cup {N + 1, N + 2})
<1>1. /\ curr # Nil /\ blocks[curr + 1].out = NoFlow
      /\ Made(blocks) /\ curr \in IdsOf(blocks) /\ N \in Nat
  BY DEF Continues, HasFlow, Out, Footing, Steady
<1> DEFINE S == DoEnds(work)
           code == blocks[curr + 1].code
<1>2. ASSUME NEW x PROVE Grounded(SetOut(blocks, curr, JmpTo(x)), S)
  <2> DEFINE us == SetOut(blocks, curr, JmpTo(x))
  <2>1. Alters(blocks, us, curr, code, JmpTo(x), 0)
    BY <1>1, SetOutAlters
  <2>2. JmpTo(x) # ReturnOf("nothing") /\ \A i \in 0 .. 0 - 1 : FALSE
    BY FlowsAre
  <2> HIDE DEF us, S, code
  <2> QED BY <1>1, <2>1, <2>2, Plants DEF us, S
<1>3. ASSUME NEW n \in {1, 2, 3}, NEW T, S \subseteq T,
             \A i \in 0 .. n - 1 : i = 0 \/ N + i \in T
      PROVE  Grounded(WithNew(SetOut(blocks, curr, JmpTo(N)), n), T)
  <2> DEFINE us == WithNew(SetOut(blocks, curr, JmpTo(N)), n)
  <2>1. Alters(blocks, us, curr, code, JmpTo(N), n) /\ n \in Nat
    BY <1>1, NewBlocks
  <2>2. JmpTo(N) # ReturnOf("nothing") /\ TargetsOf(JmpTo(N)) = {N}
    BY FlowsAre
  <2>3. \A i \in 0 .. n - 1 : N + i \in T \cup {N}
    <3>1. N + 0 = N
      BY <1>1
    <3> QED BY <1>3, <3>1
  <2>4. DoEnds(work) \subseteq T \cup {N}
    BY <1>3
  <2> HIDE DEF us, S, code
  <2> QED BY <1>1, <2>1, <2>2, <2>3, <2>4, Plants DEF us
<1> HIDE DEF S, code
<1>4. /\ \A i \in 0 .. 1 - 1 : i = 0
      /\ \A i \in 0 .. 2 - 1 : i = 0 \/ i = 1
      /\ \A i \in 0 .. 3 - 1 : i = 0 \/ i = 1 \/ i = 2
  OBVIOUS
<1>5. Grounded(WithNew(SetOut(blocks, curr, JmpTo(N)), 1), S)
  BY <1>3, <1>4
<1>6. Grounded(WithNew(SetOut(blocks, curr, JmpTo(N)), 2), S \cup {N + 1})
  BY <1>3, <1>4
<1>7. Grounded(WithNew(SetOut(blocks, curr, JmpTo(N)), 3), S \cup {N + 1, N + 2})
  BY <1>3, <1>4
<1> QED BY <1>2, <1>5, <1>6, <1>7 DEF S

\* Or code, and the flow its value decides.
LEMMA ExprPlants ==
  ASSUME Planted, Footing, Continues, NEW e
  PROVE  /\ Grounded(GenExpr(blocks, curr, e), DoEnds(work))
         /\ \A o : o # ReturnOf("nothing") =>
              \A T : DoEnds(work) \subseteq T \cup TargetsOf(o) =>
                Grounded(SetOut(GenExpr(blocks, curr, e), curr, o), T)
         /\ Grounded(WithNew(SetOut(GenExpr(blocks, curr, e), curr, Branch(e, N, N + 1)), 2),
                     DoEnds(work))
<1>1. /\ curr # Nil /\ blocks[curr + 1].out = NoFlow
      /\ Made(blocks) /\ curr \in IdsOf(blocks) /\ N \in Nat
  BY DEF Continues, HasFlow, Out, Footing, Steady
<1> DEFINE S == DoEnds(work)
           code == Coded(blocks[curr + 1].code, e)
<1>2. \A i \in 0 .. 0 - 1 : FALSE
  OBVIOUS
<1>3. Grounded(GenExpr(blocks, curr, e), S)
  <2> DEFINE us == GenExpr(blocks, curr, e)
  <2>1. Alters(blocks, us, curr, code, NoFlow, 0)
    BY <1>1, GenExprAlters DEF Coded
  <2>2. NoFlow # ReturnOf("nothing") /\ S \subseteq S \cup TargetsOf(NoFlow)
    BY FlowsAre
  <2> HIDE DEF us, code
  <2> QED BY <1>1, <1>2, <2>1, <2>2, Plants DEF us
<1>4. ASSUME NEW o, o # ReturnOf("nothing"), NEW T, S \subseteq T \cup TargetsOf(o)
      PROVE  Grounded(SetOut(GenExpr(blocks, curr, e), curr, o), T)
  <2> DEFINE us == SetOut(GenExpr(blocks, curr, e), curr, o)
  <2>1. Alters(blocks, us, curr, code, o, 0)
    BY <1>1, LastFlow
  <2> HIDE DEF us, code
  <2> QED BY <1>1, <1>2, <1>4, <2>1, Plants DEF us
<1>5. Grounded(WithNew(SetOut(GenExpr(blocks, curr, e), curr, Branch(e, N, N + 1)), 2), S)
  <2> DEFINE o == Branch(e, N, N + 1)
             us == SetOut(GenExpr(blocks, curr, e), curr, o)
             ws == WithNew(us, 2)
  <2>1. Alters(blocks, us, curr, code, o, 0)
    BY <1>1, LastFlow
  <2>2. TargetsOf(o) = {N, N + 1} /\ o # ReturnOf("nothing")
    BY FlowsAre
  <2> HIDE DEF us, code, o
  <2>3. Alters(blocks, ws, curr, code, o, 2)
    BY <1>1, <2>1, ThenNew
  <2>4. \A i \in 0 .. 2 - 1 : N + i \in S \cup TargetsOf(o)
    <3>1. \A i \in 0 .. 2 - 1 : i = 0 \/ i = 1
      OBVIOUS
    <3>2. N + 0 = N
      BY <1>1
    <3> QED BY <2>2, <3>1, <3>2
  <2> HIDE DEF ws
  <2> QED BY <1>1, <2>2, <2>3, <2>4, Plants DEF ws, us, o
<1> HIDE DEF S, code
<1> QED BY <1>3, <1>4, <1>5 DEF S

LEMMA Here ==
  ASSUME Footing, work # <<>>, Top.k \in {"statements", "chain"}, curr # Nil
  PROVE  Continues
BY DEF Footing, Steady, Continues, HasFlow, Out

LEMMA StatementPlants ==
  ASSUME OnTheWay, Planted, Footing, GenStatement \/ GenReturn \/ GenExit
  PROVE  Planted'
<1>1. /\ work # <<>> /\ Top.k = "statements" /\ Top.s # <<>> /\ curr # Nil
  BY AtStatementIs DEF GenStatement, GenReturn, GenExit
<1>2. Continues
  BY <1>1, Here
<1>3. DoEnds(Later) = DoEnds(work) /\ DoEnds(Rest) = DoEnds(work)
  BY <1>1, EndsLater, EndsBelow
<1>4. CASE GenStatement
  BY <1>2, <1>3, <1>4, ExprPlants DEF GenStatement, Go, Planted
<1>5. CASE GenReturn
  <2>1. work' = Rest /\ AtStatement("return")
        /\ (blocks' = blocks \/ blocks' = SetOut(GenExpr(blocks, curr, St.e), curr, ReturnOf(St.e)))
    BY <1>5 DEF GenReturn, Go
  <2>2. St \in Stmts /\ St.k = "return"
    BY <2>1, AtStatementIs, StatementAllowed
  <2>3. St.e # "nothing"
    BY <2>2, InStmts DEF Parsed
  <2>4. CASE blocks' = blocks
    BY <1>3, <2>1, <2>4, PlantedStill
  <2>5. CASE blocks' = SetOut(GenExpr(blocks, curr, St.e), curr, ReturnOf(St.e))
    BY <1>2, <1>3, <2>1, <2>3, <2>5, ExprPlants, FlowsAre DEF Planted
  <2> QED BY <2>1, <2>4, <2>5
<1>6. CASE GenExit
  BY <1>2, <1>3, <1>6, ExprPlants, FlowsAre DEF GenExit, Go, Planted
<1> QED BY <1>4, <1>5, <1>6
LEMMA IfPlants ==
  ASSUME Planted, Footing,
         \/ GenBlockEnd \/ GenIf \/ GenIfTrue \/ GenElseIf \/ GenElseIfEnd \/ GenElse \/ GenIfEnd
  PROVE  Planted'
<1>1. CASE GenBlockEnd
  <2>1. work # <<>> /\ Top.k = "statements" /\ work' = Rest /\ blocks' = blocks
    BY <1>1 DEF GenBlockEnd, AtFrame, Go
  <2> QED BY <2>1, EndsBelow, PlantedStill
<1>2. CASE GenIf
  <2> DEFINE fr == IfFrame("true", St, N + 1, Nil, 0)
             s  == Head(St.arms).body
  <2>1. work # <<>> /\ Top.k = "statements" /\ curr # Nil
    BY <1>2, AtStatementIs DEF GenIf
  <2>2. work' = <<Statements(s), fr>> \o Later
        /\ blocks' = WithNew(SetOut(GenExpr(blocks, curr, St.e), curr, Branch(St.e, N, N + 1)), 2)
    BY <1>2 DEF GenIf, GenArm, Go
  <2>3. DoEnd(Statements(s)) = {} /\ DoEnd(fr) = {}
    BY PlainEnds
  <2> HIDE DEF fr, s
  <2>4. DoEnds(work') = DoEnds(work)
    <3>1. DoEnds(<<Statements(s), fr>> \o Later) = DoEnd(Statements(s)) \cup DoEnd(fr) \cup DoEnds(work)
      BY <2>1, EndsLater
    <3> QED BY <2>2, <2>3, <3>1
  <2> QED BY <2>1, <2>2, <2>4, Here, ExprPlants DEF Planted
<1>3. CASE GenElseIf
  <2> DEFINE st == If(Tail(Top.st.arms), Top.st.else)
             fr == IfFrame("elseif", st, N + 1, Top.outbl, Top.outblID)
             s  == Head(Tail(Top.st.arms)).body
  <2>1. work # <<>> /\ Top.k = "chain" /\ curr # Nil
    BY <1>3 DEF GenElseIf, AtFrame, Footing, Steady
  <2>2. work' = <<Statements(s), fr>> \o Rest
        /\ blocks' = WithNew(SetOut(GenExpr(blocks, curr, st.e), curr, Branch(st.e, N, N + 1)), 2)
    BY <1>3 DEF GenElseIf, GenArm, Go
  <2>3. DoEnd(Statements(s)) = {} /\ DoEnd(fr) = {}
    BY PlainEnds
  <2> HIDE DEF fr, s, st
  <2>4. DoEnds(work') = DoEnds(work)
    BY <2>1, <2>2, <2>3, EndsBelow
  <2> QED BY <2>1, <2>2, <2>4, Here, ExprPlants DEF Planted
<1>4. CASE GenIfTrue
  <2>1. work # <<>> /\ Top.k = "true"
    BY <1>4 DEF GenIfTrue, AtFrame
  <2>2. \E b, id : work' = <<IfFrame("chain", Top.st, Top.f, b, id)>> \o Rest
    BY <1>4 DEF GenIfTrue, Go
  <2>3. blocks' = IF Continues THEN WithNew(SetOut(blocks, curr, JmpTo(N)), 1) ELSE blocks
    BY <1>4 DEF GenIfTrue, Go
  <2>4. DoEnds(work') = DoEnds(work)
    <3>1. PICK b, id : work' = <<IfFrame("chain", Top.st, Top.f, b, id)>> \o Rest
      BY <2>2
    <3>2. DoEnd(IfFrame("chain", Top.st, Top.f, b, id)) = {}
      BY PlainEnds
    <3> QED BY <2>1, <3>1, <3>2, EndsBelow
  <2> QED BY <2>3, <2>4, JumpPlants, PlantedStill DEF Planted
<1>5. CASE GenElseIfEnd
  <2>1. /\ work # <<>> /\ Top.k = "elseif"
        /\ work' = <<[Top EXCEPT !.k = "chain"]>> \o Rest
        /\ blocks' = IF Continues THEN SetOut(blocks, curr, JmpTo(Top.outblID)) ELSE blocks
    BY <1>5 DEF GenElseIfEnd, AtFrame, Go
  <2>2. DoEnd([Top EXCEPT !.k = "chain"]) = {}
    BY DEF DoEnd
  <2>3. DoEnds(work') = DoEnds(work)
    BY <2>1, <2>2, EndsBelow
  <2> QED BY <2>1, <2>3, JumpPlants, PlantedStill DEF Planted
<1>6. CASE GenElse
  <2>1. /\ work # <<>> /\ Top.k = "chain" /\ blocks' = blocks
        /\ work' = <<Statements(Top.st.else), [Top EXCEPT !.k = "else"]>> \o Rest
    BY <1>6 DEF GenElse, AtFrame, Go
  <2>2. DoEnd([Top EXCEPT !.k = "else"]) = {} /\ DoEnd(Statements(Top.st.else)) = {}
    BY PlainEnds DEF DoEnd
  <2>3. DoEnds(work') = DoEnds(work)
    BY <2>1, <2>2, EndsBelow
  <2> QED BY <2>1, <2>3, PlantedStill
<1>7. CASE GenIfEnd
  <2>1. work # <<>> /\ Top.k = "else" /\ work' = Rest
    BY <1>7 DEF GenIfEnd, AtFrame, Go
  <2>2. \/ blocks' = blocks
        \/ Continues /\ blocks' = WithNew(SetOut(blocks, curr, JmpTo(N)), 1)
        \/ Continues /\ blocks' = SetOut(blocks, curr, JmpTo(Top.outblID))
    BY <1>7 DEF GenIfEnd, Go
  <2>3. DoEnds(work') = DoEnds(work)
    BY <2>1, EndsBelow
  <2> QED BY <2>2, <2>3, JumpPlants, PlantedStill DEF Planted
<1> QED BY <1>1, <1>2, <1>3, <1>4, <1>5, <1>6, <1>7

\* The start of a while is given its test, when it is made.
LEMMA WhilePlants ==
  ASSUME Planted, Footing, GenWhile
  PROVE  Planted'
<1> DEFINE bs == WithNew(SetOut(blocks, curr, JmpTo(N)), 3)
           o  == Branch(St.e, N + 1, N + 2)
           us == SetOut(GenExpr(bs, N, St.e), N, o)
           S  == DoEnds(work)
           fr == LoopFrame("while", St.e, N, N + 2)
<1>1. work # <<>> /\ Top.k = "statements" /\ curr # Nil
  BY AtStatementIs DEF GenWhile
<1>2. work' = <<Statements(St.body), fr>> \o Later /\ blocks' = us
  BY DEF GenWhile, Go
<1>3. Continues
  BY <1>1, Here
<1>4. /\ Made(blocks) /\ curr \in IdsOf(blocks) /\ N \in Nat /\ N = Len(blocks)
      /\ S \subseteq IdsOf(blocks)
  BY <1>1 DEF Footing, Steady, N
<1>5. Grounded(bs, S \cup {N + 1, N + 2})
  BY <1>3, JumpPlants
<1>6. /\ Made(bs) /\ N \in IdsOf(bs) /\ N \notin IdsOf(blocks) /\ bs[N + 1] = EmptyBlock
  <2> DEFINE code == blocks[curr + 1].code
  <2>1. Alters(blocks, bs, curr, code, JmpTo(N), 3) /\ Listed(code)
    BY <1>4, NewBlocks, MadeIs
  <2>2. \A i \in 0 .. 3 - 1 : N + i \in IdsOf(bs) /\ N + i \notin IdsOf(blocks)
    BY <1>4, NewBlocks
  <2>3. N \in IdsOf(bs) /\ N \notin IdsOf(blocks)
    <3>1. N + 0 = N /\ 0 \in 0 .. 3 - 1
      BY <1>4
    <3> QED BY <2>2, <3>1
  <2> HIDE DEF bs, code
  <2>4. Made(bs)
    BY <1>4, <2>1, AlteredMade
  <2>5. bs[N + 1] = EmptyBlock
    BY <1>4, <2>1, <2>3 DEF Alters
  <2> QED BY <2>3, <2>4, <2>5
<1>7. DoEnds(work') = S
  <2>1. DoEnd(Statements(St.body)) = {} /\ DoEnd(fr) = {}
    BY PlainEnds
  <2> HIDE DEF fr
  <2>2. DoEnds(<<Statements(St.body), fr>> \o Later)
          = DoEnd(Statements(St.body)) \cup DoEnd(fr) \cup DoEnds(work)
    BY <1>1, EndsLater
  <2> QED BY <1>2, <2>1, <2>2
<1>8. N \notin S \cup {N + 1, N + 2} /\ bs[N + 1].out = NoFlow
  BY <1>4, <1>6, EmptyIs
<1>9. o # ReturnOf("nothing") /\ TargetsOf(o) = {N + 1, N + 2}
  BY FlowsAre
<1>10. \A i \in 0 .. 0 - 1 : FALSE
  OBVIOUS
<1> HIDE DEF bs, o, S
<1>11. Alters(bs, us, N, Coded(bs[N + 1].code, St.e), o, 0)
  BY <1>6, LastFlow
<1> HIDE DEF us
<1>12. S \cup {N + 1, N + 2} \subseteq S \cup TargetsOf(o)
  BY <1>9
<1>13. Grounded(us, S)
  BY <1>5, <1>6, <1>8, <1>9, <1>10, <1>11, <1>12, Grows
<1> QED BY <1>2, <1>7, <1>13 DEF Planted

LEMMA LoopPlants ==
  ASSUME Planted, Footing, WayKept, GenWhileEnd \/ GenDoWhile \/ GenDoWhileEnd
  PROVE  Planted'
<1>1. CASE GenWhileEnd
  <2>1. /\ work # <<>> /\ Top.k = "while" /\ work' = Rest /\ curr # Nil
        /\ blocks' = IF HasFlow(curr) THEN blocks ELSE SetOut(blocks, curr, JmpTo(Top.start))
    BY <1>1 DEF GenWhileEnd, AtFrame, Go
  <2>2. DoEnds(work') = DoEnds(work)
    BY <2>1, EndsBelow
  <2> QED BY <2>1, <2>2, JumpPlants, PlantedStill DEF Planted, Continues
<1>2. CASE GenDoWhile
  <2> DEFINE fr == LoopFrame("dowhile", St.e, N, N + 1)
  <2>1. work # <<>> /\ Top.k = "statements" /\ curr # Nil
    BY <1>2, AtStatementIs DEF GenDoWhile
  <2>2. work' = <<Statements(St.body), fr>> \o Later
        /\ blocks' = WithNew(SetOut(blocks, curr, JmpTo(N)), 2)
    BY <1>2 DEF GenDoWhile, Go
  <2>3. DoEnd(Statements(St.body)) = {} /\ DoEnd(fr) = {N + 1}
    BY DEF DoEnd, Statements, LoopFrame
  <2> HIDE DEF fr
  <2>4. DoEnds(work') = DoEnds(work) \cup {N + 1}
    BY <2>1, <2>2, <2>3, EndsLater
  <2> QED BY <2>1, <2>2, <2>4, Here, JumpPlants DEF Planted
<1>3. CASE GenDoWhileEnd
  <2> DEFINE o == Branch(Top.e, Top.start, Top.end)
  <2>1. /\ work # <<>> /\ Top.k = "dowhile" /\ work' = Rest /\ curr # Nil
        /\ blocks' = SetOut(GenExpr(blocks, curr, Top.e), curr, o)
    BY <1>3 DEF GenDoWhileEnd, AtFrame, Go
  <2>2. Continues
    BY <1>3, <2>1 DEF WayKept, Overwritten, GenDoWhileEnd, Continues
  <2>3. DoEnds(work) = {Top.end} \cup DoEnds(Rest)
    BY <2>1, DoEndsTop DEF Footing, DoEnd
  <2>4. o # ReturnOf("nothing") /\ TargetsOf(o) = {Top.start, Top.end}
    BY FlowsAre
  <2> HIDE DEF o
  <2>5. DoEnds(work) \subseteq DoEnds(Rest) \cup TargetsOf(o)
    BY <2>3, <2>4
  <2> QED BY <2>1, <2>2, <2>4, <2>5, ExprPlants DEF Planted
<1> QED BY <1>1, <1>2, <1>3

LEMMA PlantedStep ==
  ASSUME OnTheWay, Planted, NEW M, NEW ks, Gen(M, ks, work, blocks, curr), phase = "gen",
         CFNext, phase' = "gen"
  PROVE  Planted'
<1>1. Footing
  BY GenFooting
<1>2. ~NilBlock /\ ~GenProcEnd /\ ~Check
  BY DEF NilBlock, GenProcEnd, Check
<1> QED BY <1>1, <1>2, KeepsTheWay, StatementPlants, IfPlants, WhilePlants, LoopPlants DEF CFNext

LEMMA PlantedFirst ==
  ASSUME CFInit
  PROVE  Planted
<1>1. work = Push(Statements(proc.body), <<>>) /\ blocks = <<EmptyBlock>>
  BY ListedOne, JoinEmpty DEF CFInit, Push
<1>2. DoEnds(work) = {}
  BY <1>1, ListedEmpty, DoEndsPush, DoEndsNone, PlainEnds
<1>3. IdsOf(blocks) = {0} /\ blocks[0 + 1] = EmptyBlock
  <2> DEFINE bs == <<EmptyBlock>>
  <2>1. Len(bs) = 1 /\ bs[1] = EmptyBlock
    OBVIOUS
  <2> HIDE DEF bs
  <2>2. IdsOf(bs) = {0}
    BY <2>1 DEF IdsOf
  <2> QED BY <1>1, <2>1, <2>2 DEF bs
<1> QED BY <1>2, <1>3, EmptyIs, FlowsAre DEF Planted, Grounded, Rooted

LEMMA ReachedIsAll ==
  ASSUME Len(blocks) \in Nat, 0 \in IdsOf(blocks),
         \A b \in IdsOf(blocks) : To(blocks, b) \subseteq IdsOf(blocks)
  PROVE  /\ Reached \subseteq IdsOf(blocks) /\ 0 \in Reached
         /\ \A b \in Reached : To(blocks, b) \subseteq Reached
<1> DEFINE K == Len(blocks)
           D == IdsOf(blocks)
<1>1. PICK r : ReachesBy(r)
  BY ReachedBy
<1>2. K \in Nat /\ IsFiniteSet(D) /\ Cardinality(D) = K
  <2>1. 0 \in Int /\ K - 1 \in Int /\ 0 <= K - 1
    BY DEF IdsOf
  <2>2. IsFiniteSet(0 .. K - 1) /\ Cardinality(0 .. K - 1) = (K - 1) - 0 + 1
    BY <2>1, FS_Interval
  <2> QED BY <2>2 DEF IdsOf
<1>3. \A x : x \subseteq D => Spread(x, blocks) \subseteq D /\ x \subseteq Spread(x, blocks)
  BY DEF Spread
<1> DEFINE Settles(x) == Spread(x, blocks) = x
           Good(n) == /\ r[n] \subseteq D /\ 0 \in r[n]
                      /\ Settles(r[n]) \/ Cardinality(r[n]) >= n + 1
           S == {n \in Nat : n <= K => Good(n)}
<1> HIDE DEF D, K
<1>4. 0 \in S
  <2>1. r[0] = {0}
    BY <1>1 DEF ReachesBy
  <2>2. Cardinality({0}) = 1
    BY FS_Singleton
  <2>3. 0 \in D
    BY DEF D
  <2>4. r[0] \subseteq D /\ 0 \in r[0] /\ Cardinality(r[0]) >= 0 + 1
    BY <2>1, <2>2, <2>3
  <2> QED BY <2>4
<1>5. ASSUME NEW n \in Nat, n \in S PROVE n + 1 \in S
  <2>1. SUFFICES ASSUME n + 1 <= K PROVE Good(n + 1)
    OBVIOUS
  <2>2. Good(n)
    BY <1>2, <1>5, <2>1
  <2> DEFINE x == r[n]
             y == r[n + 1]
  <2>3. y = Spread(x, blocks)
    BY <1>1, <2>1 DEF ReachesBy, K
  <2>4. x \subseteq D /\ 0 \in x /\ y \subseteq D /\ x \subseteq y
    BY <1>3, <2>2, <2>3
  <2>5. CASE Settles(x)
    BY <2>3, <2>4, <2>5
  <2>6. CASE ~Settles(x)
    <3>1. Cardinality(x) >= n + 1
      BY <2>2, <2>6
    <3>2. PICK z \in y : z \notin x
      BY <2>3, <2>4, <2>6
    <3>3. x \cup {z} \subseteq y
      BY <2>4, <3>2
    <3> HIDE DEF x, y
    <3>4. IsFiniteSet(x) /\ IsFiniteSet(y)
      BY <1>2, <2>4, FS_Subset
    <3>5. Cardinality(x \cup {z}) = Cardinality(x) + 1
      BY <3>2, <3>4, FS_AddElement
    <3>6. Cardinality(x \cup {z}) <= Cardinality(y)
      BY <3>3, <3>4, FS_Subset
    <3>7. Cardinality(x) \in Nat /\ Cardinality(y) \in Nat
      BY <3>4, FS_CardinalityType
    <3>8. Cardinality(y) >= (n + 1) + 1
      BY <3>1, <3>5, <3>6, <3>7
    <3> QED BY <2>4, <3>8 DEF y
  <2> QED BY <2>5, <2>6
<1> HIDE DEF S
<1>6. K \in S
  BY <1>2, <1>4, <1>5, Spreading!Induct
<1> USE DEF S
<1>7. Good(K)
  BY <1>2, <1>6
<1>8. Reached = r[K]
  BY <1>1 DEF ReachesBy, K
<1>9. Cardinality(Reached) <= K /\ Cardinality(Reached) \in Nat
  BY <1>2, <1>7, <1>8, FS_Subset, FS_CardinalityType
<1>10. Settles(Reached)
  BY <1>2, <1>7, <1>8, <1>9
<1> QED BY <1>7, <1>8, <1>10 DEF Spread, D

-----------------------------------------------------------------------------
\* What is made of the blocks at the end.
LEMMA EveryReached ==
  ASSUME NEW M, Stands(M), Rooted(blocks, {})
  PROVE  Reached = IdsOf(blocks) /\ IdsOf(blocks) = Ids
<1>1. Len(blocks) \in Nat /\ 0 \in IdsOf(blocks)
  BY MadeIs DEF Stands
<1>2. \A b \in IdsOf(blocks) : To(blocks, b) \subseteq IdsOf(blocks)
  BY TargetsIn
<1>3. /\ Reached \subseteq IdsOf(blocks) /\ 0 \in Reached
      /\ \A b \in Reached : To(blocks, b) \subseteq Reached
  BY <1>1, <1>2, ReachedIsAll
<1>4. IdsOf(blocks) \ {} \subseteq Reached
  BY <1>3 DEF Rooted
<1> QED BY <1>3, <1>4 DEF IdsOf, Ids

\* The PIR checker has nothing to say of them.
Passes ==
  /\ Rooted(blocks, {})
  /\ \A b \in IdsOf(blocks) : /\ blocks[b + 1].out # NoFlow
                              /\ proc.returns => blocks[b + 1].out # ReturnOf("nothing")

\* setReturn.
LEMMA ReturnsSet ==
  ASSUME Made(blocks), NEW us,
         us = [i \in DOMAIN blocks |->
                 IF HasFlow(i - 1) THEN blocks[i]
                 ELSE [blocks[i] EXCEPT !.out = ReturnOf("nothing")]]
  PROVE  /\ IdsOf(us) = IdsOf(blocks)
         /\ \A b \in IdsOf(blocks) :
              us[b + 1].out = IF HasFlow(b) THEN blocks[b + 1].out ELSE ReturnOf("nothing")
<1>1. Len(blocks) \in Nat /\ DOMAIN blocks = 1 .. Len(blocks)
  BY MadeIs
<1>2. Len(us) = Len(blocks)
  <2> DEFINE S == {us[i] : i \in DOMAIN blocks}
  <2>1. DOMAIN us = 1 .. Len(blocks)
    BY <1>1
  <2>2. us \in [1 .. Len(blocks) -> S]
    BY <1>1
  <2> HIDE DEF S
  <2>3. us \in Seq(S)
    BY <1>1, <2>2
  <2> QED BY <1>1, <2>2, <2>3
<1>3. ASSUME NEW b \in IdsOf(blocks)
      PROVE  us[b + 1].out = IF HasFlow(b) THEN blocks[b + 1].out ELSE ReturnOf("nothing")
  <2> DEFINE x == blocks[b + 1]
  <2>1. /\ b + 1 \in 1 .. Len(blocks) /\ (b + 1) - 1 = b
        /\ x = [code |-> x.code, out |-> x.out]
    BY <1>3, MadeIs DEF IdsOf
  <2>2. us[b + 1] = IF HasFlow(b) THEN x ELSE [x EXCEPT !.out = ReturnOf("nothing")]
    BY <1>1, <2>1
  <2> HIDE DEF x
  <2>3. [x EXCEPT !.out = ReturnOf("nothing")] = [code |-> x.code, out |-> ReturnOf("nothing")]
    BY <2>1
  <2>4. CASE HasFlow(b)
    <3>1. us[b + 1] = blocks[b + 1]
      BY <2>2, <2>4 DEF x
    <3>2. us[b + 1].out = blocks[b + 1].out
      BY <3>1
    <3> QED BY <2>4, <3>2
  <2>5. CASE ~HasFlow(b)
    <3>1. us[b + 1] = [code |-> x.code, out |-> ReturnOf("nothing")]
      BY <2>2, <2>3, <2>5
    <3>2. us[b + 1].out = ReturnOf("nothing")
      BY <3>1
    <3> QED BY <2>5, <3>2
  <2> QED BY <2>4, <2>5
<1> QED BY <1>2, <1>3 DEF IdsOf

\* A procedure that comes to the end of its body has a block without flow, and
\* it is reached.
LEMMA EndVerdict ==
  ASSUME OnTheWay, Planted, NEW M, NEW ks, Gen(M, ks, work, blocks, curr),
         M[<<0, 1>>] = Machine(proc.body, FALSE), GenProcEnd
  PROVE  /\ phase' = IF proc.returns /\ ~Stops(proc.body) THEN "rejected" ELSE "generated"
         /\ ~DeadEnd(proc.body) /\ proc' = proc
         /\ phase' = "generated" => Passes'
<1>1. work = <<>> /\ proc' = proc
  BY DEF GenProcEnd
<1>2. (Stops(proc.body) <=> ~Continues) /\ ~DeadEnd(proc.body)
  BY <1>1, AtTheEnd
<1>3. Rooted(blocks, {}) /\ \A b \in IdsOf(blocks) : blocks[b + 1].out # ReturnOf("nothing")
  BY <1>1, DoEndsNone DEF Planted, Grounded
<1>4. Stands(M) /\ Made(blocks)
  BY DEF Gen, Stands
<1>5. Reached = IdsOf(blocks)
  BY <1>3, <1>4, EveryReached
<1>6. /\ curr \in IdsOf(blocks) \cup {Nil}
      /\ \A b \in IdsOf(blocks) : blocks[b + 1].out = NoFlow => b = curr
      /\ Nil \notin IdsOf(blocks)
  <2>1. OpenOf(work) = {}
    BY <1>1 DEF OpenOf
  <2> QED BY <2>1 DEF Gen, IdsOf, Nil
<1>7. ProperlyTerminates <=> Stops(proc.body)
  BY <1>2, <1>5, <1>6 DEF ProperlyTerminates, Continues, HasFlow, Out
<1>8. phase' = IF proc.returns /\ ~Stops(proc.body) THEN "rejected" ELSE "generated"
  BY <1>7 DEF GenProcEnd
<1>9. ASSUME phase' = "generated" PROVE Passes'
  <2>1. CASE ProperlyTerminates
    <3>1. blocks' = blocks
      BY <2>1 DEF GenProcEnd
    <3>2. \A b \in IdsOf(blocks) : blocks[b + 1].out # NoFlow
      BY <1>5, <2>1 DEF ProperlyTerminates, HasFlow, Out
    <3> QED BY <1>1, <1>3, <3>1, <3>2 DEF Passes
  <2>2. CASE ~ProperlyTerminates
    <3>1. proc.returns # TRUE /\ ~(proc.returns)
      BY <1>7, <1>8, <1>9, <2>2
    <3> DEFINE us == [i \in DOMAIN blocks |->
                        IF HasFlow(i - 1) THEN blocks[i]
                        ELSE [blocks[i] EXCEPT !.out = ReturnOf("nothing")]]
    <3>2. blocks' = us
      BY <2>2 DEF GenProcEnd
    <3>3. /\ IdsOf(us) = IdsOf(blocks)
          /\ \A b \in IdsOf(blocks) :
               us[b + 1].out = IF HasFlow(b) THEN blocks[b + 1].out ELSE ReturnOf("nothing")
      BY <1>4, ReturnsSet
    <3> HIDE DEF us
    <3>4. TargetsOf(NoFlow) = {} /\ TargetsOf(ReturnOf("nothing")) = {} /\ NoFlow # ReturnOf("nothing")
      BY DEF TargetsOf, NoFlow, ReturnOf, Flow
    <3>5. \A b \in IdsOf(blocks) : To(us, b) = To(blocks, b) /\ us[b + 1].out # NoFlow
      BY <3>3, <3>4 DEF To, HasFlow, Out
    <3>6. Rooted(us, {})
      BY <1>3, <3>3, <3>5 DEF Rooted
    <3> QED BY <1>1, <3>1, <3>2, <3>3, <3>5, <3>6 DEF Passes
  <2> QED BY <2>1, <2>2
<1> QED BY <1>1, <1>2, <1>8, <1>9

LEMMA CheckPasses ==
  ASSUME NEW M, Stands(M), Passes, Check
  PROVE  phase' = "checked"
<1>1. Reached = Ids /\ Ids = IdsOf(blocks)
  BY EveryReached DEF Passes
<1>2. \A b \in Ids : HasFlow(b) /\ (proc.returns => Out(b) # ReturnOf("nothing"))
  BY <1>1 DEF Passes, HasFlow, Out
<1> QED BY <1>1, <1>2 DEF Check

-----------------------------------------------------------------------------
\* All along, of a procedure that is lowered as it stands.
Way ==
  /\ phase = "gen" => OnTheWay /\ Planted
  /\ phase = "generated" => Passes
  /\ phase = "panicked" => DeadEnd(proc.body)
  /\ phase \in Compiled => ~DeadEnd(proc.body)
  /\ phase = "rejected" => proc.returns /\ ~Stops(proc.body)
  /\ phase \in Compiled /\ proc.returns => Stops(proc.body)
  /\ phase # "refused"

LEMMA WayFirst == Init => Way
<1>1. SUFFICES ASSUME Init PROVE Way
  OBVIOUS
<1>2. phase = "gen" /\ OnTheWay /\ Planted
  BY <1>1, WayStarts, PlantedFirst DEF Init, CFInit
<1> QED BY <1>2 DEF Way, Compiled

LEMMA WayUnchanged ==
  ASSUME Way, UNCHANGED vars
  PROVE  Way'
<1>1. proc' = proc /\ phase' = phase /\ work' = work /\ blocks' = blocks /\ curr' = curr
  BY DEF vars, cfVars
<1>2. OnTheWay => OnTheWay'
  BY <1>1, NextWay DEF OnTheWay
<1>3. Planted => Planted'
  BY <1>1, PlantedStill
<1>4. Passes => Passes'
  BY <1>1 DEF Passes
<1> QED BY <1>1, <1>2, <1>3, <1>4 DEF Way

LEMMA WayGenerator ==
  ASSUME Straight, Inv, Way, CFNext
  PROVE  Way'
<1>1. proc' = proc
  BY SameProc
<1>2. CASE Walks
  <2>1. phase = "gen" /\ phase' = "gen"
    BY <1>2, WalksOn
  <2>2. PICK M, ks : Gen(M, ks, work, blocks, curr)
    BY <2>1 DEF Inv, Generating
  <2>3. OnTheWay' /\ Planted'
    BY <2>1, <2>2, WayStep, PlantedStep DEF Way
  <2> QED BY <2>1, <2>3 DEF Way, Compiled
<1>3. CASE NilBlock
  <2>1. phase = "gen" /\ phase' = "panicked"
    BY <1>3 DEF NilBlock
  <2>2. DeadEnd(proc.body)
    BY <1>3, <2>1, NilIsDeadEnd DEF Way
  <2>3. DeadEnd(proc.body)'
    BY <1>1, <2>2
  <2> QED BY <2>1, <2>3 DEF Way, Compiled
<1>4. CASE GenProcEnd
  <2>1. phase = "gen"
    BY <1>4 DEF GenProcEnd
  <2>2. PICK M, ks : Gen(M, ks, work, blocks, curr) /\ M[<<0, 1>>] = Machine(proc.body, FALSE)
    BY <2>1 DEF Inv, Generating
  <2>3. /\ phase' = IF proc.returns /\ ~Stops(proc.body) THEN "rejected" ELSE "generated"
        /\ ~DeadEnd(proc.body)
        /\ phase' = "generated" => Passes'
    BY <1>4, <2>1, <2>2, EndVerdict DEF Way
  <2>4. /\ DeadEnd(proc.body)' <=> DeadEnd(proc.body)
        /\ Stops(proc.body)' <=> Stops(proc.body)
        /\ proc.returns' <=> proc.returns
    BY <1>1
  <2> QED BY <2>3, <2>4 DEF Way, Compiled
<1>5. CASE Check
  <2>1. phase = "generated"
    BY <1>5 DEF Check
  <2>2. PICK M : Stands(M)
    BY <2>1 DEF Inv
  <2>3. phase' = "checked"
    BY <1>5, <2>1, <2>2, CheckPasses DEF Way
  <2>4. ~DeadEnd(proc.body) /\ (proc.returns => Stops(proc.body))
    BY <2>1 DEF Way, Compiled
  <2>5. ~DeadEnd(proc.body)' /\ (proc.returns' => Stops(proc.body)')
    BY <1>1, <2>4
  <2> QED BY <2>3, <2>5 DEF Way, Compiled
<1> QED BY <1>2, <1>3, <1>4, <1>5 DEF CFNext, Walks

\* What comes after the check changes neither the procedure nor its verdict.
LEMMA WayLater ==
  ASSUME Way, phase \in Compiled, proc' = proc,
         phase' \in {"writing", "written", "revisited", "run", "ended"}
  PROVE  Way'
<1>1. ~DeadEnd(proc.body) /\ (proc.returns => Stops(proc.body))
  BY DEF Way
<1>2. ~DeadEnd(proc.body)' /\ (proc.returns' => Stops(proc.body)')
  BY <1>1
<1> QED BY <1>2 DEF Way, Compiled

LEMMA WayNext ==
  ASSUME Straight, Inv, Way, [Next]_vars
  PROVE  Way'
<1>1. CASE UNCHANGED vars \/ Stopped
  BY <1>1, WayUnchanged DEF Stopped
<1>2. CASE CFNext
  BY <1>2, WayGenerator
<1>3. CASE BONext
  <2>1. /\ proc' = proc /\ phase \in {"checked", "writing"}
        /\ phase' \in {"writing", "written", "revisited"}
    BY <1>3 DEF BONext, GenBlocks, GenJmp, GenBranch, GenLeave, NextTrueBranch, GenBlocksEnd,
           AtBlock, WriteBlock, cfVars
  <2> QED BY <2>1, WayLater DEF Compiled
<1>4. CASE Execute
  <2>1. proc' = proc /\ phase \in {"written", "run"} /\ phase' \in {"run", "ended"}
    BY <1>4 DEF Execute, Start, EnterDoWhile, FollowJmp, SkipLine, Step, End, Visible, cfVars
  <2> QED BY <2>1, WayLater DEF Compiled
<1> QED BY <1>1, <1>2, <1>3, <1>4 DEF Next, Compile

LEMMA WayKeeps == Way => WayKept
<1>1. CASE phase = "gen"
  BY <1>1, KeepsTheWay DEF Way
<1>2. CASE phase # "gen"
  BY <1>2 DEF WayKept, Mislinked, Overwritten, AtFrame
<1> QED BY <1>1, <1>2

\* The invariant of a procedure that is lowered as it stands: what is built
\* means its body, and the generator is where its source says.
LEMMA KeptAlong ==
  ASSUME Straight
  PROVE  Spec => [](Inv /\ Way)
<1>1. Init => Inv /\ Way
  BY Starts, WayFirst
<1>2. Inv /\ Way /\ [Next]_vars => (Inv /\ Way)'
  BY InvStep, WayNext, WayKeeps
<1> QED BY <1>1, <1>2, PTL DEF Spec

\* For every procedure: the source, the basic blocks and the assembly evaluate
\* the same expressions in the same order, decide the same branches and leave at
\* the same return or exit, whatever way the conditions go, if no arm of an if
\* falls past a first arm that does not and no do-while's body leaves.
THEOREM CompiledAgrees ==
  ASSUME Straight
  PROVE  Spec => []Agree
<1>1. Inv => Agree
  BY InvAgrees
<1> QED BY <1>1, KeptAlong, PTL

\* Of such a procedure no jump is made to an out block there is none of, and no
\* block's flow is replaced by a loop's.
THEOREM StraightKeepsTheWay ==
  ASSUME Straight
  PROVE  Spec => []WayKept
<1>1. Way => WayKept
  BY WayKeeps
<1> QED BY <1>1, KeptAlong, PTL

\* A procedure that returns something is refused with NotAllCodePathsReturnAValue
\* exactly when control can come to the end of its body: ProperlyTerminates, of
\* the blocks, says of the source what it should.
THEOREM VerdictIsRight ==
  ASSUME Straight
  PROVE  Spec => []VerdictRight
<1>1. Way => VerdictRight
  BY DEF Way, VerdictRight
<1> QED BY <1>1, KeptAlong, PTL

\* The generator dereferences a nil CurrBlock if and only if a statement, or the
\* end of a loop, follows an if that control does not come out of.
THEOREM PanicsThere ==
  ASSUME Straight
  PROVE  Spec => []PanicsAtDeadEnds
<1>1. Way => PanicsAtDeadEnds
  BY DEF Way, PanicsAtDeadEnds
<1> QED BY <1>1, KeptAlong, PTL

\* The PIR checker finds nothing wrong with what the generator made: every block
\* is reached, has a flow, and returns what the procedure does.
THEOREM NeverRefused ==
  ASSUME Straight
  PROVE  Spec => [](phase # "refused")
<1>1. Way => phase # "refused"
  BY DEF Way
<1> QED BY <1>1, KeptAlong, PTL

-----------------------------------------------------------------------------
\* No block is come to twice when they are written: what a branch leads to is
\* led to by nothing else, or every way to the branch goes through it.

Branches(bs, b) == bs[b + 1].out.t = "branch"

Free(bs, x)     == \A y \in IdsOf(bs) : Branches(bs, y) => x \notin To(bs, y)
Unlinked(bs, x) == \A y \in IdsOf(bs) : x \notin To(bs, y)
Lone(bs, b, t)  == t # 0 /\ \A y \in IdsOf(bs) : t \in To(bs, y) => y = b

\* From the first block, V is not left but to t.
Gate(bs, t, V) ==
  0 \in V /\ t \notin V /\ \A y \in IdsOf(bs) : y \in V => To(bs, y) \subseteq V \cup {t}

\* Nor is it when the blocks L are led to.
Gated(bs, b, t, L) == \E V : Gate(bs, t, V) /\ b \notin V /\ L \subseteq V

Splits(bs, b, L) ==
  LET o == bs[b + 1].out
  IN /\ o.true # o.false /\ Lone(bs, b, o.false)
     /\ Lone(bs, b, o.true) \/ Gated(bs, b, o.true, L)

Sealed(bs, L) == \A b \in IdsOf(bs) : Branches(bs, b) => Splits(bs, b, L)

\* Every flow is to a block there is.
Inner(bs) == \A x \in IdsOf(bs) : To(bs, x) \subseteq IdsOf(bs)

LEMMA BranchTargets ==
  ASSUME NEW bs, NEW b, Branches(bs, b)
  PROVE  To(bs, b) = {bs[b + 1].out.true, bs[b + 1].out.false}
BY DEF Branches, To, TargetsOf

LEMMA NoTargets ==
  ASSUME NEW bs, NEW b, bs[b + 1].out = NoFlow
  PROVE  To(bs, b) = {} /\ ~Branches(bs, b)
BY DEF Branches, To, TargetsOf, NoFlow, Flow

\* A block without flow gets one, and there are new blocks.
FlowGiven(bs, us, c, code, o, n) ==
  /\ Made(bs) /\ Inner(bs) /\ c \in IdsOf(bs) /\ bs[c + 1].out = NoFlow
  /\ Listed(code) /\ n \in Nat /\ Alters(bs, us, c, code, o, n)

IsNew(bs, x) == x \in Nat /\ Len(bs) <= x

LEMMA GrownIs ==
  ASSUME NEW bs, NEW us, NEW c, NEW code, NEW o, NEW n, FlowGiven(bs, us, c, code, o, n)
  PROVE  /\ Made(us) /\ IdsOf(bs) \subseteq IdsOf(us) /\ c \in IdsOf(us) /\ To(us, c) = TargetsOf(o)
         /\ us[c + 1].out = o
         /\ \A y \in IdsOf(us) : y # c /\ y \in IdsOf(bs) => us[y + 1] = bs[y + 1] /\ To(us, y) = To(bs, y)
         /\ \A y \in IdsOf(us) : y \notin IdsOf(bs) => IsNew(bs, y) /\ To(us, y) = {} /\ ~Branches(us, y)
         /\ \A x \in IdsOf(bs) : ~IsNew(bs, x)
         /\ To(bs, c) = {} /\ ~Branches(bs, c)
<1>1. /\ Made(us) /\ Len(us) = Len(bs) + n /\ c \in IdsOf(us) /\ IdsOf(bs) \subseteq IdsOf(us)
      /\ \A x : x \in IdsOf(us) <=> x \in IdsOf(bs) \/ (x \in Int /\ Len(bs) <= x /\ x < Len(bs) + n)
  BY AlteredMade DEF FlowGiven
<1>2. us[c + 1] = [code |-> code, out |-> o]
      /\ \A x \in IdsOf(us) : x # c => us[x + 1] = IF x \in IdsOf(bs) THEN bs[x + 1] ELSE EmptyBlock
  BY DEF FlowGiven, Alters
<1>3. Len(bs) \in Nat /\ \A b : b \in IdsOf(bs) <=> b \in Int /\ 0 <= b /\ b < Len(bs)
  BY MadeIs DEF FlowGiven
<1>4. \A y \in IdsOf(us) : y \notin IdsOf(bs) => IsNew(bs, y)
  BY <1>1, <1>3 DEF IsNew
<1>5. \A y \in IdsOf(us) : y \notin IdsOf(bs) => us[y + 1].out = NoFlow
  BY <1>2, EmptyIs DEF FlowGiven
<1>6. \A x \in IdsOf(bs) : ~IsNew(bs, x)
  BY <1>3 DEF IsNew
<1>7. us[c + 1].out = o /\ To(us, c) = TargetsOf(o)
  BY <1>2 DEF To
<1>8. \A y \in IdsOf(us) : y # c /\ y \in IdsOf(bs) => us[y + 1] = bs[y + 1] /\ To(us, y) = To(bs, y)
  BY <1>2 DEF To
<1>9. \A y \in IdsOf(us) : y \notin IdsOf(bs) => To(us, y) = {} /\ ~Branches(us, y)
  BY <1>5, NoTargets
<1>10. To(bs, c) = {} /\ ~Branches(bs, c)
  BY NoTargets DEF FlowGiven
<1> QED BY <1>1, <1>4, <1>6, <1>7, <1>8, <1>9, <1>10

LEMMA GrownInner ==
  ASSUME NEW bs, NEW us, NEW c, NEW code, NEW o, NEW n, FlowGiven(bs, us, c, code, o, n),
         TargetsOf(o) \subseteq IdsOf(us)
  PROVE  Inner(us)
<1>1. \A y \in IdsOf(bs) : To(bs, y) \subseteq IdsOf(bs)
  BY DEF FlowGiven, Inner
<1> QED BY <1>1, GrownIs DEF Inner

\* No old flow leads to a new block.
LEMMA NewUnlinked ==
  ASSUME NEW bs, Made(bs), Inner(bs), 0 \in IdsOf(bs), NEW x, IsNew(bs, x)
  PROVE  Unlinked(bs, x) /\ Free(bs, x) /\ x # 0
<1>1. \A y \in IdsOf(bs) : ~IsNew(bs, y)
  BY MadeIs DEF IsNew
<1> QED BY <1>1 DEF Inner, Unlinked, Free

LEMMA FreeStill ==
  ASSUME NEW bs, NEW us, NEW c, NEW code, NEW o, NEW n, FlowGiven(bs, us, c, code, o, n),
         NEW x, Free(bs, x), o.t = "branch" => x \notin TargetsOf(o)
  PROVE  Free(us, x)
<1>1. SUFFICES ASSUME NEW y \in IdsOf(us), Branches(us, y) PROVE x \notin To(us, y)
  BY DEF Free
<1>2. CASE y = c
  BY <1>1, <1>2, GrownIs DEF Branches
<1>3. CASE y # c
  <2>1. y \in IdsOf(bs) /\ us[y + 1] = bs[y + 1] /\ To(us, y) = To(bs, y)
    BY <1>1, <1>3, GrownIs
  <2> QED BY <1>1, <2>1 DEF Free, Branches
<1> QED BY <1>2, <1>3

LEMMA UnlinkedStill ==
  ASSUME NEW bs, NEW us, NEW c, NEW code, NEW o, NEW n, FlowGiven(bs, us, c, code, o, n),
         NEW x, Unlinked(bs, x), x \notin TargetsOf(o)
  PROVE  Unlinked(us, x)
<1>1. SUFFICES ASSUME NEW y \in IdsOf(us) PROVE x \notin To(us, y)
  BY DEF Unlinked
<1>2. CASE y = c
  BY <1>2, GrownIs
<1>3. CASE y # c /\ y \in IdsOf(bs)
  BY <1>3, GrownIs DEF Unlinked
<1>4. CASE y # c /\ y \notin IdsOf(bs)
  BY <1>4, GrownIs
<1> QED BY <1>2, <1>3, <1>4

\* What nothing led to is led to by its block alone.
LEMMA LoneNow ==
  ASSUME NEW bs, NEW us, NEW c, NEW code, NEW o, NEW n, FlowGiven(bs, us, c, code, o, n),
         NEW x, Unlinked(bs, x), x # 0
  PROVE  Lone(us, c, x)
<1>1. SUFFICES ASSUME NEW y \in IdsOf(us), x \in To(us, y), y # c PROVE FALSE
  BY DEF Lone
<1>2. CASE y \in IdsOf(bs)
  BY <1>1, <1>2, GrownIs DEF Unlinked
<1>3. CASE y \notin IdsOf(bs)
  BY <1>1, <1>3, GrownIs
<1> QED BY <1>2, <1>3

\* A flow leads to new blocks, and to those of L that no branch leads to.
LEMMA SealedStill ==
  ASSUME NEW bs, NEW us, NEW c, NEW code, NEW o, NEW n, FlowGiven(bs, us, c, code, o, n),
         NEW L, Sealed(bs, L), NEW M, \A x \in M : x \in L \/ IsNew(bs, x),
         \A x \in TargetsOf(o) : IsNew(bs, x) \/ (x \in L /\ Free(bs, x)),
         o.t = "branch" => Splits(us, c, M)
  PROVE  Sealed(us, M)
<1>1. SUFFICES ASSUME NEW b \in IdsOf(us), Branches(us, b), b # c PROVE Splits(us, b, M)
  BY GrownIs DEF Sealed, Branches
<1>2. b \in IdsOf(bs) /\ us[b + 1] = bs[b + 1] /\ Branches(bs, b)
  BY <1>1, GrownIs DEF Branches
<1> DEFINE t == bs[b + 1].out.true
           f == bs[b + 1].out.false
<1>3. Splits(bs, b, L) /\ To(bs, b) = {t, f} /\ us[b + 1].out = bs[b + 1].out
  BY <1>2, BranchTargets DEF Sealed
<1> HIDE DEF t, f
<1>4. ASSUME NEW x \in {t, f}, Lone(bs, b, x) PROVE Lone(us, b, x)
  <2>1. x \in IdsOf(bs) /\ ~IsNew(bs, x)
    BY <1>2, <1>3, GrownIs DEF FlowGiven, Inner
  <2>2. ~Free(bs, x)
    BY <1>2, <1>3 DEF Free
  <2>3. x \notin TargetsOf(o)
    BY <2>1, <2>2
  <2>4. ASSUME NEW y \in IdsOf(us), x \in To(us, y) PROVE y = b
    <3>1. CASE y = c
      BY <2>3, <2>4, <3>1, GrownIs
    <3>2. CASE y # c /\ y \in IdsOf(bs)
      BY <1>4, <2>4, <3>2, GrownIs DEF Lone
    <3>3. CASE y # c /\ y \notin IdsOf(bs)
      BY <2>4, <3>3, GrownIs
    <3> QED BY <3>1, <3>2, <3>3
  <2> QED BY <1>4, <2>4 DEF Lone
<1>5. ASSUME Gated(bs, b, t, L) PROVE Gated(us, b, t, M)
  <2>1. PICK V : Gate(bs, t, V) /\ b \notin V /\ L \subseteq V
    BY <1>5 DEF Gated
  <2> DEFINE W == V \cup {x \in Nat : IsNew(bs, x)}
  <2>2. b \notin W /\ M \subseteq W /\ 0 \in W
    BY <1>2, <2>1, GrownIs DEF Gate, IsNew
  <2>3. t \notin W
    <3>1. t \in IdsOf(bs)
      BY <1>2, <1>3 DEF FlowGiven, Inner
    <3> QED BY <2>1, <3>1, GrownIs DEF Gate
  <2>4. ASSUME NEW y \in IdsOf(us), y \in W PROVE To(us, y) \subseteq W \cup {t}
    <3>1. CASE y = c
      BY <2>1, <3>1, GrownIs DEF IsNew
    <3>2. CASE y # c /\ y \in IdsOf(bs)
      <4>1. y \in V
        BY <2>4, <3>2, GrownIs
      <4> QED BY <2>1, <3>2, <4>1, GrownIs DEF Gate
    <3>3. CASE y # c /\ y \notin IdsOf(bs)
      BY <3>3, GrownIs
    <3> QED BY <3>1, <3>2, <3>3
  <2> HIDE DEF W
  <2> QED BY <2>2, <2>3, <2>4 DEF Gated, Gate
<1> QED BY <1>3, <1>4, <1>5 DEF Splits, t, f

-----------------------------------------------------------------------------
\* The frames, and the blocks they have yet to come to.

\* What is jumped to by what a frame handles.
Joint(fr) ==
  CASE fr.k \in {"elseif", "chain", "else"} -> {fr.outbl} \ {Nil}
    [] fr.k \in {"while", "dowhile"} -> {fr.start}
    [] OTHER -> {}

Joints(w) == UNION {Joint(fr) : fr \in Elements(w)}

Marks(w) == Joints(w) \cup DoEnds(w)

\* Not in the body of the do-while.
Outside(fr, x) == x < fr.start \/ x = fr.end

\* Its body is entered by its start.
Loop(fr, bs) ==
  /\ fr.start \in Nat /\ 0 < fr.start /\ fr.start < fr.end /\ fr.end \in IdsOf(bs)
  /\ \A x \in IdsOf(bs) : Outside(fr, x) => \A y \in To(bs, x) : y = fr.start \/ Outside(fr, y)

Holds(fr, A) == \A x \in A : ~Outside(fr, x)

\* A do-while's body has the blocks A, on top of the frames w, and what the
\* frames above it have yet to come to.
Nest(w, A, bs) ==
  \A i \in 1 .. Len(w) : w[i].k = "dowhile" =>
    /\ Loop(w[i], bs) /\ Holds(w[i], A)
    /\ \A j \in 1 .. Len(w) : j < i => Holds(w[i], Open(w[j]))
    /\ \A j \in 1 .. Len(w) : i < j => \A x \in Joint(w[j]) \cup DoEnd(w[j]) : x < w[i].start

LEMMA ElementsPush ==
  ASSUME NEW w, Listed(w), NEW fr
  PROVE  Elements(Push(fr, w)) = {fr} \cup Elements(w) /\ Listed(Push(fr, w))
<1> DEFINE v == Push(fr, w)
           n == Len(w)
<1>1. /\ n \in Nat /\ DOMAIN w = 1 .. n /\ Listed(v) /\ Len(v) = n + 1 /\ v[1] = fr
      /\ \A i \in 1 .. n : v[i + 1] = w[i]
  BY ListedPush, ListedIs DEF Push
<1>2. DOMAIN v = 1 .. n + 1
  BY <1>1, ListedIs
<1> HIDE DEF v, n
<1>3. \A i \in 1 .. n + 1 : i = 1 \/ (i - 1 \in 1 .. n /\ v[i] = w[i - 1])
  <2>1. SUFFICES ASSUME NEW i \in 1 .. n + 1, i # 1 PROVE i - 1 \in 1 .. n /\ v[i] = w[i - 1]
    OBVIOUS
  <2>2. i - 1 \in 1 .. n /\ (i - 1) + 1 = i
    BY <1>1, <2>1
  <2> QED BY <1>1, <2>2
<1>4. 1 \in 1 .. n + 1 /\ \A i \in 1 .. n : i + 1 \in 1 .. n + 1
  BY <1>1
<1>5. ASSUME NEW x \in Elements(v) PROVE x \in {fr} \cup Elements(w)
  <2>1. PICK i \in 1 .. n + 1 : x = v[i]
    BY <1>2 DEF Elements
  <2> QED BY <1>1, <1>3, <2>1 DEF Elements
<1>6. fr \in Elements(v)
  BY <1>1, <1>2, <1>4 DEF Elements
<1>7. ASSUME NEW x \in Elements(w) PROVE x \in Elements(v)
  <2>1. PICK i \in 1 .. n : x = w[i]
    BY <1>1 DEF Elements
  <2>2. x = v[i + 1] /\ i + 1 \in DOMAIN v
    BY <1>1, <1>2, <1>4, <2>1
  <2> QED BY <2>2 DEF Elements
<1> QED BY <1>1, <1>5, <1>6, <1>7 DEF v

LEMMA JointsPush ==
  ASSUME NEW w, Listed(w), NEW fr
  PROVE  Joints(Push(fr, w)) = Joint(fr) \cup Joints(w)
BY ElementsPush DEF Joints

LEMMA MarksOf ==
  ASSUME NEW w, Listed(w)
  PROVE  /\ \A j \in 1 .. Len(w) : Joint(w[j]) \cup DoEnd(w[j]) \subseteq Marks(w)
         /\ \A x \in Marks(w) : \E j \in 1 .. Len(w) : x \in Joint(w[j]) \cup DoEnd(w[j])
<1>1. DOMAIN w = 1 .. Len(w)
  BY ListedIs
<1> QED BY <1>1 DEF Marks, Joints, DoEnds, Elements

\* A frame is put on top.
LEMMA NestPush ==
  ASSUME NEW w, Listed(w), NEW fr, NEW A, NEW bs
  PROVE  Nest(Push(fr, w), A, bs) <=>
           /\ Nest(w, A \cup Open(fr), bs)
           /\ fr.k = "dowhile" => /\ Loop(fr, bs) /\ Holds(fr, A)
                                  /\ \A x \in Marks(w) : x < fr.start
<1> DEFINE v == Push(fr, w)
           n == Len(w)
<1>1. /\ n \in Nat /\ Len(v) = n + 1 /\ v[1] = fr
      /\ \A i \in 1 .. n : v[i + 1] = w[i]
  BY ListedPush, ListedIs DEF Push
<1>3. \A gr, B : Holds(gr, A \cup B) <=> Holds(gr, A) /\ Holds(gr, B)
  BY DEF Holds
<1>4. /\ \A j \in 1 .. n : Joint(w[j]) \cup DoEnd(w[j]) \subseteq Marks(w)
      /\ \A x \in Marks(w) : \E j \in 1 .. n : x \in Joint(w[j]) \cup DoEnd(w[j])
  BY MarksOf
<1> HIDE DEF v, n
<1>5. \A i \in 1 .. n + 1 : i = 1 \/ \E k \in 1 .. n : i = k + 1
  <2>1. SUFFICES ASSUME NEW i \in 1 .. n + 1, i # 1 PROVE \E k \in 1 .. n : i = k + 1
    OBVIOUS
  <2>2. i - 1 \in 1 .. n /\ i = (i - 1) + 1
    BY <1>1, <2>1
  <2> QED BY <2>2
<1>6. /\ 1 \in 1 .. n + 1
      /\ \A i \in 1 .. n : i + 1 \in 1 .. n + 1 /\ 1 < i + 1 /\ ~(i + 1 < 1) /\ i \in Nat
      /\ \A i, j \in 1 .. n : i + 1 < j + 1 <=> i < j
      /\ ~(1 < 1)
  BY <1>1
<1>7. ASSUME Nest(v, A, bs)
      PROVE  /\ Nest(w, A \cup Open(fr), bs)
             /\ fr.k = "dowhile" => Loop(fr, bs) /\ Holds(fr, A) /\ \A x \in Marks(w) : x < fr.start
  <2>1. ASSUME NEW i \in 1 .. n, w[i].k = "dowhile"
        PROVE  /\ Loop(w[i], bs) /\ Holds(w[i], A \cup Open(fr))
               /\ \A j \in 1 .. n : j < i => Holds(w[i], Open(w[j]))
               /\ \A j \in 1 .. n : i < j => \A x \in Joint(w[j]) \cup DoEnd(w[j]) : x < w[i].start
    <3>1. /\ Loop(v[i + 1], bs) /\ Holds(v[i + 1], A)
          /\ \A j \in 1 .. n + 1 : j < i + 1 => Holds(v[i + 1], Open(v[j]))
          /\ \A j \in 1 .. n + 1 : i + 1 < j =>
               \A x \in Joint(v[j]) \cup DoEnd(v[j]) : x < v[i + 1].start
      BY <1>1, <1>6, <1>7, <2>1 DEF Nest
    <3>2. Holds(w[i], Open(fr))
      BY <1>1, <1>6, <3>1
    <3>3. ASSUME NEW j \in 1 .. n, j < i PROVE Holds(w[i], Open(w[j]))
      BY <1>1, <1>6, <3>1, <3>3
    <3>4. ASSUME NEW j \in 1 .. n, i < j
          PROVE  \A x \in Joint(w[j]) \cup DoEnd(w[j]) : x < w[i].start
      <4>1. j + 1 \in 1 .. n + 1 /\ i + 1 < j + 1 /\ v[j + 1] = w[j] /\ v[i + 1] = w[i]
        BY <1>1, <1>6, <3>4
      <4> QED BY <3>1, <4>1
    <3>5. Loop(w[i], bs) /\ Holds(w[i], A)
      BY <1>1, <3>1
    <3> QED BY <1>3, <3>2, <3>3, <3>4, <3>5
  <2>2. ASSUME fr.k = "dowhile"
        PROVE  Loop(fr, bs) /\ Holds(fr, A) /\ \A x \in Marks(w) : x < fr.start
    <3>1. /\ Loop(v[1], bs) /\ Holds(v[1], A)
          /\ \A j \in 1 .. n + 1 : 1 < j => \A x \in Joint(v[j]) \cup DoEnd(v[j]) : x < v[1].start
      BY <1>1, <1>6, <1>7, <2>2 DEF Nest
    <3>2. ASSUME NEW x \in Marks(w) PROVE x < fr.start
      <4>1. PICK j \in 1 .. n : x \in Joint(w[j]) \cup DoEnd(w[j])
        BY <1>4
      <4>2. j + 1 \in 1 .. n + 1 /\ 1 < j + 1 /\ v[j + 1] = w[j] /\ v[1] = fr
        BY <1>1, <1>6
      <4> QED BY <3>1, <4>1, <4>2
    <3> QED BY <1>1, <3>1, <3>2
  <2> QED BY <2>1, <2>2 DEF Nest, n
<1>8. ASSUME Nest(w, A \cup Open(fr), bs),
             fr.k = "dowhile" => Loop(fr, bs) /\ Holds(fr, A) /\ \A x \in Marks(w) : x < fr.start
      PROVE  Nest(v, A, bs)
  <2>1. SUFFICES ASSUME NEW i \in 1 .. n + 1, v[i].k = "dowhile"
                 PROVE  /\ Loop(v[i], bs) /\ Holds(v[i], A)
                        /\ \A j \in 1 .. n + 1 : j < i => Holds(v[i], Open(v[j]))
                        /\ \A j \in 1 .. n + 1 : i < j =>
                             \A x \in Joint(v[j]) \cup DoEnd(v[j]) : x < v[i].start
    BY <1>1 DEF Nest
  <2>2. CASE i = 1
    <3>1. Loop(v[i], bs) /\ Holds(v[i], A)
      BY <1>1, <1>8, <2>1, <2>2
    <3>2. \A j \in 1 .. n + 1 : ~(j < i)
      BY <1>1, <2>2
    <3>3. ASSUME NEW j \in 1 .. n + 1, i < j
          PROVE  \A x \in Joint(v[j]) \cup DoEnd(v[j]) : x < v[i].start
      <4>1. PICK k \in 1 .. n : j = k + 1
        BY <1>5, <1>6, <2>2, <3>3
      <4>2. v[j] = w[k] /\ Joint(w[k]) \cup DoEnd(w[k]) \subseteq Marks(w)
        BY <1>1, <1>4, <4>1
      <4> QED BY <1>1, <1>8, <2>1, <2>2, <4>2
    <3> QED BY <3>1, <3>2, <3>3
  <2>3. CASE i # 1
    <3>1. PICK k \in 1 .. n : i = k + 1
      BY <1>5, <2>3
    <3>2. v[i] = w[k] /\ w[k].k = "dowhile"
      BY <1>1, <2>1, <3>1
    <3>3. /\ Loop(w[k], bs) /\ Holds(w[k], A \cup Open(fr))
          /\ \A j \in 1 .. n : j < k => Holds(w[k], Open(w[j]))
          /\ \A j \in 1 .. n : k < j => \A x \in Joint(w[j]) \cup DoEnd(w[j]) : x < w[k].start
      BY <1>8, <3>2 DEF Nest, n
    <3>4. ASSUME NEW j \in 1 .. n + 1, j < i PROVE Holds(v[i], Open(v[j]))
      <4>1. CASE j = 1
        BY <1>1, <1>3, <3>2, <3>3, <4>1
      <4>2. CASE j # 1
        <5>1. PICK l \in 1 .. n : j = l + 1
          BY <1>5, <4>2
        <5>2. l < k /\ v[j] = w[l]
          BY <1>1, <1>6, <3>1, <3>4, <5>1
        <5> QED BY <3>2, <3>3, <5>2
      <4> QED BY <4>1, <4>2
    <3>5. ASSUME NEW j \in 1 .. n + 1, i < j
          PROVE  \A x \in Joint(v[j]) \cup DoEnd(v[j]) : x < v[i].start
      <4>1. j # 1
        BY <1>6, <3>1, <3>5
      <4>2. PICK l \in 1 .. n : j = l + 1
        BY <1>5, <4>1
      <4>3. k < l /\ v[j] = w[l]
        BY <1>1, <1>6, <3>1, <3>5, <4>2
      <4> QED BY <3>2, <3>3, <4>3
    <3> QED BY <1>3, <3>2, <3>3, <3>4, <3>5
  <2> QED BY <2>2, <2>3
<1> QED BY <1>7, <1>8 DEF v

LEMMA NestNone ==
  ASSUME NEW A, NEW bs
  PROVE  Nest(<<>>, A, bs) /\ Joints(<<>>) = {} /\ Marks(<<>>) = {}
<1>1. \A i \in 1 .. Len(<<>>) : FALSE
  OBVIOUS
<1>2. Elements(<<>>) = {}
  BY ListedEmpty
<1> QED BY <1>1, <1>2, DoEndsNone DEF Nest, Joints, Marks

\* What was in the body, and what is new, is in the body.
LEMMA NestFor ==
  ASSUME NEW w, NEW A, NEW bs, Made(bs), Nest(w, A, bs),
         NEW B, \A x \in B : x \in A \/ IsNew(bs, x)
  PROVE  Nest(w, B, bs)
<1>1. ASSUME NEW fr, Loop(fr, bs), Holds(fr, A) PROVE Holds(fr, B)
  <2>1. SUFFICES ASSUME NEW x, IsNew(bs, x) PROVE ~Outside(fr, x)
    BY <1>1 DEF Holds
  <2>2. fr.start \in Nat /\ fr.start < fr.end /\ fr.end \in Int /\ fr.end < Len(bs) /\ Len(bs) \in Nat
    BY <1>1, MadeIs DEF Loop
  <2> QED BY <2>1, <2>2 DEF Outside, IsNew
<1> QED BY <1>1 DEF Nest

\* A block in the body gets a flow, and there are new blocks.
LEMMA NestStill ==
  ASSUME NEW bs, NEW us, NEW c, NEW code, NEW o, NEW n, FlowGiven(bs, us, c, code, o, n),
         NEW w, NEW A, Nest(w, A, bs), c \in A
  PROVE  Nest(w, A, us)
<1>1. ASSUME NEW fr, Loop(fr, bs), Holds(fr, A) PROVE Loop(fr, us)
  <2>1. SUFFICES ASSUME NEW x \in IdsOf(us), Outside(fr, x), NEW y \in To(us, x)
                 PROVE  y = fr.start \/ Outside(fr, y)
    BY <1>1, GrownIs DEF Loop
  <2>2. x # c
    BY <1>1, <2>1 DEF Holds
  <2>3. x \in IdsOf(bs)
    BY <2>1, GrownIs
  <2> QED BY <1>1, <2>1, <2>2, <2>3, GrownIs DEF Loop
<1> QED BY <1>1 DEF Nest

-----------------------------------------------------------------------------
\* While the generator runs.  J are the blocks that are jumped to later on, E
\* those that are led to for the first time then.

Linked(J, E, bs) ==
  /\ Sealed(bs, J \cup E)
  /\ \A x \in J : Free(bs, x)
  /\ \A x \in E : Unlinked(bs, x)
  /\ J \cap E = {} /\ J \cup E \subseteq IdsOf(bs) /\ 0 \notin E

Tidy(w, bs, c) == Linked(Joints(w), DoEnds(w), bs) /\ Nest(w, {c} \ {Nil}, bs)

\* Of a flow: its blocks are new, or led to later on no more.
Leading(bs, us, c, o, J, E, J2, E2) ==
  /\ \A x \in TargetsOf(o) : x \notin E2 /\ (IsNew(bs, x) \/ x \in J \cup E)
  /\ o.t = "branch" =>
       /\ TargetsOf(o) \cap J2 = {} /\ o.true # o.false
       /\ IsNew(bs, o.false) \/ o.false \in E
       /\ IsNew(bs, o.true) \/ o.true \in E \/ Gated(us, c, o.true, J2 \cup E2)

\* The blocks that wait, and those that waited before.
Waiting(bs, us, S, S2) == \A x \in S2 : x \in S \/ (IsNew(bs, x) /\ x \in IdsOf(us))

LEMMA LinksStill ==
  ASSUME NEW bs, NEW us, NEW c, NEW code, NEW o, NEW n, FlowGiven(bs, us, c, code, o, n),
         0 \in IdsOf(bs), NEW J, NEW E, Linked(J, E, bs), NEW J2, NEW E2,
         Waiting(bs, us, J, J2), Waiting(bs, us, E, E2), J2 \cap E2 = {},
         Leading(bs, us, c, o, J, E, J2, E2)
  PROVE  Linked(J2, E2, us)
<1>1. \A x : IsNew(bs, x) => Unlinked(bs, x) /\ Free(bs, x) /\ x # 0
  BY NewUnlinked DEF FlowGiven
<1>2. \A x \in E : Unlinked(bs, x) /\ Free(bs, x) /\ x # 0
  BY DEF Linked, Unlinked, Free
<1>3. ASSUME NEW x \in J2 PROVE Free(us, x) /\ x \in IdsOf(us)
  <2>1. Free(bs, x) /\ x \in IdsOf(us)
    BY <1>1, <1>3, GrownIs DEF Waiting, Linked
  <2>2. o.t = "branch" => x \notin TargetsOf(o)
    BY <1>3 DEF Leading
  <2> QED BY <2>1, <2>2, FreeStill
<1>4. ASSUME NEW x \in E2 PROVE Unlinked(us, x) /\ x \in IdsOf(us) /\ x # 0
  <2>1. Unlinked(bs, x) /\ x \in IdsOf(us) /\ x # 0
    BY <1>1, <1>2, <1>4, GrownIs DEF Waiting, Linked
  <2>2. x \notin TargetsOf(o)
    BY <1>4 DEF Leading
  <2> QED BY <2>1, <2>2, UnlinkedStill
<1>5. \A x \in J2 \cup E2 : x \in J \cup E \/ IsNew(bs, x)
  BY DEF Waiting
<1>6. \A x \in TargetsOf(o) : IsNew(bs, x) \/ (x \in J \cup E /\ Free(bs, x))
  BY <1>2 DEF Leading, Linked
<1>7. ASSUME o.t = "branch" PROVE Splits(us, c, J2 \cup E2)
  <2>1. us[c + 1].out = o
    BY GrownIs
  <2>2. \A x : IsNew(bs, x) \/ x \in E => Lone(us, c, x)
    BY <1>1, <1>2, LoneNow
  <2> QED BY <1>7, <2>1, <2>2 DEF Splits, Leading
<1>8. Sealed(us, J2 \cup E2)
  BY <1>5, <1>6, <1>7, SealedStill DEF Linked
<1> QED BY <1>3, <1>4, <1>8 DEF Linked

\* Fewer blocks wait.
LEMMA LinkedLess ==
  ASSUME NEW bs, NEW J, NEW E, Linked(J, E, bs), NEW J2, J2 \subseteq J, NEW E2, E2 \subseteq E
  PROVE  Linked(J2, E2, bs)
<1>1. \A b, t : Gated(bs, b, t, J \cup E) => Gated(bs, b, t, J2 \cup E2)
  BY DEF Gated
<1>2. Sealed(bs, J2 \cup E2)
  BY <1>1 DEF Linked, Sealed, Splits
<1> QED BY <1>2 DEF Linked

LEMMA NestOn ==
  ASSUME NEW bs, NEW us, NEW c, NEW code, NEW o, NEW n, FlowGiven(bs, us, c, code, o, n),
         NEW w, NEW A, Nest(w, A, bs), c \in A, NEW B, \A x \in B : x \in A \/ IsNew(bs, x)
  PROVE  Nest(w, B, us)
<1>1. Nest(w, A \cup B, bs)
  BY NestFor DEF FlowGiven
<1>2. Nest(w, A \cup B, us) /\ Made(us)
  BY <1>1, NestStill, GrownIs
<1> QED BY <1>2, NestFor

\* The frame on top.
LEMMA TopNest ==
  ASSUME Listed(work), work # <<>>
  PROVE  /\ work = Push(Top, Rest) /\ Listed(Rest)
         /\ Joints(work) = Joint(Top) \cup Joints(Rest)
         /\ DoEnds(work) = DoEnd(Top) \cup DoEnds(Rest)
         /\ \A A, bs : Nest(work, A, bs) <=>
              /\ Nest(Rest, A \cup Open(Top), bs)
              /\ Top.k = "dowhile" => /\ Loop(Top, bs) /\ Holds(Top, A)
                                      /\ \A x \in Marks(Rest) : x < Top.start
<1>1. work = Push(Top, Rest) /\ Listed(Rest)
  BY ListedTail DEF Push, Top, Rest
<1> QED BY <1>1, JointsPush, DoEndsPush, NestPush

\* Statements have nothing to come to.
LEMMA PlainNest ==
  ASSUME NEW w, Listed(w), NEW s, NEW u, u = Push(Statements(s), w)
  PROVE  /\ Listed(u) /\ Joints(u) = Joints(w) /\ DoEnds(u) = DoEnds(w)
         /\ \A A, bs : Nest(u, A, bs) <=> Nest(w, A, bs)
<1> DEFINE st == Statements(s)
<1>1. Joint(st) = {} /\ DoEnd(st) = {} /\ Open(st) = {} /\ st.k # "dowhile"
  BY DEF Joint, DoEnd, Open, Statements
<1> HIDE DEF st
<1>2. Listed(u) /\ Joints(u) = Joints(w) /\ DoEnds(u) = DoEnds(w)
  <2>1. u = Push(st, w)
    BY DEF st
  <2>2. Listed(Push(st, w)) /\ Joints(Push(st, w)) = Joint(st) \cup Joints(w)
        /\ DoEnds(Push(st, w)) = DoEnd(st) \cup DoEnds(w)
    BY ElementsPush, JointsPush, DoEndsPush
  <2> QED BY <1>1, <2>1, <2>2
<1>3. ASSUME NEW A, NEW bs PROVE Nest(u, A, bs) <=> Nest(w, A, bs)
  <2>1. u = Push(st, w) /\ A \cup Open(st) = A
    BY <1>1 DEF st
  <2>2. Nest(Push(st, w), A, bs) <=> Nest(w, A \cup Open(st), bs)
    BY <1>1, NestPush
  <2> QED BY <2>1, <2>2
<1> QED BY <1>2, <1>3

\* A frame, and the statements above it.
LEMMA TwoNest ==
  ASSUME NEW w, Listed(w), NEW s, NEW fr, NEW v, v = Push(Statements(s), Push(fr, w))
  PROVE  /\ Joints(v) = Joint(fr) \cup Joints(w)
         /\ DoEnds(v) = DoEnd(fr) \cup DoEnds(w)
         /\ \A A, bs : Nest(v, A, bs) <=>
              /\ Nest(w, A \cup Open(fr), bs)
              /\ fr.k = "dowhile" => /\ Loop(fr, bs) /\ Holds(fr, A)
                                     /\ \A x \in Marks(w) : x < fr.start
<1> DEFINE u == Push(fr, w)
<1>1. v = Push(Statements(s), u) /\ Listed(u)
  BY ElementsPush
<1> HIDE DEF u
<1>2. /\ Joints(v) = Joints(u) /\ DoEnds(v) = DoEnds(u)
      /\ \A A, bs : Nest(v, A, bs) <=> Nest(u, A, bs)
  BY <1>1, PlainNest
<1> QED BY <1>2, JointsPush, DoEndsPush, NestPush DEF u

\* At a list of statements.
LEMMA LaterNest ==
  ASSUME Listed(work), work # <<>>, Top.k = "statements"
  PROVE  /\ Listed(Later) /\ Listed(Rest)
         /\ Joints(Later) = Joints(work) /\ Joints(Rest) = Joints(work)
         /\ DoEnds(Later) = DoEnds(work) /\ DoEnds(Rest) = DoEnds(work)
         /\ \A A, bs : /\ Nest(Later, A, bs) <=> Nest(work, A, bs)
                       /\ Nest(Rest, A, bs) <=> Nest(work, A, bs)
<1>1. Joint(Top) = {} /\ DoEnd(Top) = {} /\ Open(Top) = {} /\ Top.k # "dowhile"
  BY DEF Joint, DoEnd, Open
<1>2. /\ Listed(Rest) /\ Joints(Rest) = Joints(work) /\ DoEnds(Rest) = DoEnds(work)
  BY <1>1, TopNest
<1>3. ASSUME NEW A, NEW bs PROVE Nest(Rest, A, bs) <=> Nest(work, A, bs)
  <2>1. A \cup Open(Top) = A
    BY <1>1
  <2>2. Nest(work, A, bs) <=> Nest(Rest, A \cup Open(Top), bs)
    BY <1>1, TopNest
  <2> QED BY <2>1, <2>2
<1>4. Later = Push(Statements(Tail(Top.s)), Rest)
  BY DEF Later, Push
<1>5. /\ Listed(Later) /\ Joints(Later) = Joints(Rest) /\ DoEnds(Later) = DoEnds(Rest)
      /\ \A A, bs : Nest(Later, A, bs) <=> Nest(Rest, A, bs)
  BY <1>2, <1>4, PlainNest
<1> QED BY <1>2, <1>3, <1>5

-----------------------------------------------------------------------------
\* The steps of the generator.

Firm == Footing /\ Inner(blocks) /\ 0 \in IdsOf(blocks)

LEMMA GenFirm ==
  ASSUME NEW M, NEW ks, Gen(M, ks, work, blocks, curr)
  PROVE  Firm
<1>1. ASSUME NEW b \in IdsOf(blocks) PROVE To(blocks, b) \subseteq IdsOf(blocks)
  <2> DEFINE o == blocks[b + 1].out
  <2>1. Flows(M, M[<<b, Len(blocks[b + 1].code) + 1>>], o, IdsOf(blocks))
    BY DEF Gen, Means
  <2>2. TargetsOf(NoFlow) = {}
    BY DEF TargetsOf, NoFlow, Flow
  <2> HIDE DEF o
  <2>3. TargetsOf(o) \subseteq IdsOf(blocks)
    BY <2>1, <2>2 DEF Flows, TargetsOf
  <2> QED BY <2>3 DEF To, o
<1> QED BY <1>1, GenFooting DEF Firm, Inner, Gen

LEMMA FlowIs ==
  ASSUME NEW e, NEW x, NEW y
  PROVE  /\ JmpTo(x).t = "jmp" /\ TargetsOf(JmpTo(x)) = {x}
         /\ Branch(e, x, y).t = "branch" /\ TargetsOf(Branch(e, x, y)) = {x, y}
         /\ Branch(e, x, y).true = x /\ Branch(e, x, y).false = y
         /\ NoFlow.t # "branch" /\ TargetsOf(NoFlow) = {}
         /\ ReturnOf(e).t # "branch" /\ TargetsOf(ReturnOf(e)) = {}
         /\ ExitOf(e).t # "branch" /\ TargetsOf(ExitOf(e)) = {}
BY DEF TargetsOf, JmpTo, Branch, NoFlow, ExitOf, ReturnOf, Flow

\* What can be done to CurrBlock.
LEMMA CurrGrows ==
  ASSUME Firm, Continues
  PROVE  LET code == blocks[curr + 1].code
         IN /\ curr # Nil /\ curr \in {curr} \ {Nil} /\ N \in Nat
            /\ \A x : FlowGiven(blocks, SetOut(blocks, curr, JmpTo(x)), curr, code, JmpTo(x), 0)
            /\ \A n \in Nat : \A x : FlowGiven(blocks, WithNew(SetOut(blocks, curr, JmpTo(x)), n),
                                            curr, code, JmpTo(x), n)
            /\ \A e : FlowGiven(blocks, GenExpr(blocks, curr, e), curr, Coded(code, e), NoFlow, 0)
            /\ \A e, o : FlowGiven(blocks, SetOut(GenExpr(blocks, curr, e), curr, o), curr,
                                Coded(code, e), o, 0)
            /\ \A e, o : FlowGiven(blocks, WithNew(SetOut(GenExpr(blocks, curr, e), curr, o), 2), curr,
                                Coded(code, e), o, 2)
<1> DEFINE code == blocks[curr + 1].code
<1>1. /\ curr # Nil /\ curr \in IdsOf(blocks) /\ blocks[curr + 1].out = NoFlow
      /\ Made(blocks) /\ N \in Nat /\ Inner(blocks)
  BY DEF Continues, HasFlow, Out, Firm, Footing, Steady
<1>2. Listed(code) /\ \A e : Listed(Coded(code, e))
  BY <1>1, MadeIs, ListedAppend DEF Coded
<1>3. \A x : Alters(blocks, SetOut(blocks, curr, JmpTo(x)), curr, code, JmpTo(x), 0)
  BY <1>1, SetOutAlters
<1>4. \A n \in Nat : \A x : Alters(blocks, WithNew(SetOut(blocks, curr, JmpTo(x)), n), curr, code,
                                   JmpTo(x), n)
  BY <1>1, NewBlocks
<1>5. \A e : Alters(blocks, GenExpr(blocks, curr, e), curr, Coded(code, e), NoFlow, 0)
  BY <1>1, GenExprAlters DEF Coded
<1>6. \A e, o : Alters(blocks, SetOut(GenExpr(blocks, curr, e), curr, o), curr, Coded(code, e), o, 0)
  BY <1>1, LastFlow
<1>7. \A e, o : Alters(blocks, WithNew(SetOut(GenExpr(blocks, curr, e), curr, o), 2), curr,
                       Coded(code, e), o, 2)
  BY <1>1, <1>6, ThenNew
<1> HIDE DEF code
<1> QED BY <1>1, <1>2, <1>3, <1>4, <1>5, <1>6, <1>7 DEF FlowGiven, code

LEMMA NewHere ==
  ASSUME Made(blocks), NEW us, NEW c, NEW code, NEW o, NEW n, FlowGiven(blocks, us, c, code, o, n),
         NEW i \in Nat, i < n
  PROVE  IsNew(blocks, N + i) /\ N + i \in IdsOf(us) /\ N + i # Nil
<1>1. Len(us) = Len(blocks) + n /\ Len(blocks) \in Nat /\ n \in Nat
  BY MadeIs DEF FlowGiven, Alters
<1> QED BY <1>1 DEF IsNew, N, IdsOf, Nil

Tidied == Tidy(work', blocks', curr')

\* CurrBlock gets a flow, and what is below has as much to come to as before.
LEMMA TidyOn ==
  ASSUME Firm, Continues, Tidy(work, blocks, curr),
         NEW us, NEW code, NEW o, NEW n, FlowGiven(blocks, us, curr, code, o, n),
         NEW v, NEW w, NEW c, NEW A, NEW B,
         Nest(w, A, blocks), curr \in A, \A x \in B : x \in A \/ IsNew(blocks, x),
         Nest(w, B, us) => Nest(v, {c} \ {Nil}, us),
         Waiting(blocks, us, Joints(work), Joints(v)), Waiting(blocks, us, DoEnds(work), DoEnds(v)),
         Joints(v) \cap DoEnds(v) = {},
         Leading(blocks, us, curr, o, Joints(work), DoEnds(work), Joints(v), DoEnds(v))
  PROVE  Tidy(v, us, c)
<1>1. Linked(Joints(v), DoEnds(v), us)
  BY LinksStill DEF Tidy, Firm
<1>2. Nest(w, B, us)
  BY NestOn
<1> QED BY <1>1, <1>2 DEF Tidy

LEMMA StatementTidy ==
  ASSUME Firm, Tidy(work, blocks, curr), GenBlockEnd \/ GenStatement \/ GenReturn \/ GenExit
  PROVE  Tidied
<1> DEFINE A == {curr} \ {Nil}
<1>1. work # <<>> /\ Top.k = "statements" /\ Listed(work)
  BY AtStatementIs DEF GenStatement, GenReturn, GenExit, GenBlockEnd, AtFrame, Firm, Footing
<1>2. /\ Joints(Later) = Joints(work) /\ Joints(Rest) = Joints(work)
      /\ DoEnds(Later) = DoEnds(work) /\ DoEnds(Rest) = DoEnds(work)
      /\ \A B, bs : /\ Nest(Later, B, bs) <=> Nest(work, B, bs)
                    /\ Nest(Rest, B, bs) <=> Nest(work, B, bs)
  BY <1>1, LaterNest
<1>3. work' \in {Later, Rest} /\ curr' = curr
  BY DEF GenBlockEnd, GenStatement, GenReturn, GenExit, Go
<1>4. /\ Joints(work') = Joints(work) /\ DoEnds(work') = DoEnds(work)
      /\ \A B, bs : Nest(work', B, bs) <=> Nest(work, B, bs)
  BY <1>2, <1>3
<1>5. CASE blocks' = blocks
  BY <1>3, <1>4, <1>5 DEF Tidy, Tidied
<1>6. ASSUME NEW code, NEW o, FlowGiven(blocks, blocks', curr, code, o, 0), Continues,
             o.t # "branch", TargetsOf(o) = {}
      PROVE  Tidied
  <2>1. curr \in A
    BY <1>6, CurrGrows
  <2>2. Leading(blocks, blocks', curr, o, Joints(work), DoEnds(work), Joints(work'), DoEnds(work'))
    BY <1>6 DEF Leading
  <2>3. /\ Waiting(blocks, blocks', Joints(work), Joints(work'))
        /\ Waiting(blocks, blocks', DoEnds(work), DoEnds(work'))
        /\ Joints(work') \cap DoEnds(work') = {}
    BY <1>4 DEF Waiting, Tidy, Linked
  <2>4. Nest(work', A, blocks)
    BY <1>4 DEF Tidy
  <2> HIDE DEF A
  <2>5. Nest(work', A, blocks') => Nest(work', {curr'} \ {Nil}, blocks')
    BY <1>3 DEF A
  <2>6. Tidy(work', blocks', curr')
    BY <1>6, <2>1, <2>2, <2>3, <2>4, <2>5, TidyOn
  <2> QED BY <2>6 DEF Tidied
<1>7. CASE blocks' # blocks
  <2>1. curr # Nil
    BY <1>7, AtStatementIs DEF GenBlockEnd, GenStatement, GenReturn, GenExit, Go
  <2>2. Continues
    BY <1>1, <2>1, Here DEF Firm
  <2>3. \E e, o : /\ FlowGiven(blocks, blocks', curr, Coded(blocks[curr + 1].code, e), o, 0)
                  /\ o.t # "branch" /\ TargetsOf(o) = {}
    <3>1. \/ \E e : blocks' = GenExpr(blocks, curr, e)
          \/ \E e : blocks' = SetOut(GenExpr(blocks, curr, e), curr, ReturnOf(e))
          \/ \E e : blocks' = SetOut(GenExpr(blocks, curr, e), curr, ExitOf(e))
      BY <1>7 DEF GenBlockEnd, GenStatement, GenReturn, GenExit, Go
    <3> DEFINE code == blocks[curr + 1].code
    <3>2. /\ \A e : FlowGiven(blocks, GenExpr(blocks, curr, e), curr, Coded(code, e), NoFlow, 0)
          /\ \A e, o : FlowGiven(blocks, SetOut(GenExpr(blocks, curr, e), curr, o), curr,
                                Coded(code, e), o, 0)
      BY <2>2, CurrGrows
    <3> HIDE DEF code
    <3>3. CASE \E e : blocks' = GenExpr(blocks, curr, e)
      <4>1. PICK e : blocks' = GenExpr(blocks, curr, e)
        BY <3>3
      <4>2. NoFlow.t # "branch" /\ TargetsOf(NoFlow) = {}
        BY FlowIs
      <4>3. FlowGiven(blocks, blocks', curr, Coded(code, e), NoFlow, 0)
        BY <3>2, <4>1
      <4> QED BY <4>2, <4>3 DEF code
    <3>4. CASE \E e : blocks' = SetOut(GenExpr(blocks, curr, e), curr, ReturnOf(e))
      <4>1. PICK e : blocks' = SetOut(GenExpr(blocks, curr, e), curr, ReturnOf(e))
        BY <3>4
      <4>2. ReturnOf(e).t # "branch" /\ TargetsOf(ReturnOf(e)) = {}
        BY FlowIs
      <4>3. FlowGiven(blocks, blocks', curr, Coded(code, e), ReturnOf(e), 0)
        BY <3>2, <4>1
      <4> QED BY <4>2, <4>3 DEF code
    <3>5. CASE \E e : blocks' = SetOut(GenExpr(blocks, curr, e), curr, ExitOf(e))
      <4>1. PICK e : blocks' = SetOut(GenExpr(blocks, curr, e), curr, ExitOf(e))
        BY <3>5
      <4>2. ExitOf(e).t # "branch" /\ TargetsOf(ExitOf(e)) = {}
        BY FlowIs
      <4>3. FlowGiven(blocks, blocks', curr, Coded(code, e), ExitOf(e), 0)
        BY <3>2, <4>1
      <4> QED BY <4>2, <4>3 DEF code
    <3> QED BY <3>1, <3>3, <3>4, <3>5
  <2> QED BY <1>6, <2>2, <2>3
<1> QED BY <1>5, <1>7

\* What was not in the body of a do-while is not when a frame above it ends.
Stay == ({curr} \ {Nil}) \cup Open(Top)

LEMMA StayNest ==
  ASSUME Listed(work), work # <<>>, Tidy(work, blocks, curr)
  PROVE  Nest(Rest, Stay, blocks)
BY TopNest DEF Tidy, Stay

\* The frames above Rest are replaced when CurrBlock gets a flow.
LEMMA TopTidy ==
  ASSUME Firm, Continues, Tidy(work, blocks, curr), work # <<>>,
         NEW us, NEW code, NEW o, NEW n, FlowGiven(blocks, us, curr, code, o, n),
         NEW v, NEW c, NEW B, \A x \in B : x \in Stay \/ IsNew(blocks, x),
         Nest(Rest, B, us) => Nest(v, {c} \ {Nil}, us),
         Waiting(blocks, us, Joints(work), Joints(v)), DoEnds(v) = DoEnds(work),
         \A x \in TargetsOf(o) : IsNew(blocks, x) \/ x \in Joints(work),
         o.t = "branch" => /\ o.true # o.false /\ TargetsOf(o) \cap Joints(v) = {}
                           /\ TargetsOf(o) = {o.true, o.false}
                           /\ \A x \in TargetsOf(o) : IsNew(blocks, x)
  PROVE  Tidy(v, us, c)
<1> DEFINE J == Joints(work)
           E == DoEnds(work)
           J2 == Joints(v)
           A == Stay
<1>1. Nest(Rest, A, blocks) /\ curr \in A
  <2>1. Listed(work) /\ curr \in {curr} \ {Nil}
    BY CurrGrows DEF Firm, Footing
  <2> QED BY <2>1, StayNest DEF Stay
<1>2. J \cap E = {} /\ \A x \in E : ~IsNew(blocks, x)
  <2>1. J \cap E = {} /\ E \subseteq IdsOf(blocks)
    BY DEF Tidy, Linked
  <2> HIDE DEF J, E
  <2> QED BY <2>1, GrownIs
<1>3. J2 \cap E = {} /\ \A x \in TargetsOf(o) : x \notin E
  BY <1>2 DEF Waiting
<1>4. Leading(blocks, us, curr, o, J, E, J2, E)
  <2> HIDE DEF J, E, J2
  <2>1. \A x \in TargetsOf(o) : IsNew(blocks, x) \/ x \in J
    BY DEF J
  <2>2. o.t = "branch" => /\ o.true # o.false /\ TargetsOf(o) \cap J2 = {}
                          /\ IsNew(blocks, o.false) /\ IsNew(blocks, o.true)
    BY DEF J2
  <2> QED BY <1>3, <2>1, <2>2 DEF Leading
<1>5. Waiting(blocks, us, E, E) /\ Waiting(blocks, us, J, J2)
  BY DEF Waiting
<1>6. E = DoEnds(v) /\ \A x \in B : x \in A \/ IsNew(blocks, x)
  OBVIOUS
<1> HIDE DEF A
<1>7. Leading(blocks, us, curr, o, Joints(work), DoEnds(work), Joints(v), DoEnds(v))
  BY <1>4
<1>8. Waiting(blocks, us, DoEnds(work), DoEnds(v)) /\ Joints(v) \cap DoEnds(v) = {}
  BY <1>3, <1>5
<1> HIDE DEF J, E, J2
<1> QED BY <1>1, <1>6, <1>7, <1>8, TidyOn

\* Or when no block is.
LEMMA TopStill ==
  ASSUME Firm, Tidy(work, blocks, curr), work # <<>>,
         NEW v, NEW c, NEW B, B \subseteq Stay, Nest(Rest, B, blocks) => Nest(v, {c} \ {Nil}, blocks),
         Joints(v) \subseteq Joints(work), DoEnds(v) \subseteq DoEnds(work)
  PROVE  Tidy(v, blocks, c)
<1>1. Nest(Rest, Stay, blocks) /\ Made(blocks)
  BY StayNest DEF Firm, Footing, Steady
<1>2. Nest(Rest, B, blocks)
  BY <1>1, NestFor
<1>3. Linked(Joints(v), DoEnds(v), blocks)
  BY LinkedLess DEF Tidy
<1> QED BY <1>2, <1>3 DEF Tidy

\* A frame above Rest, or one with statements.
LEMMA FrameNest ==
  ASSUME Listed(work), work # <<>>, Top.k # "dowhile", NEW fr, fr.k # "dowhile",
         NEW v, v = Push(fr, Rest) \/ \E s : v = Push(Statements(s), Push(fr, Rest))
  PROVE  /\ Joints(v) = Joint(fr) \cup Joints(Rest) /\ DoEnds(v) = DoEnds(work)
         /\ Joints(work) = Joint(Top) \cup Joints(Rest)
         /\ \A A, bs : Nest(v, A, bs) <=> Nest(Rest, A \cup Open(fr), bs)
<1>1. /\ DoEnd(Top) = {} /\ DoEnd(fr) = {}
      /\ Joints(work) = Joint(Top) \cup Joints(Rest) /\ DoEnds(work) = DoEnds(Rest) /\ Listed(Rest)
  <2>1. DoEnd(Top) = {} /\ DoEnd(fr) = {}
    BY DEF DoEnd
  <2> QED BY <2>1, TopNest
<1>2. CASE v = Push(fr, Rest)
  <2>1. Joints(v) = Joint(fr) \cup Joints(Rest) /\ DoEnds(v) = DoEnd(fr) \cup DoEnds(Rest)
    BY <1>1, <1>2, JointsPush, DoEndsPush
  <2>2. \A A, bs : Nest(v, A, bs) <=> Nest(Rest, A \cup Open(fr), bs)
    BY <1>1, <1>2, NestPush
  <2> QED BY <1>1, <2>1, <2>2
<1>3. CASE \E s : v = Push(Statements(s), Push(fr, Rest))
  <2>1. PICK s : v = Push(Statements(s), Push(fr, Rest))
    BY <1>3
  <2> DEFINE w == Rest
  <2>2. Listed(w) /\ v = Push(Statements(s), Push(fr, w))
    BY <1>1, <2>1
  <2> HIDE DEF w
  <2>3. Joints(v) = Joint(fr) \cup Joints(w) /\ DoEnds(v) = DoEnd(fr) \cup DoEnds(w)
    BY <2>2, TwoNest
  <2>4. \A A, bs : Nest(v, A, bs) <=> Nest(w, A \cup Open(fr), bs)
    BY <2>2, TwoNest
  <2> QED BY <1>1, <2>3, <2>4 DEF w
<1> QED BY <1>2, <1>3

\* What the frame of an if has to come to.
LEMMA IfFrameIs ==
  ASSUME NEW kind \in {"true", "elseif", "chain", "else"}, NEW st, NEW f, NEW b, NEW id,
         NEW fr, fr = IfFrame(kind, st, f, b, id)
  PROVE  /\ fr.k # "dowhile"
         /\ Joint(fr) = IF kind = "true" THEN {} ELSE {b} \ {Nil}
         /\ Open(fr) = (IF kind \in {"true", "elseif"} THEN {f, b} ELSE {b}) \ {Nil}
<1>1. fr.k = kind /\ fr.f = f /\ fr.outbl = b
  BY FrameIs
<1> QED BY <1>1 DEF Joint, Open

\* The branch of an arm is to two new blocks.
LEMMA ArmGrows ==
  ASSUME Firm, Continues, NEW e, NEW us, us = WithNew(SetOut(GenExpr(blocks, curr, e), curr, Branch(e, N, N + 1)), 2)
  PROVE  LET o == Branch(e, N, N + 1)
         IN /\ FlowGiven(blocks, us, curr, Coded(blocks[curr + 1].code, e), o, 2)
            /\ IsNew(blocks, N) /\ IsNew(blocks, N + 1) /\ N # N + 1
            /\ o.t = "branch" /\ o.true = N /\ o.false = N + 1 /\ TargetsOf(o) = {N, N + 1}
<1> DEFINE o == Branch(e, N, N + 1)
<1>1. N \in Nat /\ Made(blocks) /\ FlowGiven(blocks, us, curr, Coded(blocks[curr + 1].code, e), o, 2)
  BY CurrGrows DEF Firm, Footing, Steady
<1>2. o.t = "branch" /\ o.true = N /\ o.false = N + 1 /\ TargetsOf(o) = {N, N + 1}
  BY FlowIs
<1> HIDE DEF o
<1>3. IsNew(blocks, N + 0) /\ IsNew(blocks, N + 1)
  BY <1>1, NewHere
<1>4. N + 0 = N /\ N # N + 1
  BY <1>1
<1> QED BY <1>1, <1>2, <1>3, <1>4 DEF o


LEMMA IfTidy ==
  ASSUME Firm, Tidy(work, blocks, curr), GenIf
  PROVE  Tidied
<1> DEFINE fr == IfFrame("true", St, N + 1, Nil, 0)
           s  == Head(St.arms).body
           us == WithNew(SetOut(GenExpr(blocks, curr, St.e), curr, Branch(St.e, N, N + 1)), 2)
           B  == ({N} \ {Nil}) \cup Open(fr)
<1>1. /\ work # <<>> /\ Top.k = "statements" /\ curr # Nil
      /\ work' = <<Statements(s), fr>> \o Later /\ blocks' = us /\ curr' = N
  BY AtStatementIs DEF GenIf, GenArm, Go
<1>2. Listed(work) /\ Continues
  BY <1>1, Here DEF Firm, Footing
<1>3. /\ Listed(Later) /\ Joints(Later) = Joints(work) /\ DoEnds(Later) = DoEnds(work)
      /\ \A A, bs : Nest(Rest, A, bs) => Nest(Later, A, bs)
  BY <1>1, <1>2, LaterNest
<1>4. fr.k # "dowhile" /\ Joint(fr) = {} /\ Open(fr) = {N + 1, Nil} \ {Nil} /\ DoEnd(fr) = {}
  BY IfFrameIs DEF DoEnd
<1> DEFINE o == Branch(St.e, N, N + 1)
           code == Coded(blocks[curr + 1].code, St.e)
<1>5. /\ FlowGiven(blocks, us, curr, code, o, 2)
      /\ IsNew(blocks, N) /\ IsNew(blocks, N + 1) /\ N # N + 1
      /\ o.t = "branch" /\ o.true = N /\ o.false = N + 1 /\ TargetsOf(o) = {N, N + 1}
  BY <1>2, ArmGrows
<1>6. \A x \in B : IsNew(blocks, x)
  BY <1>4, <1>5
<1> HIDE DEF fr, s, us, o, code
<1>7. work' = Push(Statements(s), Push(fr, Later))
  BY <1>1, <1>3, PushTwo
<1>8. /\ Joints(work') = Joints(work) /\ DoEnds(work') = DoEnds(work)
      /\ \A A, bs : Nest(Later, A \cup Open(fr), bs) => Nest(work', A, bs)
  BY <1>3, <1>4, <1>7, TwoNest
<1>9. Nest(Rest, B, us) => Nest(work', {N} \ {Nil}, us)
  BY <1>3, <1>8
<1>10. Waiting(blocks, us, Joints(work), Joints(work'))
  BY <1>8 DEF Waiting
<1>11. TargetsOf(o) \cap Joints(work') = {}
  BY <1>5, <1>8, GrownIs DEF Tidy, Linked
<1>12. /\ \A x \in TargetsOf(o) : IsNew(blocks, x)
       /\ o.true # o.false /\ TargetsOf(o) = {o.true, o.false}
  BY <1>5
<1> HIDE DEF B
<1>13. Tidy(work', us, N)
  BY <1>1, <1>2, <1>5, <1>6, <1>8, <1>9, <1>10, <1>11, <1>12, TopTidy
<1> QED BY <1>1, <1>13 DEF Tidied

LEMMA ElseIfTidy ==
  ASSUME Firm, Tidy(work, blocks, curr), GenElseIf
  PROVE  Tidied
<1> DEFINE st == If(Tail(Top.st.arms), Top.st.else)
           fr == IfFrame("elseif", st, N + 1, Top.outbl, Top.outblID)
           s  == Head(Tail(Top.st.arms)).body
           us == WithNew(SetOut(GenExpr(blocks, curr, st.e), curr, Branch(st.e, N, N + 1)), 2)
           B  == ({N} \ {Nil}) \cup Open(fr)
<1>1. /\ work # <<>> /\ Top.k = "chain" /\ curr # Nil
      /\ work' = <<Statements(s), fr>> \o Rest /\ blocks' = us /\ curr' = N
  BY DEF GenElseIf, GenArm, Go, AtFrame, Firm, Footing, Steady
<1>2. Listed(work) /\ Continues /\ Listed(Rest)
  BY <1>1, Here, TopNest DEF Firm, Footing
<1>3. /\ fr.k # "dowhile" /\ Joint(fr) = {Top.outbl} \ {Nil} /\ Open(fr) = {N + 1, Top.outbl} \ {Nil}
      /\ Joint(Top) = {Top.outbl} \ {Nil} /\ Open(Top) = {Top.outbl} \ {Nil}
  <2>1. fr.k # "dowhile" /\ Joint(fr) = {Top.outbl} \ {Nil} /\ Open(fr) = {N + 1, Top.outbl} \ {Nil}
    BY IfFrameIs
  <2>2. Joint(Top) = {Top.outbl} \ {Nil} /\ Open(Top) = {Top.outbl} \ {Nil}
    BY <1>1 DEF Joint, Open
  <2> QED BY <2>1, <2>2
<1> DEFINE o == Branch(st.e, N, N + 1)
           code == Coded(blocks[curr + 1].code, st.e)
<1>4. /\ FlowGiven(blocks, us, curr, code, o, 2)
      /\ IsNew(blocks, N) /\ IsNew(blocks, N + 1) /\ N # N + 1
      /\ o.t = "branch" /\ o.true = N /\ o.false = N + 1 /\ TargetsOf(o) = {N, N + 1}
  BY <1>2, ArmGrows
<1>5. \A x \in B : x \in Stay \/ IsNew(blocks, x)
  BY <1>3, <1>4 DEF Stay
<1> HIDE DEF fr, s, us, o, code
<1>6. work' = Push(Statements(s), Push(fr, Rest))
  BY <1>1, <1>2, PushTwo
<1>7. /\ Joints(work') = Joint(fr) \cup Joints(Rest) /\ DoEnds(work') = DoEnds(work)
      /\ Joints(work) = Joint(Top) \cup Joints(Rest)
      /\ \A A, bs : Nest(work', A, bs) <=> Nest(Rest, A \cup Open(fr), bs)
  BY <1>1, <1>2, <1>3, <1>6, FrameNest
<1>8. Joints(work') = Joints(work)
  BY <1>3, <1>7
<1>9. Nest(Rest, B, us) => Nest(work', {N} \ {Nil}, us)
  BY <1>7
<1>10. Waiting(blocks, us, Joints(work), Joints(work'))
  BY <1>8 DEF Waiting
<1>11. TargetsOf(o) \cap Joints(work') = {}
  BY <1>4, <1>8, GrownIs DEF Tidy, Linked
<1>12. /\ \A x \in TargetsOf(o) : IsNew(blocks, x)
       /\ o.true # o.false /\ TargetsOf(o) = {o.true, o.false}
  BY <1>4
<1> HIDE DEF B
<1>13. Tidy(work', us, N)
  BY <1>1, <1>2, <1>4, <1>5, <1>7, <1>9, <1>10, <1>11, <1>12, TopTidy
<1> QED BY <1>1, <1>13 DEF Tidied


\* What the frame of an if on top is.
LEMMA TopIfIs ==
  ASSUME NEW M, NEW ks, Gen(M, ks, work, blocks, curr),
         work # <<>>, Top.k \in {"true", "elseif", "chain", "else"}
  PROVE  /\ Listed(work) /\ Listed(Rest)
         /\ Top = IfFrame(Top.k, Top.st, Top.f, Top.outbl, Top.outblID)
         /\ Top.outbl # Nil => Top.outblID = Top.outbl
         /\ Top.f # Nil /\ (Top.k = "true" => Top.outbl = Nil)
         /\ Joint(Top) = {Top.outbl} \ {Nil}
         /\ Open(Top) = (IF Top.k \in {"true", "elseif"} THEN {Top.f, Top.outbl} ELSE {Top.outbl}) \ {Nil}
<1>1. PICK l : FrameMeans(Top, ks[1], l, M, blocks)
  BY Popped DEF UnderTop
<1>2. IfMeans(Top, l, M, blocks) /\ (Top.k = "true" => Top.outbl = Nil)
  BY <1>1 DEF FrameMeans
<1>3. Top.f # Nil
  BY <1>2 DEF IfMeans, IdsOf, Nil
<1>4. Listed(work) /\ Listed(Rest)
  BY GenFooting, TopNest DEF Footing
<1>5. Joint(Top) = {Top.outbl} \ {Nil}
  BY <1>2 DEF Joint
<1>6. Open(Top) = (IF Top.k \in {"true", "elseif"} THEN {Top.f, Top.outbl} ELSE {Top.outbl}) \ {Nil}
  BY DEF Open
<1> QED BY <1>2, <1>3, <1>4, <1>5, <1>6 DEF IfMeans

\* CurrBlock jumps to a new block.
LEMMA JumpGrows ==
  ASSUME Firm, Continues, NEW n \in {1, 2, 3}, NEW us, us = WithNew(SetOut(blocks, curr, JmpTo(N)), n)
  PROVE  /\ FlowGiven(blocks, us, curr, blocks[curr + 1].code, JmpTo(N), n)
         /\ TargetsOf(JmpTo(N)) = {N} /\ JmpTo(N).t = "jmp" /\ N \in Nat
         /\ IsNew(blocks, N) /\ N \in IdsOf(us) /\ N # Nil
<1>1. N \in Nat /\ Made(blocks) /\ FlowGiven(blocks, us, curr, blocks[curr + 1].code, JmpTo(N), n)
  BY CurrGrows DEF Firm, Footing, Steady
<1>2. TargetsOf(JmpTo(N)) = {N} /\ JmpTo(N).t = "jmp"
  BY FlowIs
<1>3. IsNew(blocks, N + 0) /\ N + 0 \in IdsOf(us) /\ N + 0 # Nil
  <2>1. 0 \in Nat /\ 0 < n
    OBVIOUS
  <2> QED BY <1>1, <2>1, NewHere
<1>4. N + 0 = N
  BY <1>1
<1> QED BY <1>1, <1>2, <1>3, <1>4

LEMMA IfTrueTidy ==
  ASSUME Firm, Tidy(work, blocks, curr), GenIfTrue,
         NEW M, NEW ks, Gen(M, ks, work, blocks, curr)
  PROVE  Tidied
<1> DEFINE f == Top.f
<1>1. /\ work # <<>> /\ Top.k = "true" /\ curr' = f
      /\ Continues => /\ work' = <<IfFrame("chain", Top.st, f, N, N)>> \o Rest
                      /\ blocks' = WithNew(SetOut(blocks, curr, JmpTo(N)), 1)
      /\ ~Continues => /\ work' = <<IfFrame("chain", Top.st, f, Nil, 0)>> \o Rest
                       /\ blocks' = blocks
  BY DEF GenIfTrue, AtFrame, Go
<1>2. /\ Listed(work) /\ f # Nil /\ Open(Top) = {f} /\ Joint(Top) = {}
  <2>1. Open(Top) = {Top.f, Nil} \ {Nil} /\ Joint(Top) = {Nil} \ {Nil}
    BY <1>1, TopIfIs
  <2> QED BY <1>1, <2>1, TopIfIs
<1>3. CASE Continues
  <2> DEFINE fr == IfFrame("chain", Top.st, f, N, N)
             us == WithNew(SetOut(blocks, curr, JmpTo(N)), 1)
             B  == ({f} \ {Nil}) \cup Open(fr)
  <2>1. fr.k # "dowhile" /\ Joint(fr) = {N} \ {Nil} /\ Open(fr) = {N} \ {Nil}
    BY IfFrameIs
  <2>2. /\ FlowGiven(blocks, us, curr, blocks[curr + 1].code, JmpTo(N), 1)
        /\ TargetsOf(JmpTo(N)) = {N} /\ JmpTo(N).t = "jmp"
        /\ IsNew(blocks, N) /\ N \in IdsOf(us)
    BY <1>3, JumpGrows
  <2>3. \A x \in B : x \in Stay \/ IsNew(blocks, x)
    BY <1>2, <2>1, <2>2 DEF Stay
  <2>4. work' = Push(fr, Rest) /\ blocks' = us
    BY <1>1, <1>3 DEF Push
  <2> HIDE DEF fr, us
  <2>5. /\ Joints(work') = Joint(fr) \cup Joints(Rest) /\ DoEnds(work') = DoEnds(work)
        /\ Joints(work) = Joint(Top) \cup Joints(Rest)
        /\ \A A, bs : Nest(work', A, bs) <=> Nest(Rest, A \cup Open(fr), bs)
    BY <1>1, <1>2, <2>1, <2>4, FrameNest
  <2>6. Nest(Rest, B, us) => Nest(work', {f} \ {Nil}, us)
    BY <2>5
  <2>7. Waiting(blocks, us, Joints(work), Joints(work'))
    BY <2>1, <2>2, <2>5 DEF Waiting
  <2> HIDE DEF B
  <2>8. /\ \A x \in TargetsOf(JmpTo(N)) : IsNew(blocks, x)
        /\ JmpTo(N).t # "branch"
    BY <2>2
  <2>9. Tidy(work', us, f)
    BY <1>1, <1>3, <2>2, <2>3, <2>5, <2>6, <2>7, <2>8, TopTidy
  <2> QED BY <1>1, <2>4, <2>9 DEF Tidied
<1>4. CASE ~Continues
  <2> DEFINE fr == IfFrame("chain", Top.st, f, Nil, 0)
             B  == ({f} \ {Nil}) \cup Open(fr)
  <2>1. fr.k # "dowhile" /\ Joint(fr) = {} /\ Open(fr) = {}
    <3>1. fr.k # "dowhile" /\ Joint(fr) = {Nil} \ {Nil} /\ Open(fr) = {Nil} \ {Nil}
      BY IfFrameIs
    <3> QED BY <3>1
  <2>2. B \subseteq Stay
    BY <1>2, <2>1 DEF Stay
  <2>3. work' = Push(fr, Rest) /\ blocks' = blocks
    BY <1>1, <1>4 DEF Push
  <2> HIDE DEF fr
  <2>4. /\ Joints(work') = Joint(fr) \cup Joints(Rest) /\ DoEnds(work') = DoEnds(work)
        /\ Joints(work) = Joint(Top) \cup Joints(Rest)
        /\ \A A, bs : Nest(work', A, bs) <=> Nest(Rest, A \cup Open(fr), bs)
    BY <1>1, <1>2, <2>1, <2>3, FrameNest
  <2>5. Nest(Rest, B, blocks) => Nest(work', {f} \ {Nil}, blocks)
    BY <2>4
  <2>6. Joints(work') \subseteq Joints(work) /\ DoEnds(work') \subseteq DoEnds(work)
    BY <2>1, <2>4
  <2> HIDE DEF B
  <2>7. Tidy(work', blocks, f)
    BY <1>1, <2>2, <2>5, <2>6, TopStill
  <2> QED BY <1>1, <2>3, <2>7 DEF Tidied
<1> QED BY <1>3, <1>4


\* CurrBlock jumps to the out block of the if on top.
LEMMA OutTidy ==
  ASSUME Firm, Continues, Tidy(work, blocks, curr), NEW M, NEW ks, Gen(M, ks, work, blocks, curr),
         work # <<>>, Top.k \in {"elseif", "else"}, Top.outbl # Nil,
         NEW us, us = SetOut(blocks, curr, JmpTo(Top.outblID)),
         NEW v, NEW c, NEW B, B \subseteq Stay, Nest(Rest, B, us) => Nest(v, {c} \ {Nil}, us),
         Joints(v) \subseteq Joints(work), DoEnds(v) = DoEnds(work)
  PROVE  Tidy(v, us, c)
<1> DEFINE x == Top.outblID
           code == blocks[curr + 1].code
<1>1. FlowGiven(blocks, us, curr, code, JmpTo(x), 0)
  BY CurrGrows
<1>2. x \in Joints(work)
  <2>1. Joint(Top) = {Top.outbl} \ {Nil} /\ x = Top.outbl /\ Listed(work)
    BY TopIfIs
  <2>2. Joints(work) = Joint(Top) \cup Joints(Rest)
    BY <2>1, TopNest
  <2> QED BY <2>1, <2>2
<1>3. TargetsOf(JmpTo(x)) = {x} /\ JmpTo(x).t # "branch"
  BY FlowIs
<1>4. Waiting(blocks, us, Joints(work), Joints(v))
  BY DEF Waiting
<1> HIDE DEF x, code
<1>5. /\ \A y \in TargetsOf(JmpTo(x)) : IsNew(blocks, y) \/ y \in Joints(work)
      /\ \A y \in B : y \in Stay \/ IsNew(blocks, y)
  BY <1>2, <1>3
<1> QED BY <1>1, <1>3, <1>4, <1>5, TopTidy

LEMMA ElseIfEndTidy ==
  ASSUME Firm, Tidy(work, blocks, curr), GenElseIfEnd, WayKept,
         NEW M, NEW ks, Gen(M, ks, work, blocks, curr)
  PROVE  Tidied
<1> DEFINE f  == Top.f
           fr == [Top EXCEPT !.k = "chain"]
           us == SetOut(blocks, curr, JmpTo(Top.outblID))
           B  == ({f} \ {Nil}) \cup Open(fr)
<1>1. /\ work # <<>> /\ Top.k = "elseif" /\ curr' = f /\ work' = Push(fr, Rest)
      /\ Continues => blocks' = us /\ Top.outbl # Nil
      /\ ~Continues => blocks' = blocks
  BY DEF GenElseIfEnd, AtFrame, Go, Push, WayKept, Mislinked
<1>2. /\ Listed(work) /\ Top = IfFrame(Top.k, Top.st, f, Top.outbl, Top.outblID) /\ f # Nil
      /\ Open(Top) = {f, Top.outbl} \ {Nil} /\ Joint(Top) = {Top.outbl} \ {Nil}
  BY <1>1, TopIfIs
<1>3. fr.k # "dowhile" /\ Joint(fr) = {Top.outbl} \ {Nil} /\ Open(fr) = {Top.outbl} \ {Nil}
  <2>1. fr = IfFrame("chain", Top.st, f, Top.outbl, Top.outblID)
    BY <1>2 DEF IfFrame
  <2> HIDE DEF fr, f
  <2> QED BY <2>1, IfFrameIs
<1>4. B \subseteq Stay
  BY <1>2, <1>3 DEF Stay
<1> HIDE DEF fr, us
<1>5. /\ Joints(work') = Joint(fr) \cup Joints(Rest) /\ DoEnds(work') = DoEnds(work)
      /\ Joints(work) = Joint(Top) \cup Joints(Rest)
      /\ \A A, bs : Nest(work', A, bs) <=> Nest(Rest, A \cup Open(fr), bs)
  BY <1>1, <1>2, <1>3, FrameNest
<1>6. \A bs : Nest(Rest, B, bs) => Nest(work', {f} \ {Nil}, bs)
  BY <1>5
<1>7. Joints(work') \subseteq Joints(work) /\ DoEnds(work') \subseteq DoEnds(work)
  BY <1>2, <1>3, <1>5
<1> HIDE DEF B
<1>8. CASE Continues
  <2>1. us = SetOut(blocks, curr, JmpTo(Top.outblID)) /\ (Nest(Rest, B, us) => Nest(work', {f} \ {Nil}, us))
    BY <1>6 DEF us
  <2>2. Tidy(work', us, f)
    BY <1>1, <1>4, <1>5, <1>7, <1>8, <2>1, OutTidy
  <2> QED BY <1>1, <1>8, <2>2 DEF Tidied
<1>9. CASE ~Continues
  <2>1. Tidy(work', blocks, f)
    BY <1>1, <1>4, <1>6, <1>7, TopStill
  <2> QED BY <1>1, <1>9, <2>1 DEF Tidied
<1> QED BY <1>8, <1>9

LEMMA ElseTidy ==
  ASSUME Firm, Tidy(work, blocks, curr), GenElse,
         NEW M, NEW ks, Gen(M, ks, work, blocks, curr)
  PROVE  Tidied
<1> DEFINE fr == [Top EXCEPT !.k = "else"]
           s  == Top.st.else
           B  == ({curr} \ {Nil}) \cup Open(fr)
<1>1. /\ work # <<>> /\ Top.k = "chain" /\ curr' = curr /\ blocks' = blocks
      /\ work' = <<Statements(s), fr>> \o Rest
  BY DEF GenElse, AtFrame, Go
<1>2. /\ Listed(work) /\ Listed(Rest)
      /\ Top = IfFrame(Top.k, Top.st, Top.f, Top.outbl, Top.outblID)
      /\ Open(Top) = {Top.outbl} \ {Nil} /\ Joint(Top) = {Top.outbl} \ {Nil}
  BY <1>1, TopIfIs
<1>3. fr.k # "dowhile" /\ Joint(fr) = {Top.outbl} \ {Nil} /\ Open(fr) = {Top.outbl} \ {Nil}
  <2>1. fr = IfFrame("else", Top.st, Top.f, Top.outbl, Top.outblID)
    BY <1>2 DEF IfFrame
  <2> HIDE DEF fr
  <2> QED BY <2>1, IfFrameIs
<1>4. B \subseteq Stay
  BY <1>2, <1>3 DEF Stay
<1> HIDE DEF fr, s
<1>5. work' = Push(Statements(s), Push(fr, Rest))
  BY <1>1, <1>2, PushTwo
<1>6. /\ Joints(work') = Joint(fr) \cup Joints(Rest) /\ DoEnds(work') = DoEnds(work)
      /\ Joints(work) = Joint(Top) \cup Joints(Rest)
      /\ \A A, bs : Nest(work', A, bs) <=> Nest(Rest, A \cup Open(fr), bs)
  BY <1>1, <1>2, <1>3, <1>5, FrameNest
<1>7. Nest(Rest, B, blocks) => Nest(work', {curr} \ {Nil}, blocks)
  BY <1>6
<1>8. Joints(work') \subseteq Joints(work) /\ DoEnds(work') \subseteq DoEnds(work)
  BY <1>2, <1>3, <1>6
<1> HIDE DEF B
<1>9. Tidy(work', blocks, curr)
  BY <1>1, <1>4, <1>7, <1>8, TopStill
<1> QED BY <1>1, <1>9 DEF Tidied

LEMMA IfEndTidy ==
  ASSUME Firm, Tidy(work, blocks, curr), GenIfEnd,
         NEW M, NEW ks, Gen(M, ks, work, blocks, curr)
  PROVE  Tidied
<1> DEFINE b == Top.outbl
<1>1. /\ work # <<>> /\ Top.k = "else" /\ work' = Rest
      /\ \/ /\ Continues /\ b = Nil
            /\ blocks' = WithNew(SetOut(blocks, curr, JmpTo(N)), 1) /\ curr' = N
         \/ Continues /\ b # Nil /\ blocks' = SetOut(blocks, curr, JmpTo(Top.outblID)) /\ curr' = b
         \/ ~Continues /\ blocks' = blocks /\ curr' = b
  BY DEF GenIfEnd, AtFrame, Go
<1>2. Listed(work) /\ Open(Top) = {b} \ {Nil}
  BY <1>1, TopIfIs
<1>3. /\ Joints(work) = Joint(Top) \cup Joints(Rest) /\ DoEnds(Rest) = DoEnds(work)
  <2>1. DoEnd(Top) = {}
    BY <1>1 DEF DoEnd
  <2> QED BY <1>1, <1>2, <2>1, TopNest
<1>4. Joints(Rest) \subseteq Joints(work) /\ DoEnds(Rest) \subseteq DoEnds(work)
  BY <1>3
<1>5. {b} \ {Nil} \subseteq Stay
  BY <1>2 DEF Stay
<1>6. CASE Continues /\ b = Nil
  <2> DEFINE us == WithNew(SetOut(blocks, curr, JmpTo(N)), 1)
             B  == {N} \ {Nil}
  <2>1. /\ FlowGiven(blocks, us, curr, blocks[curr + 1].code, JmpTo(N), 1)
        /\ TargetsOf(JmpTo(N)) = {N} /\ JmpTo(N).t = "jmp" /\ IsNew(blocks, N)
    BY <1>6, JumpGrows
  <2>2. blocks' = us /\ curr' = N
    BY <1>1, <1>6
  <2> HIDE DEF us
  <2>3. Waiting(blocks, us, Joints(work), Joints(Rest))
    BY <1>4 DEF Waiting
  <2>4. /\ \A x \in TargetsOf(JmpTo(N)) : IsNew(blocks, x)
        /\ JmpTo(N).t # "branch"
        /\ \A x \in B : IsNew(blocks, x)
    BY <2>1
  <2>5. Nest(Rest, B, us) => Nest(Rest, {N} \ {Nil}, us)
    OBVIOUS
  <2> HIDE DEF B
  <2>6. Tidy(Rest, us, N)
    BY <1>1, <1>3, <1>6, <2>1, <2>3, <2>4, <2>5, TopTidy
  <2> QED BY <1>1, <2>2, <2>6 DEF Tidied
<1>7. CASE Continues /\ b # Nil
  <2> DEFINE us == SetOut(blocks, curr, JmpTo(Top.outblID))
             B  == {b} \ {Nil}
  <2>1. B \subseteq Stay /\ (Nest(Rest, B, us) => Nest(Rest, {b} \ {Nil}, us))
        /\ us = SetOut(blocks, curr, JmpTo(Top.outblID)) /\ Top.outbl # Nil
    BY <1>5, <1>7
  <2>2. blocks' = us /\ curr' = b
    BY <1>1, <1>7
  <2> HIDE DEF us, B, b
  <2>3. Tidy(Rest, us, b)
    BY <1>1, <1>3, <1>4, <1>7, <2>1, OutTidy
  <2> QED BY <1>1, <2>2, <2>3 DEF Tidied
<1>8. CASE ~Continues
  <2> DEFINE B  == {b} \ {Nil}
  <2>1. B \subseteq Stay /\ (Nest(Rest, B, blocks) => Nest(Rest, {b} \ {Nil}, blocks))
    BY <1>5
  <2> HIDE DEF B, b
  <2>2. Tidy(Rest, blocks, b)
    BY <1>1, <1>4, <2>1, TopStill
  <2> QED BY <1>1, <1>8, <2>2 DEF Tidied
<1> QED BY <1>1, <1>6, <1>7, <1>8


\* What the frame of a loop has to come to.
LEMMA LoopFrameIs ==
  ASSUME NEW kind \in {"while", "dowhile"}, NEW fr, fr.k = kind
  PROVE  /\ Joint(fr) = {fr.start} /\ Open(fr) = {fr.end}
         /\ DoEnd(fr) = IF kind = "dowhile" THEN {fr.end} ELSE {}
BY DEF Joint, Open, DoEnd

LEMMA LoopFrameOf ==
  ASSUME NEW kind, NEW e, NEW x, NEW y
  PROVE  LET fr == LoopFrame(kind, e, x, y) IN fr.k = kind /\ fr.start = x /\ fr.end = y
BY DEF LoopFrame

LEMMA WhileEndTidy ==
  ASSUME Firm, Tidy(work, blocks, curr), GenWhileEnd
  PROVE  Tidied
<1> DEFINE x == Top.start
           b == Top.end
           B == {b} \ {Nil}
           us == SetOut(blocks, curr, JmpTo(x))
<1>1. /\ work # <<>> /\ Top.k = "while" /\ work' = Rest /\ curr' = b
      /\ \/ HasFlow(curr) /\ blocks' = blocks
         \/ Continues /\ blocks' = us
  BY DEF GenWhileEnd, AtFrame, Go, Continues
<1>2. Listed(work) /\ Open(Top) = {b} /\ Joint(Top) = {x} /\ DoEnd(Top) = {}
  BY <1>1, LoopFrameIs DEF Firm, Footing
<1>3. Joints(work) = Joint(Top) \cup Joints(Rest) /\ DoEnds(Rest) = DoEnds(work)
  BY <1>1, <1>2, TopNest
<1>4. Joints(Rest) \subseteq Joints(work) /\ DoEnds(Rest) \subseteq DoEnds(work) /\ x \in Joints(work)
  BY <1>2, <1>3
<1>5. B \subseteq Stay /\ \A bs : Nest(Rest, B, bs) => Nest(Rest, {b} \ {Nil}, bs)
  BY <1>2 DEF Stay
<1> HIDE DEF B
<1>6. CASE blocks' = blocks
  <2>1. Tidy(Rest, blocks, b)
    BY <1>1, <1>4, <1>5, TopStill
  <2> QED BY <1>1, <1>6, <2>1 DEF Tidied
<1>7. CASE Continues /\ blocks' = us
  <2> DEFINE code == blocks[curr + 1].code
  <2>1. FlowGiven(blocks, us, curr, code, JmpTo(x), 0)
    BY <1>7, CurrGrows
  <2>2. TargetsOf(JmpTo(x)) = {x} /\ JmpTo(x).t = "jmp"
    BY FlowIs
  <2> HIDE DEF us, code, x, b
  <2>3. Waiting(blocks, us, Joints(work), Joints(Rest))
    BY <1>4 DEF Waiting
  <2>4. \A y \in TargetsOf(JmpTo(x)) : IsNew(blocks, y) \/ y \in Joints(work)
    BY <1>4, <2>2
  <2>5. \A y \in B : y \in Stay \/ IsNew(blocks, y)
    BY <1>5
  <2>6. JmpTo(x).t # "branch"
    BY <2>2
  <2>7. Tidy(Rest, us, b)
    BY <1>1, <1>3, <1>5, <1>7, <2>1, <2>3, <2>4, <2>5, <2>6, TopTidy
  <2> QED BY <1>1, <1>7, <2>7 DEF Tidied
<1> QED BY <1>1, <1>6, <1>7

\* The loop of a new do-while is entered by its start.
LEMMA NewLoop ==
  ASSUME NEW bs, NEW us, NEW c, NEW code, NEW o, FlowGiven(bs, us, c, code, o, 2), 0 \in IdsOf(bs),
         NEW fr, fr.start = Len(bs), fr.end = Len(bs) + 1, TargetsOf(o) = {fr.start}
  PROVE  /\ Loop(fr, us) /\ Holds(fr, {fr.start}) /\ \A x \in IdsOf(bs) : x < fr.start
<1> DEFINE n == Len(bs)
<1>1. /\ n \in Nat /\ Len(us) = n + 2 /\ Made(us)
      /\ \A x : x \in IdsOf(bs) <=> x \in Int /\ 0 <= x /\ x < n
  <2>1. Made(bs) /\ Len(us) = n + 2
    BY DEF FlowGiven, Alters
  <2>2. Made(us)
    BY GrownIs
  <2> QED BY <2>1, <2>2, MadeIs
<1>2. \A x : x \in IdsOf(us) <=> x \in Int /\ 0 <= x /\ x < n + 2
  BY <1>1, MadeIs
<1>3. fr.start = n /\ fr.end = n + 1
  OBVIOUS
<1> HIDE DEF n
<1>4. fr.start \in Nat /\ 0 < fr.start /\ fr.start < fr.end /\ fr.end \in IdsOf(us)
  BY <1>1, <1>2, <1>3
<1>5. \A x \in IdsOf(bs) : x < fr.start
  BY <1>1, <1>3
<1>6. Holds(fr, {fr.start})
  BY <1>1, <1>3 DEF Holds, Outside
<1>7. ASSUME NEW x \in IdsOf(us), Outside(fr, x), NEW y \in To(us, x)
      PROVE  y = fr.start \/ Outside(fr, y)
  <2>1. x = n + 1 \/ x \in IdsOf(bs)
    BY <1>1, <1>2, <1>3, <1>7 DEF Outside
  <2>2. x \in IdsOf(bs)
    <3>1. n + 1 \notin IdsOf(bs)
      BY <1>1
    <3>2. \A z \in IdsOf(us) : z \notin IdsOf(bs) => To(us, z) = {}
      BY GrownIs
    <3> QED BY <1>7, <2>1, <3>1, <3>2
  <2>3. CASE x = c
    BY <1>7, <2>3, GrownIs
  <2>4. CASE x # c
    <3>1. To(us, x) = To(bs, x)
      BY <1>7, <2>2, <2>4, GrownIs
    <3>2. y \in IdsOf(bs)
      BY <1>7, <2>2, <3>1 DEF FlowGiven, Inner
    <3> QED BY <1>5, <3>2 DEF Outside
  <2> QED BY <2>3, <2>4
<1> QED BY <1>4, <1>5, <1>6, <1>7 DEF Loop

LEMMA DoWhileTidy ==
  ASSUME Firm, Tidy(work, blocks, curr), GenDoWhile
  PROVE  Tidied
<1> DEFINE fr == LoopFrame("dowhile", St.e, N, N + 1)
           s  == St.body
           us == WithNew(SetOut(blocks, curr, JmpTo(N)), 2)
           code == blocks[curr + 1].code
           A == {curr} \ {Nil}
           B == {N, N + 1}
<1>1. /\ work # <<>> /\ Top.k = "statements" /\ curr # Nil
      /\ work' = <<Statements(s), fr>> \o Later /\ blocks' = us /\ curr' = N
  BY AtStatementIs DEF GenDoWhile, Go
<1>2. Listed(work) /\ Continues /\ Made(blocks) /\ 0 \in IdsOf(blocks)
  BY <1>1, Here DEF Firm, Footing, Steady
<1>3. /\ Listed(Later) /\ Joints(Later) = Joints(work) /\ DoEnds(Later) = DoEnds(work)
      /\ Nest(Later, A, blocks)
  BY <1>1, <1>2, LaterNest DEF Tidy
<1>4. fr.k = "dowhile" /\ fr.start = N /\ fr.end = N + 1
  BY LoopFrameOf
<1>5. /\ FlowGiven(blocks, us, curr, code, JmpTo(N), 2)
      /\ TargetsOf(JmpTo(N)) = {N} /\ JmpTo(N).t = "jmp" /\ IsNew(blocks, N) /\ N \in IdsOf(us)
      /\ N \in Nat /\ N # Nil
  BY <1>2, JumpGrows
<1>6. IsNew(blocks, N + 1) /\ N + 1 \in IdsOf(us) /\ N # N + 1
  <2>1. 1 \in Nat /\ 1 < 2
    OBVIOUS
  <2>2. IsNew(blocks, N + 1) /\ N + 1 \in IdsOf(us)
    BY <1>2, <1>5, <2>1, NewHere
  <2> QED BY <1>5, <2>2
<1> HIDE DEF fr, s, us, code
<1>7. work' = Push(Statements(s), Push(fr, Later))
  BY <1>1, <1>3, PushTwo
<1>8. Joint(fr) = {N} /\ Open(fr) = {N + 1} /\ DoEnd(fr) = {N + 1}
  BY <1>4, LoopFrameIs
<1>9. /\ Joints(work') = {N} \cup Joints(work) /\ DoEnds(work') = {N + 1} \cup DoEnds(work)
  BY <1>3, <1>7, <1>8, TwoNest
<1>10. Loop(fr, us) /\ Holds(fr, {N}) /\ \A x \in IdsOf(blocks) : x < fr.start
  <2>1. fr.start = Len(blocks) /\ fr.end = Len(blocks) + 1 /\ TargetsOf(JmpTo(N)) = {fr.start}
    BY <1>4, <1>5 DEF N
  <2>2. Loop(fr, us) /\ Holds(fr, {fr.start}) /\ \A x \in IdsOf(blocks) : x < fr.start
    BY <1>2, <1>5, <2>1, NewLoop
  <2> QED BY <1>4, <2>2
<1> DEFINE J == Joints(work)
           E == DoEnds(work)
<1>11. J \cap E = {} /\ J \cup E \subseteq IdsOf(blocks)
  BY DEF Tidy, Linked
<1>12. \A x \in Marks(Later) : x < fr.start
  BY <1>3, <1>10, <1>11 DEF Marks
<1>13. Nest(Later, B, us) => Nest(work', {N} \ {Nil}, us)
  <2>1. {N} \ {Nil} = {N} /\ {N} \cup Open(fr) = B
    BY <1>5, <1>8
  <2>2. Nest(Later, {N} \cup Open(fr), us) => Nest(work', {N}, us)
    BY <1>3, <1>4, <1>7, <1>10, <1>12, TwoNest
  <2> QED BY <2>1, <2>2
<1>14. \A x \in J \cup E : x # N /\ x # N + 1
  BY <1>5, <1>6, <1>11, GrownIs
<1>15. Joints(work') \cap DoEnds(work') = {}
  BY <1>6, <1>9, <1>11, <1>14
<1>16. Waiting(blocks, us, J, Joints(work')) /\ Waiting(blocks, us, E, DoEnds(work'))
  BY <1>5, <1>6, <1>9 DEF Waiting
<1>17. Leading(blocks, us, curr, JmpTo(N), J, E, Joints(work'), DoEnds(work'))
  <2>1. N \notin DoEnds(work')
    BY <1>6, <1>9, <1>14
  <2> QED BY <1>5, <2>1 DEF Leading
<1>18. curr \in A /\ \A x \in B : x \in A \/ IsNew(blocks, x)
  BY <1>1, <1>5, <1>6
<1> HIDE DEF J, E, A, B
<1>19. /\ Leading(blocks, us, curr, JmpTo(N), Joints(work), DoEnds(work), Joints(work'), DoEnds(work'))
       /\ Waiting(blocks, us, Joints(work), Joints(work'))
       /\ Waiting(blocks, us, DoEnds(work), DoEnds(work'))
  BY <1>16, <1>17 DEF J, E
<1>20. Tidy(work', us, N)
  BY <1>2, <1>3, <1>5, <1>13, <1>15, <1>18, <1>19, TidyOn
<1> QED BY <1>1, <1>20 DEF Tidied


LEMMA DoWhileEndTidy ==
  ASSUME Firm, Tidy(work, blocks, curr), GenDoWhileEnd, WayKept
  PROVE  Tidied
<1> DEFINE x == Top.start
           b == Top.end
           B == {b} \ {Nil}
           o == Branch(Top.e, x, b)
           us == SetOut(GenExpr(blocks, curr, Top.e), curr, o)
           code == Coded(blocks[curr + 1].code, Top.e)
<1>1. /\ work # <<>> /\ Top.k = "dowhile" /\ work' = Rest /\ curr' = b
      /\ blocks' = us /\ curr # Nil /\ Continues
  BY DEF GenDoWhileEnd, AtFrame, Go, Continues, WayKept, Overwritten
<1>2. Listed(work) /\ Open(Top) = {b} /\ Joint(Top) = {x} /\ DoEnd(Top) = {b}
  BY <1>1, LoopFrameIs DEF Firm, Footing
<1>3. FlowGiven(blocks, us, curr, code, o, 0)
  BY <1>1, CurrGrows
<1>4. o.t = "branch" /\ o.true = x /\ o.false = b /\ TargetsOf(o) = {x, b}
  BY FlowIs
<1>5. Loop(Top, blocks) /\ Holds(Top, {curr} \ {Nil}) /\ \A y \in Marks(Rest) : y < x
  BY <1>1, <1>2, TopNest DEF Tidy
<1> HIDE DEF o, us, code
<1> DEFINE J == Joints(work)
           E == DoEnds(work)
           J2 == Joints(Rest)
           E2 == DoEnds(Rest)
<1>6. J = {x} \cup J2 /\ E = {b} \cup E2
  BY <1>1, <1>2, TopNest
<1>7. J \cap E = {} /\ J \cup E \subseteq IdsOf(blocks)
  BY DEF Tidy, Linked
<1>8. \A y \in J2 \cup E2 : y < x /\ y \in Int
  <2>1. \A y \in IdsOf(blocks) : y \in Int
    BY MadeIs DEF Firm, Footing, Steady
  <2>2. J2 \cup E2 \subseteq IdsOf(blocks) /\ J2 \cup E2 = Marks(Rest)
    BY <1>6, <1>7 DEF Marks
  <2> QED BY <1>5, <2>1, <2>2
<1>9. x \in Int /\ b \in Int /\ 0 < x /\ x < b
  <2>1. \A y \in IdsOf(blocks) : y \in Int
    BY MadeIs DEF Firm, Footing, Steady
  <2> QED BY <1>5, <2>1 DEF Loop
<1>10. x \notin J2 \cup E2 /\ b \notin J2 \cup E2 /\ x # b
  BY <1>8, <1>9
<1>11. Gated(us, curr, x, J2 \cup E2)
  <2> DEFINE V == {y \in Int : Outside(Top, y)}
  <2>1. 0 \in V /\ x \notin V /\ J2 \cup E2 \subseteq V
    BY <1>8, <1>9 DEF Outside
  <2>2. curr \notin V
    BY <1>1, <1>5 DEF Holds
  <2>3. ASSUME NEW y \in IdsOf(us), y \in V PROVE To(us, y) \subseteq V \cup {x}
    <3>1. y # curr
      BY <2>2, <2>3
    <3>2. y \in IdsOf(blocks)
      BY <1>3, <2>3 DEF FlowGiven, Alters, IdsOf
    <3>3. To(us, y) = To(blocks, y)
      BY <1>3, <2>3, <3>1, <3>2, GrownIs
    <3>4. To(blocks, y) \subseteq IdsOf(blocks)
      BY <3>2 DEF Firm, Inner
    <3>5. \A z \in To(blocks, y) : z = x \/ Outside(Top, z)
      BY <1>5, <2>3, <3>2 DEF Loop
    <3>6. \A z \in IdsOf(blocks) : z \in Int
      BY MadeIs DEF Firm, Footing, Steady
    <3> QED BY <3>3, <3>4, <3>5, <3>6
  <2> HIDE DEF V
  <2> QED BY <2>1, <2>2, <2>3 DEF Gated, Gate
<1>12. Leading(blocks, us, curr, o, J, E, J2, E2)
  <2>1. \A y \in TargetsOf(o) : y \notin E2 /\ y \in J \cup E
    BY <1>4, <1>6, <1>10
  <2>2. TargetsOf(o) \cap J2 = {} /\ o.true # o.false /\ o.false \in E
    BY <1>4, <1>6, <1>10
  <2> HIDE DEF J, E, J2, E2
  <2> QED BY <1>4, <1>11, <2>1, <2>2 DEF Leading
<1>13. Waiting(blocks, us, J, J2) /\ Waiting(blocks, us, E, E2) /\ J2 \cap E2 = {}
  BY <1>6, <1>7 DEF Waiting
<1>14. Nest(Rest, Stay, blocks) /\ curr \in Stay /\ \A y \in B : y \in Stay \/ IsNew(blocks, y)
  BY <1>1, <1>2, StayNest DEF Stay
<1>15. Nest(Rest, B, us) => Nest(Rest, {b} \ {Nil}, us)
  OBVIOUS
<1> HIDE DEF B, b, x
<1>16. Tidy(Rest, us, b)
  BY <1>1, <1>3, <1>12, <1>13, <1>14, <1>15, TidyOn
<1> QED BY <1>1, <1>16 DEF Tidied

\* The start of a while is given its test, when it is made.
LEMMA WhileTidy ==
  ASSUME Firm, Tidy(work, blocks, curr), GenWhile
  PROVE  Tidied
<1> DEFINE fr == LoopFrame("while", St.e, N, N + 2)
           s  == St.body
           bs == WithNew(SetOut(blocks, curr, JmpTo(N)), 3)
           o  == Branch(St.e, N + 1, N + 2)
           us == SetOut(GenExpr(bs, N, St.e), N, o)
           code == blocks[curr + 1].code
           A == {curr} \ {Nil}
           J == Joints(work)
           E == DoEnds(work)
           J2 == {N} \cup J
           E1 == {N + 1, N + 2} \cup E
<1>1. /\ work # <<>> /\ Top.k = "statements" /\ curr # Nil
      /\ work' = <<Statements(s), fr>> \o Later /\ blocks' = us /\ curr' = N + 1
  BY AtStatementIs DEF GenWhile, Go
<1>2. Listed(work) /\ Continues /\ Made(blocks) /\ 0 \in IdsOf(blocks)
  BY <1>1, Here DEF Firm, Footing, Steady
<1>3. /\ Listed(Later) /\ Joints(Later) = Joints(work) /\ DoEnds(Later) = DoEnds(work)
      /\ Nest(Later, A, blocks)
  BY <1>1, <1>2, LaterNest DEF Tidy
<1>4. fr.k = "while" /\ fr.start = N /\ fr.end = N + 2
  BY LoopFrameOf
<1>5. /\ FlowGiven(blocks, bs, curr, code, JmpTo(N), 3)
      /\ TargetsOf(JmpTo(N)) = {N} /\ JmpTo(N).t = "jmp" /\ IsNew(blocks, N) /\ N \in IdsOf(bs)
      /\ N \in Nat /\ N # Nil
  BY <1>2, JumpGrows
<1>6. /\ IsNew(blocks, N + 1) /\ N + 1 \in IdsOf(bs) /\ N + 1 # Nil
      /\ IsNew(blocks, N + 2) /\ N + 2 \in IdsOf(bs)
      /\ N # N + 1 /\ N # N + 2 /\ N + 1 # N + 2
  <2>1. 1 \in Nat /\ 1 < 3 /\ 2 \in Nat /\ 2 < 3
    OBVIOUS
  <2>2. /\ IsNew(blocks, N + 1) /\ N + 1 \in IdsOf(bs) /\ N + 1 # Nil
        /\ IsNew(blocks, N + 2) /\ N + 2 \in IdsOf(bs)
    BY <1>2, <1>5, <2>1, NewHere
  <2> QED BY <1>5, <2>2
<1>7. o.t = "branch" /\ o.true = N + 1 /\ o.false = N + 2 /\ TargetsOf(o) = {N + 1, N + 2}
  BY FlowIs
<1> HIDE DEF bs, code
<1>8. FlowGiven(bs, us, N, Coded(bs[N + 1].code, St.e), o, 0)
  <2>1. Made(bs) /\ Inner(bs)
    <3>1. TargetsOf(JmpTo(N)) \subseteq IdsOf(bs)
      BY <1>5
    <3> QED BY <1>5, <3>1, GrownIs, GrownInner
  <2>2. bs[N + 1].out = NoFlow
    <3>1. N \notin IdsOf(blocks) /\ N # curr
      BY <1>2, <1>5, GrownIs DEF FlowGiven
    <3>2. bs[N + 1] = EmptyBlock
      BY <1>5, <3>1 DEF FlowGiven, Alters
    <3> QED BY <3>2, EmptyIs
  <2>3. Listed(Coded(bs[N + 1].code, St.e))
    BY <1>5, <2>1, MadeIs, ListedAppend DEF Coded
  <2> HIDE DEF o
  <2>4. Alters(bs, us, N, Coded(bs[N + 1].code, St.e), o, 0)
    BY <1>5, <2>1, LastFlow
  <2> QED BY <1>5, <2>1, <2>2, <2>3, <2>4 DEF FlowGiven
<1> HIDE DEF fr, s, us, o
<1>9. J \cap E = {} /\ J \cup E \subseteq IdsOf(blocks) /\ Linked(J, E, blocks)
  BY DEF Tidy, Linked
<1>10. \A x \in J \cup E : x # N /\ x # N + 1 /\ x # N + 2
  BY <1>5, <1>6, <1>9, GrownIs
<1>11. Linked(J2, E1, bs)
  <2>1. Waiting(blocks, bs, J, J2) /\ Waiting(blocks, bs, E, E1)
    BY <1>5, <1>6 DEF Waiting
  <2>2. J2 \cap E1 = {} /\ N \notin E1
    BY <1>6, <1>9, <1>10
  <2>3. Leading(blocks, bs, curr, JmpTo(N), J, E, J2, E1)
    BY <1>5, <2>2 DEF Leading
  <2> HIDE DEF J, E, J2, E1
  <2> QED BY <1>2, <1>5, <1>9, <2>1, <2>2, <2>3, LinksStill
<1>12. Linked(J2, E, us)
  <2>1. 0 \in IdsOf(bs)
    BY <1>2, <1>5, GrownIs
  <2>2. Waiting(bs, us, J2, J2) /\ Waiting(bs, us, E1, E)
    BY DEF Waiting
  <2>3. J2 \cap E = {}
    BY <1>9, <1>10
  <2>4. Leading(bs, us, N, o, J2, E1, J2, E)
    <3>1. \A x \in TargetsOf(o) : x \notin E /\ x \in E1
      BY <1>7, <1>10
    <3>2. TargetsOf(o) \cap J2 = {} /\ o.true # o.false /\ o.false \in E1 /\ o.true \in E1
      BY <1>6, <1>7, <1>10
    <3> HIDE DEF J, E, J2, E1
    <3> QED BY <1>7, <3>1, <3>2 DEF Leading
  <2> HIDE DEF J, E, J2, E1
  <2> QED BY <1>8, <1>11, <2>1, <2>2, <2>3, <2>4, LinksStill
<1> DEFINE B == {N, N + 1, N + 2}
           C == {N + 1} \cup Open(fr)
<1>13. work' = Push(Statements(s), Push(fr, Later))
  BY <1>1, <1>3, PushTwo
<1>14. Joint(fr) = {N} /\ Open(fr) = {N + 2} /\ DoEnd(fr) = {}
  BY <1>4, LoopFrameIs
<1>15. /\ Joints(work') = J2 /\ DoEnds(work') = E
       /\ Nest(Later, C, us) => Nest(work', {N + 1}, us)
  <2>1. Joints(work') = Joint(fr) \cup Joints(Later) /\ DoEnds(work') = DoEnd(fr) \cup DoEnds(Later)
    BY <1>3, <1>13, TwoNest
  <2>2. Nest(Later, C, us) => Nest(work', {N + 1}, us)
    BY <1>3, <1>4, <1>13, TwoNest
  <2> QED BY <1>3, <1>14, <2>1, <2>2
<1>16. Nest(Later, C, us)
  <2>1. curr \in A /\ N \in B /\ (\A x \in B : x \in A \/ IsNew(blocks, x)) /\ C \subseteq B
    BY <1>1, <1>5, <1>6, <1>14
  <2> HIDE DEF A, B, C
  <2>2. Nest(Later, B, bs)
    <3>1. /\ Nest(Later, A, blocks) /\ curr \in A /\ (\A x \in B : x \in A \/ IsNew(blocks, x))
          /\ FlowGiven(blocks, bs, curr, code, JmpTo(N), 3)
      BY <1>3, <1>5, <2>1
    <3> QED BY <3>1, NestOn
  <2>3. Nest(Later, B, us) /\ Made(us)
    BY <1>8, <2>1, <2>2, NestStill, GrownIs
  <2> QED BY <2>1, <2>3, NestFor
<1>17. {N + 1} \ {Nil} = {N + 1}
  BY <1>6
<1> HIDE DEF C, J, J2, E
<1>18. Nest(work', {N + 1} \ {Nil}, us)
  BY <1>15, <1>16, <1>17
<1>19. Linked(Joints(work'), DoEnds(work'), us)
  BY <1>12, <1>15
<1> QED BY <1>1, <1>18, <1>19 DEF Tidied, Tidy

LEMMA TidyFirst ==
  ASSUME CFInit
  PROVE  Tidy(work, blocks, curr)
<1>1. work = Push(Statements(proc.body), <<>>) /\ blocks = <<EmptyBlock>> /\ curr = 0
  BY ListedOne, JoinEmpty DEF CFInit, Push
<1>2. IdsOf(blocks) = {0} /\ blocks[0 + 1] = EmptyBlock
  <2> DEFINE bs == <<EmptyBlock>>
  <2>1. Len(bs) = 1 /\ bs[1] = EmptyBlock
    OBVIOUS
  <2> HIDE DEF bs
  <2>2. IdsOf(bs) = {0}
    BY <2>1 DEF IdsOf
  <2> QED BY <1>1, <2>1, <2>2 DEF bs
<1>3. To(blocks, 0) = {} /\ ~Branches(blocks, 0)
  BY <1>2, EmptyIs, NoTargets
<1> DEFINE w == <<>>
           A == {curr} \ {Nil}
<1>4. Listed(w) /\ Joints(w) = {} /\ DoEnds(w) = {} /\ Nest(w, A, blocks)
  BY ListedEmpty, DoEndsNone, NestNone
<1> HIDE DEF w, A
<1>5. Joints(work) = {} /\ DoEnds(work) = {} /\ Nest(work, A, blocks)
  <2>1. work = Push(Statements(proc.body), w)
    BY <1>1 DEF w
  <2> QED BY <1>4, <2>1, PlainNest
<1>6. Linked({}, {}, blocks)
  BY <1>2, <1>3 DEF Linked, Sealed
<1> QED BY <1>5, <1>6 DEF Tidy, A

LEMMA TidyStep ==
  ASSUME Tidy(work, blocks, curr), NEW M, NEW ks, Gen(M, ks, work, blocks, curr), WayKept,
         phase = "gen", CFNext, phase' = "gen"
  PROVE  Tidied
<1>1. Firm
  BY GenFirm
<1>2. ~NilBlock /\ ~GenProcEnd /\ ~Check
  BY DEF NilBlock, GenProcEnd, Check
<1>3. CASE \/ GenBlockEnd \/ GenStatement \/ GenReturn \/ GenExit
           \/ GenIf \/ GenElseIf \/ GenIfTrue
  BY <1>1, <1>3, StatementTidy, IfTidy, ElseIfTidy, IfTrueTidy
<1>4. CASE GenElseIfEnd \/ GenElse \/ GenIfEnd
  BY <1>1, <1>4, ElseIfEndTidy, ElseTidy, IfEndTidy
<1>5. CASE GenWhile \/ GenWhileEnd \/ GenDoWhile \/ GenDoWhileEnd
  BY <1>1, <1>5, WhileTidy, WhileEndTidy, DoWhileTidy, DoWhileEndTidy
<1> QED BY <1>2, <1>3, <1>4, <1>5 DEF CFNext

\* The procedure is generated: what has two ways out is split right.
LEMMA SealedAtEnd ==
  ASSUME Tidy(work, blocks, curr), NEW M, NEW ks, Gen(M, ks, work, blocks, curr), GenProcEnd
  PROVE  Sealed(blocks, {})'
<1>1. work = <<>>
  BY DEF GenProcEnd
<1>2. Made(blocks)
  BY DEF Gen
<1>3. Joints(work) = {} /\ DoEnds(work) = {}
  BY <1>1, NestNone, DoEndsNone
<1>4. Sealed(blocks, {})
  <2>1. Linked({}, {}, blocks)
    BY <1>3 DEF Tidy
  <2>2. {} \cup {} = {}
    OBVIOUS
  <2> QED BY <2>1, <2>2 DEF Linked
<1>5. CASE blocks' = blocks
  BY <1>4, <1>5
<1>6. CASE blocks' # blocks
  <2> DEFINE us == [i \in DOMAIN blocks |->
                      IF HasFlow(i - 1) THEN blocks[i]
                      ELSE [blocks[i] EXCEPT !.out = ReturnOf("nothing")]]
  <2>1. blocks' = us
    BY <1>6 DEF GenProcEnd
  <2>2. /\ IdsOf(us) = IdsOf(blocks)
        /\ \A b \in IdsOf(blocks) :
             us[b + 1].out = IF HasFlow(b) THEN blocks[b + 1].out ELSE ReturnOf("nothing")
    BY <1>2, ReturnsSet
  <2> HIDE DEF us
  <2>3. \A b \in IdsOf(blocks) : \/ us[b + 1].out = blocks[b + 1].out
                                 \/ blocks[b + 1].out = NoFlow /\ us[b + 1].out = ReturnOf("nothing")
    BY <2>2 DEF HasFlow, Out
  <2>4. \A b \in IdsOf(blocks) : To(us, b) = To(blocks, b)
    BY <2>3, FlowIs DEF To
  <2>5. \A b \in IdsOf(blocks) : Branches(us, b) => us[b + 1].out = blocks[b + 1].out /\ Branches(blocks, b)
    BY <2>3, FlowIs DEF Branches
  <2>6. \A b, t : Lone(blocks, b, t) => Lone(us, b, t)
    BY <2>2, <2>4 DEF Lone
  <2>7. \A V, t : Gate(blocks, t, V) => Gate(us, t, V)
    BY <2>2, <2>4 DEF Gate
  <2>8. \A b, t, L : Gated(blocks, b, t, L) => Gated(us, b, t, L)
    BY <2>7 DEF Gated
  <2>9. Sealed(us, {})
    BY <1>4, <2>2, <2>5, <2>6, <2>8 DEF Sealed, Splits
  <2> QED BY <2>1, <2>9
<1> QED BY <1>5, <1>6

-----------------------------------------------------------------------------
\* The blocks wait to be written one time each.
Unrepeated(q) == \A i, j \in 1 .. Len(q) : q[i] = q[j] => i = j

Distinct(ts) ==
  /\ \A i \in 1 .. Len(ts) : Unrepeated(ts[i])
  /\ \A i, j \in 1 .. Len(ts) : i # j => Elements(ts[i]) \cap Elements(ts[j]) = {}

LEMMA UnrepeatedEmpty == Unrepeated(<<>>)
<1>1. \A i \in 1 .. Len(<<>>) : FALSE
  OBVIOUS
<1> QED BY <1>1 DEF Unrepeated

LEMMA UnrepeatedAppend ==
  ASSUME NEW q, Listed(q), Unrepeated(q), NEW x, x \notin Elements(q)
  PROVE  /\ Unrepeated(Append(q, x)) /\ Listed(Append(q, x))
         /\ Elements(Append(q, x)) = Elements(q) \cup {x}
<1> DEFINE r == Append(q, x)
           n == Len(q)
<1>1. /\ Listed(r) /\ Len(r) = n + 1 /\ r[n + 1] = x /\ n \in Nat /\ DOMAIN q = 1 .. n
      /\ \A i \in 1 .. n : r[i] = q[i]
  BY ListedAppend, ListedIs
<1> HIDE DEF r, n
<1>2. DOMAIN r = 1 .. n + 1
  BY <1>1, ListedIs
<1>3. \A i \in 1 .. n + 1 : i = n + 1 \/ i \in 1 .. n
  BY <1>1
<1>4. n + 1 \in 1 .. n + 1 /\ (\A i \in 1 .. n : i \in 1 .. n + 1) /\ n + 1 \notin 1 .. n
  BY <1>1
<1>5. \A i \in 1 .. n : q[i] \in Elements(q) /\ q[i] # x
  BY <1>1 DEF Elements
<1>6. \A i, j \in 1 .. n : q[i] = q[j] => i = j
  BY DEF Unrepeated, n
<1>7. Unrepeated(r)
  BY <1>1, <1>3, <1>5, <1>6 DEF Unrepeated
<1>8. Elements(r) \subseteq Elements(q) \cup {x}
  BY <1>1, <1>2, <1>3, <1>5 DEF Elements
<1>9. Elements(q) \cup {x} \subseteq Elements(r)
  BY <1>1, <1>2, <1>4 DEF Elements
<1> QED BY <1>1, <1>7, <1>8, <1>9 DEF r

LEMMA UnrepeatedTail ==
  ASSUME NEW q, Listed(q), q # <<>>
  PROVE  /\ Listed(Tail(q)) /\ Elements(q) = {First(q)} \cup Elements(Tail(q))
         /\ Unrepeated(q) => Unrepeated(Tail(q)) /\ First(q) \notin Elements(Tail(q))
<1> DEFINE r == Tail(q)
           n == Len(q)
           x == First(q)
<1>1. /\ Listed(r) /\ Len(r) = n - 1 /\ x = q[1] /\ 1 \in 1 .. n /\ n \in Nat
      /\ DOMAIN q = 1 .. n /\ \A i \in 1 .. n - 1 : r[i] = q[i + 1]
  BY ListedTail, ListedIs DEF First
<1> HIDE DEF r, n, x
<1>2. DOMAIN r = 1 .. n - 1
  BY <1>1, ListedIs
<1>3. \A i \in 1 .. n - 1 : i + 1 \in 1 .. n /\ i + 1 # 1 /\ r[i] = q[i + 1]
  BY <1>1
<1>4. \A i \in 1 .. n : i # 1 => i - 1 \in 1 .. n - 1 /\ q[i] = r[i - 1]
  <2>1. ASSUME NEW i \in 1 .. n, i # 1 PROVE i - 1 \in 1 .. n - 1 /\ q[i] = r[i - 1]
    <3>1. i - 1 \in 1 .. n - 1 /\ (i - 1) + 1 = i
      BY <1>1, <2>1
    <3>2. r[i - 1] = q[(i - 1) + 1]
      BY <1>1, <3>1
    <3> QED BY <3>1, <3>2
  <2> QED BY <2>1
<1>5. Elements(q) \subseteq {x} \cup Elements(r)
  <2>1. SUFFICES ASSUME NEW i \in 1 .. n PROVE q[i] \in {x} \cup Elements(r)
    BY <1>1 DEF Elements
  <2>2. i # 1 => q[i] \in Elements(r)
    BY <1>2, <1>4 DEF Elements
  <2> QED BY <1>1, <2>2
<1>6. {x} \cup Elements(r) \subseteq Elements(q)
  BY <1>1, <1>2, <1>3 DEF Elements
<1>7. ASSUME Unrepeated(q) PROVE Unrepeated(r) /\ x \notin Elements(r)
  <2>1. \A i, j \in 1 .. n : q[i] = q[j] => i = j
    BY <1>7 DEF Unrepeated, n
  <2>2. x \notin Elements(r)
    BY <1>1, <1>2, <1>3, <2>1 DEF Elements
  <2>3. ASSUME NEW i \in 1 .. n - 1, NEW j \in 1 .. n - 1, r[i] = r[j] PROVE i = j
    <3>1. i + 1 = j + 1
      BY <1>3, <2>1, <2>3
    <3> QED BY <3>1
  <2> QED BY <1>1, <2>2, <2>3 DEF Unrepeated
<1> QED BY <1>1, <1>5, <1>6, <1>7 DEF r, x

LEMMA DistinctPush ==
  ASSUME NEW ts, Listed(ts), NEW q
  PROVE  Distinct(Push(q, ts)) <=> /\ Unrepeated(q) /\ Elements(q) \cap Pending(ts) = {}
                                   /\ Distinct(ts)
<1> DEFINE n == Len(ts)
           v == Push(q, ts)
<1>1. /\ Listed(v) /\ Len(v) = n + 1 /\ n \in Nat /\ v[1] = q
      /\ \A i \in 1 .. n : v[i + 1] = ts[i]
  BY ListedPush, ListedIs DEF Push
<1> HIDE DEF n, v
<1>2. \A i \in 1 .. n + 1 : i = 1 \/ (i - 1 \in 1 .. n /\ v[i] = ts[i - 1])
  <2>1. ASSUME NEW i \in 1 .. n + 1, i # 1 PROVE i - 1 \in 1 .. n /\ v[i] = ts[i - 1]
    <3>1. i - 1 \in 1 .. n /\ (i - 1) + 1 = i
      BY <1>1, <2>1
    <3>2. v[(i - 1) + 1] = ts[i - 1]
      BY <1>1, <3>1
    <3> QED BY <3>1, <3>2
  <2> QED BY <2>1
<1>3. 1 \in 1 .. n + 1 /\ \A i \in 1 .. n : i + 1 \in 1 .. n + 1 /\ i + 1 # 1 /\ v[i + 1] = ts[i]
  BY <1>1
<1>4. Pending(ts) = UNION {Elements(ts[i]) : i \in 1 .. n}
  BY DEF Pending, n
<1>5. ASSUME Distinct(v)
      PROVE  Unrepeated(q) /\ Elements(q) \cap Pending(ts) = {} /\ Distinct(ts)
  <2>1. /\ \A i \in 1 .. n + 1 : Unrepeated(v[i])
        /\ \A i, j \in 1 .. n + 1 : i # j => Elements(v[i]) \cap Elements(v[j]) = {}
    BY <1>1, <1>5 DEF Distinct
  <2>2. Unrepeated(q) /\ \A i \in 1 .. n : Unrepeated(ts[i])
    BY <1>1, <1>3, <2>1
  <2>3. \A i \in 1 .. n : Elements(q) \cap Elements(ts[i]) = {}
    BY <1>1, <1>3, <2>1
  <2>4. ASSUME NEW i \in 1 .. n, NEW j \in 1 .. n, i # j
        PROVE  Elements(ts[i]) \cap Elements(ts[j]) = {}
    <3>1. i + 1 # j + 1
      BY <2>4
    <3> QED BY <1>3, <2>1, <3>1
  <2> QED BY <1>4, <2>2, <2>3, <2>4 DEF Distinct, n
<1>6. ASSUME Unrepeated(q), Elements(q) \cap Pending(ts) = {}, Distinct(ts)
      PROVE  Distinct(v)
  <2>1. /\ \A i \in 1 .. n : Unrepeated(ts[i])
        /\ \A i, j \in 1 .. n : i # j => Elements(ts[i]) \cap Elements(ts[j]) = {}
    BY <1>6 DEF Distinct, n
  <2>2. \A i \in 1 .. n : Elements(q) \cap Elements(ts[i]) = {}
    BY <1>4, <1>6
  <2>3. \A i \in 1 .. n + 1 : Unrepeated(v[i])
    BY <1>1, <1>2, <1>6, <2>1
  <2>4. ASSUME NEW i \in 1 .. n + 1, NEW j \in 1 .. n + 1, i # j
        PROVE  Elements(v[i]) \cap Elements(v[j]) = {}
    <3>1. CASE i = 1
      <4>1. j - 1 \in 1 .. n /\ v[j] = ts[j - 1] /\ v[i] = q
        BY <1>1, <1>2, <2>4, <3>1
      <4> QED BY <2>2, <4>1
    <3>2. CASE j = 1
      <4>1. i - 1 \in 1 .. n /\ v[i] = ts[i - 1] /\ v[j] = q
        BY <1>1, <1>2, <2>4, <3>2
      <4> QED BY <2>2, <4>1
    <3>3. CASE i # 1 /\ j # 1
      <4>1. i - 1 \in 1 .. n /\ v[i] = ts[i - 1] /\ j - 1 \in 1 .. n /\ v[j] = ts[j - 1]
        BY <1>2, <3>3
      <4>2. i - 1 # j - 1
        BY <2>4
      <4> QED BY <2>1, <4>1, <4>2
    <3> QED BY <3>1, <3>2, <3>3
  <2> QED BY <1>1, <2>3, <2>4 DEF Distinct
<1> QED BY <1>5, <1>6 DEF v

LEMMA QueueTop ==
  ASSUME NEW bs, NEW ts, Queues(bs, ts), ts # <<>>
  PROVE  /\ ts = Push(First(ts), Tail(ts)) /\ Listed(Tail(ts))
         /\ Distinct(ts) => /\ Unrepeated(First(ts)) /\ Distinct(Tail(ts))
                            /\ Elements(First(ts)) \cap Pending(Tail(ts)) = {}
<1> DEFINE q == First(ts)
           v == Tail(ts)
<1>1. ts = Push(q, v) /\ Listed(v)
  BY ListedTail DEF Queues, Push, First
<1> HIDE DEF q, v
<1>2. Distinct(Push(q, v)) <=> Unrepeated(q) /\ Elements(q) \cap Pending(v) = {} /\ Distinct(v)
  BY <1>1, DistinctPush
<1> QED BY <1>1, <1>2 DEF q, v

-----------------------------------------------------------------------------
\* The order of writing: what is next and what waits is not written, was led to
\* from what is, and waits but for the one block that leads to it.
Order(bs, vs, nx, ts) ==
  /\ nx \notin vs /\ Distinct(ts)
  /\ \A x \in vs \cup {nx} \cup Pending(ts) : x = 0 \/ x = Nil \/ \E y \in vs : x \in To(bs, y)
  /\ \A x \in Pending(ts) : /\ x \notin vs \cup {nx}
                            /\ \E y \in vs : x \in To(bs, y) /\ Lone(bs, y, x)
  /\ \A V, t : Gate(bs, t, V) => vs \subseteq V \/ t \in vs

\* Block nx is written, and b is next; X are those that wait from now on.
LEMMA OrderStep ==
  ASSUME NEW bs, NEW vs, NEW nx, NEW ts, Order(bs, vs, nx, ts), Nil \notin IdsOf(bs),
         vs \subseteq IdsOf(bs), nx \in IdsOf(bs),
         NEW b, b = Nil \/ (b \in To(bs, nx) /\ b \notin vs \cup {nx} \cup Pending(ts)),
         NEW X, X \subseteq To(bs, nx), \A x \in X : Lone(bs, nx, x) /\ x # b,
         X \cap (vs \cup {nx}) = {},
         NEW ts2, Pending(ts2) = Pending(ts) \cup X, Nil \notin Pending(ts2), Distinct(ts2)
  PROVE  Order(bs, vs \cup {nx}, b, ts2)
<1> DEFINE us == vs \cup {nx}
<1>1. /\ nx \notin vs
      /\ \A x \in vs \cup {nx} \cup Pending(ts) : x = 0 \/ x = Nil \/ \E y \in vs : x \in To(bs, y)
      /\ \A x \in Pending(ts) : /\ x \notin vs \cup {nx}
                                /\ \E y \in vs : x \in To(bs, y) /\ Lone(bs, y, x)
      /\ \A V, t : Gate(bs, t, V) => vs \subseteq V \/ t \in vs
  BY DEF Order
<1>2. b \notin us
  OBVIOUS
<1>3. \A x \in us \cup {b} \cup Pending(ts2) : x = 0 \/ x = Nil \/ \E y \in us : x \in To(bs, y)
  BY <1>1
<1>4. \A x \in Pending(ts2) : x \notin us \cup {b} /\ \E y \in us : x \in To(bs, y) /\ Lone(bs, y, x)
  BY <1>1
<1>5. ASSUME NEW V, NEW t, Gate(bs, t, V) PROVE us \subseteq V \/ t \in us
  <2>1. 0 \in V /\ \A y \in IdsOf(bs) : y \in V => To(bs, y) \subseteq V \cup {t}
    BY <1>5 DEF Gate
  <2>2. CASE t \in vs
    BY <2>2
  <2>3. CASE vs \subseteq V
    <3>1. nx \in V \cup {t}
      BY <1>1, <2>1, <2>3
    <3> QED BY <2>3, <3>1
  <2> QED BY <1>1, <1>5, <2>2, <2>3
<1> HIDE DEF us
<1>6. Order(bs, us, b, ts2)
  BY <1>2, <1>3, <1>4, <1>5 DEF Order
<1> QED BY <1>6 DEF us

\* What one block leads to is met first from there.
LEMMA LoneUnmet ==
  ASSUME NEW bs, NEW vs, NEW nx, NEW ts, Order(bs, vs, nx, ts), NEW x, Lone(bs, nx, x), x # Nil,
         vs \subseteq IdsOf(bs)
  PROVE  x \notin vs \cup {nx} \cup Pending(ts)
BY DEF Order, Lone

\* What waits is not led to from elsewhere.
LEMMA LedToUnmet ==
  ASSUME NEW bs, NEW vs, NEW nx, NEW ts, Order(bs, vs, nx, ts), nx \in IdsOf(bs),
         NEW x \in To(bs, nx)
  PROVE  x \notin Pending(ts)
BY DEF Order, Lone

\* A gate is passed before what is behind it.
LEMMA GateMet ==
  ASSUME NEW bs, NEW vs, NEW nx, NEW ts, Order(bs, vs, nx, ts), nx # Nil, vs \subseteq IdsOf(bs),
         NEW t, Gated(bs, nx, t, {})
  PROVE  t \in vs \cup {nx}
<1>1. PICK V : Gate(bs, t, V) /\ nx \notin V
  BY DEF Gated
<1>2. 0 \in V /\ \A y \in IdsOf(bs) : y \in V => To(bs, y) \subseteq V \cup {t}
  BY <1>1 DEF Gate
<1>3. CASE t \in vs
  BY <1>3
<1>4. CASE vs \subseteq V
  <2>1. nx = 0 \/ \E y \in vs : nx \in To(bs, y)
    BY DEF Order
  <2>2. nx # 0
    BY <1>1, <1>2
  <2>3. PICK y \in vs : nx \in To(bs, y)
    BY <2>1, <2>2
  <2> QED BY <1>1, <1>2, <1>4, <2>3
<1> QED BY <1>1, <1>3, <1>4 DEF Order

OrderAgain == phase' = "writing" /\ cfVars' = cfVars /\ Order(blocks', visited', next', trues')

\* The queue q gets X.
Enqueues(q, r, X) ==
  \/ r = q /\ X = {}
  \/ \E x : X = {x} /\ x \notin Elements(q) /\ r = Append(q, x)

LEMMA WriteBlockOrder ==
  ASSUME NEW M, Stands(M), Laid(blocks, lines, visited, next, trues),
         Order(blocks, visited, next, trues), phase = "writing", next # Nil,
         NEW last, NEW b, NEW q, WriteBlock(last, b, q),
         b = Nil \/ (b \in To(blocks, next) /\ b \notin visited \cup {next} \cup Pending(trues)),
         NEW X, Enqueues(First(trues), q, X), X \subseteq To(blocks, next),
         \A x \in X : Lone(blocks, next, x) /\ x # b,
         X \cap (visited \cup {next} \cup Pending(trues)) = {}
  PROVE  OrderAgain
<1> DEFINE q0 == First(trues)
           v == Tail(trues)
           ts == Push(q, v)
<1>1. next \notin visited /\ Distinct(trues)
  BY DEF Order
<1>2. /\ visited' = visited \cup {next} /\ next' = b /\ cfVars' = cfVars /\ trues' = ts
  BY <1>1 DEF WriteBlock, Push
<1>3. blocks' = blocks /\ phase' = "writing"
  BY <1>2 DEF cfVars
<1>4. /\ next \in IdsOf(blocks) /\ visited \subseteq IdsOf(blocks) /\ Made(blocks)
      /\ Queues(blocks, trues) /\ trues # <<>>
  BY DEF Laid, Stands
<1>5. Nil \notin IdsOf(blocks) /\ To(blocks, next) \subseteq IdsOf(blocks)
  <2>1. Nil \notin IdsOf(blocks)
    BY <1>4, MadeIs DEF Nil
  <2> QED BY <1>4, <2>1, TargetsIn
<1>6. /\ Queues(blocks, v) /\ Listed(q0) /\ Elements(q0) \subseteq IdsOf(blocks)
      /\ Pending(trues) = Elements(q0) \cup Pending(v)
  BY <1>4, QueuesPop
<1>7. /\ Listed(v) /\ Unrepeated(q0) /\ Distinct(v) /\ Elements(q0) \cap Pending(v) = {}
  BY <1>1, <1>4, QueueTop
<1>8. Enqueues(q0, q, X)
  OBVIOUS
<1> HIDE DEF q0, v, ts
<1>9. Listed(q) /\ Unrepeated(q) /\ Elements(q) = Elements(q0) \cup X
  <2>1. CASE q = q0 /\ X = {}
    BY <1>6, <1>7, <2>1
  <2>2. CASE ~(q = q0 /\ X = {})
    <3>1. PICK x : X = {x} /\ x \notin Elements(q0) /\ q = Append(q0, x)
      BY <1>8, <2>2 DEF Enqueues
    <3> QED BY <1>6, <1>7, <3>1, UnrepeatedAppend
  <2> QED BY <2>1, <2>2
<1>10. Elements(q) \subseteq IdsOf(blocks)
  BY <1>5, <1>6, <1>9
<1>11. Pending(ts) = Elements(q) \cup Pending(v)
  BY <1>6, <1>9, <1>10, QueuesPush DEF ts
<1>12. Pending(ts) = Pending(trues) \cup X
  BY <1>6, <1>9, <1>11
<1>13. Distinct(ts)
  <2>1. Elements(q) \cap Pending(v) = {}
    BY <1>6, <1>7, <1>9
  <2> QED BY <1>7, <1>9, <2>1, DistinctPush DEF ts
<1>14. Nil \notin Pending(ts)
  <2>1. Pending(v) \subseteq IdsOf(blocks)
    BY <1>6 DEF Queues, Pending
  <2> QED BY <1>5, <1>10, <1>11, <2>1
<1>15. Order(blocks, visited \cup {next}, b, ts)
  <2>1. X \cap (visited \cup {next}) = {}
    OBVIOUS
  <2> QED BY <1>4, <1>5, <1>12, <1>13, <1>14, <2>1, OrderStep
<1> QED BY <1>2, <1>3, <1>15 DEF OrderAgain

LEMMA GenLeaveOrder ==
  ASSUME NEW M, Stands(M), Laid(blocks, lines, visited, next, trues),
         Order(blocks, visited, next, trues), GenLeave
  PROVE  OrderAgain
<1> DEFINE q == First(trues)
           X == {}
           last == <<Leave(Out(next))>>
<1>1. phase = "writing" /\ next # Nil /\ WriteBlock(last, Nil, q)
  BY DEF GenLeave, AtBlock, First
<1>2. Enqueues(q, q, X)
  BY DEF Enqueues
<1>3. X \subseteq To(blocks, next) /\ (\A x \in X : Lone(blocks, next, x) /\ x # Nil)
      /\ X \cap (visited \cup {next} \cup Pending(trues)) = {}
  OBVIOUS
<1> HIDE DEF X, last
<1> QED BY <1>1, <1>2, <1>3, WriteBlockOrder

LEMMA GenJmpOrder ==
  ASSUME NEW M, Stands(M), Laid(blocks, lines, visited, next, trues),
         Order(blocks, visited, next, trues), GenJmp
  PROVE  OrderAgain
<1> DEFINE q == First(trues)
           X == {}
           t == Out(next).true
           last == IF IsVisited(t) THEN <<JmpLine(t)>> ELSE <<>>
           b == IF IsVisited(t) THEN Nil ELSE t
<1>1. phase = "writing" /\ next # Nil /\ Out(next).t = "jmp" /\ WriteBlock(last, b, q)
  BY DEF GenJmp, AtBlock, First
<1>2. Enqueues(q, q, X)
  BY DEF Enqueues
<1>3. X \subseteq To(blocks, next) /\ (\A x \in X : Lone(blocks, next, x) /\ x # b)
      /\ X \cap (visited \cup {next} \cup Pending(trues)) = {}
  OBVIOUS
<1>4. next \in IdsOf(blocks)
  BY <1>1 DEF Laid
<1>5. t \in To(blocks, next)
  BY <1>1, <1>4, TargetsIn DEF To, TargetsOf
<1> HIDE DEF X, last
<1>6. b = Nil \/ (b \in To(blocks, next) /\ b \notin visited \cup {next} \cup Pending(trues))
  <2>1. t \notin Pending(trues)
    BY <1>4, <1>5, LedToUnmet
  <2> QED BY <1>5, <2>1 DEF IsVisited
<1> HIDE DEF b
<1> QED BY <1>1, <1>2, <1>3, <1>6, WriteBlockOrder

LEMMA GenBranchOrder ==
  ASSUME NEW M, Stands(M), Laid(blocks, lines, visited, next, trues),
         Order(blocks, visited, next, trues), Sealed(blocks, {}), GenBranch
  PROVE  OrderAgain
<1> DEFINE o == Out(next)
           last == <<CondJmp(o.e, o.true)>>
           q0 == First(trues)
           q == IF IsVisited(o.true) THEN q0 ELSE Append(q0, o.true)
           X == IF IsVisited(o.true) THEN {} ELSE {o.true}
           b == o.false
<1>1. phase = "writing" /\ next # Nil /\ o.t = "branch" /\ WriteBlock(last, b, q)
  BY DEF GenBranch, AtBlock, First
<1>2. next \in IdsOf(blocks) /\ visited \subseteq IdsOf(blocks) /\ Made(blocks)
      /\ Queues(blocks, trues) /\ trues # <<>>
  BY <1>1 DEF Laid, Stands
<1>3. o = blocks[next + 1].out /\ To(blocks, next) \subseteq IdsOf(blocks) /\ Nil \notin IdsOf(blocks)
  <2>1. Nil \notin IdsOf(blocks)
    BY <1>2, MadeIs DEF Nil
  <2> QED BY <1>2, <2>1, TargetsIn
<1>4. Branches(blocks, next) /\ To(blocks, next) = {o.true, o.false}
      /\ o.true # Nil /\ o.false # Nil
  BY <1>1, <1>3, BranchTargets DEF Branches
<1>5. /\ o.true # o.false /\ Lone(blocks, next, o.false)
      /\ Lone(blocks, next, o.true) \/ Gated(blocks, next, o.true, {})
  BY <1>2, <1>3, <1>4 DEF Sealed, Splits
<1>6. Elements(q0) \subseteq Pending(trues)
  BY <1>2, QueuesPop
<1> HIDE DEF o, q0, last
<1>7. b \in To(blocks, next) /\ b \notin visited \cup {next} \cup Pending(trues)
  BY <1>2, <1>4, <1>5, LoneUnmet
<1>8. ASSUME ~IsVisited(o.true)
      PROVE  Lone(blocks, next, o.true) /\ o.true \notin visited \cup {next} \cup Pending(trues)
  <2>1. ~Gated(blocks, next, o.true, {})
    BY <1>1, <1>2, <1>8, GateMet DEF IsVisited
  <2> QED BY <1>2, <1>4, <1>5, <2>1, LoneUnmet
<1>9. Enqueues(q0, q, X)
  <2>1. CASE IsVisited(o.true)
    BY <2>1 DEF Enqueues
  <2>2. CASE ~IsVisited(o.true)
    <3>1. o.true \notin Elements(q0)
      BY <1>6, <1>8, <2>2
    <3> QED BY <2>2, <3>1 DEF Enqueues
  <2> QED BY <2>1, <2>2
<1>10. X \subseteq To(blocks, next) /\ (\A x \in X : Lone(blocks, next, x) /\ x # b)
       /\ X \cap (visited \cup {next} \cup Pending(trues)) = {}
  BY <1>4, <1>5, <1>8
<1> HIDE DEF q, X, b
<1> QED BY <1>1, <1>7, <1>9, <1>10, WriteBlockOrder DEF q0

LEMMA PendingNone == Pending(<<>>) = {} /\ Distinct(<<>>)
<1>1. Len(<<>>) = 0 /\ \A i \in 1 .. 0 : FALSE
  OBVIOUS
<1> DEFINE none == <<>>
<1>2. Len(none) = 0
  BY <1>1
<1> HIDE DEF none
<1>3. Pending(none) = {} /\ Distinct(none)
  BY <1>1, <1>2 DEF Pending, Distinct
<1> QED BY <1>3 DEF none

LEMMA GenBlocksOrder ==
  ASSUME NEW M, Stands(M), visited = {}, GenBlocks
  PROVE  phase' = "writing" /\ Order(blocks', visited', next', trues')
<1> DEFINE none == <<>>
           ts == Push(none, none)
<1>1. /\ next' = 0 /\ trues' = ts /\ visited' = {} /\ blocks' = blocks /\ phase' = "writing"
  BY ListedOne, JoinEmpty DEF GenBlocks, Push
<1>2. Listed(none) /\ Pending(none) = {} /\ Distinct(none) /\ Unrepeated(none) /\ Elements(none) = {}
  BY ListedEmpty, PendingNone, UnrepeatedEmpty
<1> HIDE DEF none
<1>3. Distinct(ts)
  BY <1>2, DistinctPush
<1>4. Pending(ts) = {}
  <2>1. Queues(blocks, none)
    <3>1. Len(none) = 0 /\ \A i \in 1 .. 0 : FALSE
      BY DEF none
    <3> QED BY <1>2, <3>1 DEF Queues
  <2>2. Elements(none) \subseteq IdsOf(blocks)
    BY <1>2
  <2> QED BY <1>2, <2>1, <2>2, QueuesPush
<1> HIDE DEF ts
<1>5. Order(blocks, {}, 0, ts)
  BY <1>3, <1>4 DEF Order
<1> QED BY <1>1, <1>5

LEMMA NextTrueBranchOrder ==
  ASSUME NEW M, Stands(M), Laid(blocks, lines, visited, next, trues),
         Order(blocks, visited, next, trues), NextTrueBranch
  PROVE  OrderAgain
<1> DEFINE q == First(trues)
           v == Tail(trues)
<1>1. /\ next = Nil /\ trues # <<>> /\ visited' = visited /\ phase = "writing"
      /\ blocks' = blocks /\ cfVars' = cfVars /\ phase' = phase
      /\ q = <<>> => trues' = v /\ next' = Nil
      /\ q # <<>> => /\ next' = First(q)
                     /\ trues' = <<<<>>, Tail(q)>> \o v
  BY DEF NextTrueBranch, cfVars, First
<1>2. Queues(blocks, trues)
  BY DEF Laid
<1>3. /\ Queues(blocks, v) /\ Listed(q) /\ Elements(q) \subseteq IdsOf(blocks)
      /\ Pending(trues) = Elements(q) \cup Pending(v) /\ Listed(v)
  BY <1>1, <1>2, QueuesPop DEF Queues
<1>4. /\ Nil \notin visited /\ Distinct(trues)
      /\ \A x \in visited \cup {Nil} \cup Pending(trues) : x = 0 \/ x = Nil \/ \E y \in visited : x \in To(blocks, y)
      /\ \A x \in Pending(trues) : /\ x \notin visited \cup {Nil}
                                   /\ \E y \in visited : x \in To(blocks, y) /\ Lone(blocks, y, x)
      /\ \A V, t : Gate(blocks, t, V) => visited \subseteq V \/ t \in visited
  BY <1>1 DEF Order
<1>5. Unrepeated(q) /\ Distinct(v) /\ Elements(q) \cap Pending(v) = {}
  BY <1>1, <1>2, <1>4, QueueTop
<1> HIDE DEF q, v
<1>6. CASE q = <<>>
  <2>1. Pending(trues) = Pending(v)
    BY <1>3, <1>6, ListedEmpty
  <2>2. Order(blocks, visited, Nil, v)
    BY <1>4, <1>5, <2>1 DEF Order
  <2> QED BY <1>1, <1>6, <2>2 DEF OrderAgain
<1>7. CASE q # <<>>
  <2> DEFINE b == First(q)
             r == Tail(q)
             u == Push(r, v)
             none == <<>>
             ts == Push(none, u)
  <2>1. Listed(r) /\ Elements(q) = {b} \cup Elements(r) /\ Unrepeated(r) /\ b \notin Elements(r)
    BY <1>3, <1>5, <1>7, UnrepeatedTail
  <2>2. Listed(none) /\ Unrepeated(none) /\ Elements(none) = {}
    BY ListedEmpty, UnrepeatedEmpty
  <2>3. trues' = ts
    <3> HIDE DEF r
    <3>1. <<<<>>, r>> \o v = Push(<<>>, Push(r, v))
      BY <1>3, PushTwo
    <3> QED BY <1>1, <1>7, <3>1 DEF r
  <2> HIDE DEF none, r, b
  <2>4. Queues(blocks, u) /\ Pending(u) = Elements(r) \cup Pending(v) /\ Listed(u)
    BY <1>3, <2>1, QueuesPush DEF Queues
  <2>5. Distinct(u)
    BY <1>3, <1>5, <2>1, DistinctPush
  <2> HIDE DEF u
  <2>6. Distinct(ts) /\ Pending(ts) = Pending(u)
    <3>1. Elements(none) \subseteq IdsOf(blocks)
      BY <2>2
    <3>2. Pending(ts) = Elements(none) \cup Pending(u)
      BY <2>2, <2>4, <3>1, QueuesPush
    <3>3. Distinct(ts)
      BY <2>2, <2>4, <2>5, DistinctPush
    <3> QED BY <2>2, <3>2, <3>3
  <2> HIDE DEF ts
  <2>7. Pending(trues) = {b} \cup Pending(ts) /\ b \notin Pending(ts)
    BY <1>3, <1>5, <2>1, <2>4, <2>6
  <2>8. Order(blocks, visited, b, ts)
    <3>1. b \notin visited /\ Distinct(ts)
      BY <1>4, <2>6, <2>7
    <3>2. \A x \in visited \cup {b} \cup Pending(ts) : x = 0 \/ x = Nil \/ \E y \in visited : x \in To(blocks, y)
      BY <1>4, <2>7
    <3>3. \A x \in Pending(ts) : /\ x \notin visited \cup {b}
                                 /\ \E y \in visited : x \in To(blocks, y) /\ Lone(blocks, y, x)
      BY <1>4, <2>7
    <3> QED BY <1>4, <3>1, <3>2, <3>3 DEF Order
  <2>9. next' = b
    BY <1>1, <1>7 DEF b
  <2> QED BY <1>1, <2>3, <2>8, <2>9 DEF OrderAgain
<1> QED BY <1>6, <1>7

-----------------------------------------------------------------------------
\* All along: what has two ways out is split right, and is written in order.
Tight ==
  /\ phase = "gen" => Tidy(work, blocks, curr)
  /\ phase \in {"gen", "generated", "checked"} => next = Nil
  /\ phase \in {"generated", "checked", "writing"} => Sealed(blocks, {})
  /\ phase = "writing" => Order(blocks, visited, next, trues)
  /\ phase \notin {"gen", "panicked"} => work = <<>> /\ curr \in IdsOf(blocks) \cup {Nil}
  /\ phase # "revisited"

LEMMA TightFirst == Init => Tight
<1>1. SUFFICES ASSUME Init PROVE Tight
  OBVIOUS
<1>2. phase = "gen" /\ next = Nil /\ Tidy(work, blocks, curr)
  BY <1>1, TidyFirst DEF Init, CFInit, BOInit
<1> QED BY <1>2 DEF Tight

LEMMA TightUnchanged ==
  ASSUME Tight, UNCHANGED vars
  PROVE  Tight'
<1>1. /\ phase' = phase /\ work' = work /\ blocks' = blocks /\ curr' = curr
      /\ visited' = visited /\ next' = next /\ trues' = trues
  BY DEF vars, cfVars, boVars
<1>2. /\ Tidy(work, blocks, curr) => Tidy(work, blocks, curr)'
      /\ Sealed(blocks, {}) => Sealed(blocks, {})'
      /\ Order(blocks, visited, next, trues) => Order(blocks, visited, next, trues)'
  BY <1>1
<1> QED BY <1>1, <1>2 DEF Tight

LEMMA TightGenerator ==
  ASSUME Inv, WayKept, Tight, CFNext, UNCHANGED boVars
  PROVE  Tight'
<1>1. next' = next
  BY DEF boVars
<1>2. CASE Walks
  <2>1. phase = "gen" /\ phase' = "gen"
    BY <1>2, WalksOn
  <2>2. PICK M, ks : Gen(M, ks, work, blocks, curr)
    BY <2>1 DEF Inv, Generating
  <2>3. Tidy(work, blocks, curr) /\ next = Nil
    BY <2>1 DEF Tight
  <2>4. Tidied
    BY <2>1, <2>2, <2>3, TidyStep
  <2>5. Tidy(work, blocks, curr)'
    BY <2>4 DEF Tidied
  <2> QED BY <1>1, <2>1, <2>3, <2>5 DEF Tight
<1>3. CASE NilBlock
  <2>1. phase' = "panicked"
    BY <1>3 DEF NilBlock
  <2> QED BY <2>1 DEF Tight
<1>4. CASE GenProcEnd
  <2>1. phase = "gen" /\ phase' \in {"rejected", "generated"} /\ work = <<>> /\ work' = work /\ curr' = curr
    BY <1>4 DEF GenProcEnd
  <2>2. PICK M, ks : Gen(M, ks, work, blocks, curr) /\ M[<<0, 1>>] = Machine(proc.body, FALSE)
    BY <2>1 DEF Inv, Generating
  <2>3. Tidy(work, blocks, curr) /\ next = Nil
    BY <2>1 DEF Tight
  <2>4. Sealed(blocks, {})'
    BY <1>4, <2>2, <2>3, SealedAtEnd
  <2>5. curr \in IdsOf(blocks) \cup {Nil} /\ Made(blocks)
    BY <2>2, GenSteady DEF Steady
  <2>6. IdsOf(blocks') = IdsOf(blocks)
    <3>1. CASE blocks' = blocks
      BY <3>1
    <3>2. CASE blocks' # blocks
      <4> DEFINE us == [i \in DOMAIN blocks |->
                          IF HasFlow(i - 1) THEN blocks[i]
                          ELSE [blocks[i] EXCEPT !.out = ReturnOf("nothing")]]
      <4>1. blocks' = us
        BY <1>4, <3>2 DEF GenProcEnd
      <4>2. IdsOf(us) = IdsOf(blocks)
        BY <2>5, ReturnsSet
      <4> HIDE DEF us
      <4> QED BY <4>1, <4>2
    <3> QED BY <3>1, <3>2
  <2>7. work' = <<>> /\ curr' \in IdsOf(blocks') \cup {Nil} /\ next' = Nil
    BY <1>1, <2>1, <2>3, <2>5, <2>6
  <2> QED BY <2>1, <2>4, <2>7 DEF Tight
<1>5. CASE Check
  <2>1. /\ phase = "generated" /\ phase' \in {"checked", "refused"}
        /\ blocks' = blocks /\ work' = work /\ curr' = curr
    BY <1>5 DEF Check
  <2>2. Sealed(blocks, {}) /\ next = Nil /\ work = <<>> /\ curr \in IdsOf(blocks) \cup {Nil}
    BY <2>1 DEF Tight
  <2>3. Sealed(blocks, {})'
    BY <2>1, <2>2
  <2> QED BY <1>1, <2>1, <2>2, <2>3 DEF Tight
<1> QED BY <1>2, <1>3, <1>4, <1>5 DEF CFNext, Walks

LEMMA TightWriter ==
  ASSUME Inv, Tight, BONext
  PROVE  Tight'
<1>1. CASE GenBlocks
  <2>1. /\ phase = "checked" /\ phase' = "writing" /\ blocks' = blocks /\ work' = work /\ curr' = curr
    BY <1>1 DEF GenBlocks
  <2>2. Sealed(blocks, {}) /\ work = <<>> /\ curr \in IdsOf(blocks) \cup {Nil}
    BY <2>1 DEF Tight
  <2>3. PICK M : Stands(M)
    BY <2>1 DEF Inv, Sound
  <2>4. visited = {}
    BY <2>1 DEF Inv, Unwritten
  <2>5. Order(blocks', visited', next', trues')
    BY <1>1, <2>3, <2>4, GenBlocksOrder
  <2>6. Sealed(blocks, {})'
    BY <2>1, <2>2
  <2> QED BY <2>1, <2>2, <2>5, <2>6 DEF Tight
<1>2. CASE GenJmp \/ GenBranch \/ GenLeave \/ NextTrueBranch
  <2>1. phase = "writing"
    BY <1>2 DEF GenJmp, GenBranch, GenLeave, NextTrueBranch, AtBlock
  <2>2. Sealed(blocks, {}) /\ work = <<>> /\ curr \in IdsOf(blocks) \cup {Nil}
        /\ Order(blocks, visited, next, trues)
    BY <2>1 DEF Tight
  <2>3. PICK M : Stands(M) /\ Laid(blocks, lines, visited, next, trues)
    BY <2>1 DEF Inv, Writing, Sound
  <2>4. OrderAgain
    BY <1>2, <2>2, <2>3, GenJmpOrder, GenBranchOrder, GenLeaveOrder, NextTrueBranchOrder
  <2>5. phase' = "writing" /\ blocks' = blocks /\ work' = work /\ curr' = curr
        /\ Order(blocks', visited', next', trues')
    BY <2>4 DEF OrderAgain, cfVars
  <2>6. Sealed(blocks, {})'
    BY <2>2, <2>5
  <2> QED BY <2>2, <2>5, <2>6 DEF Tight
<1>3. CASE GenBlocksEnd
  <2>1. /\ phase = "writing" /\ phase' = "written" /\ blocks' = blocks /\ work' = work /\ curr' = curr
    BY <1>3 DEF GenBlocksEnd
  <2>2. work = <<>> /\ curr \in IdsOf(blocks) \cup {Nil}
    BY <2>1 DEF Tight
  <2> QED BY <2>1, <2>2 DEF Tight
<1> QED BY <1>1, <1>2, <1>3 DEF BONext

LEMMA TightNext ==
  ASSUME Inv, WayKept, Tight, [Next]_vars
  PROVE  Tight'
<1>1. CASE UNCHANGED vars \/ Stopped
  BY <1>1, TightUnchanged DEF Stopped
<1>2. CASE CFNext /\ UNCHANGED boVars
  BY <1>2, TightGenerator
<1>3. CASE BONext
  BY <1>3, TightWriter
<1>4. CASE Execute
  <2>1. /\ phase \in {"written", "run"} /\ phase' \in {"run", "ended"}
        /\ blocks' = blocks /\ work' = work /\ curr' = curr
    BY <1>4 DEF Execute, Start, EnterDoWhile, FollowJmp, SkipLine, Step, End, Visible, cfVars
  <2>2. work = <<>> /\ curr \in IdsOf(blocks) \cup {Nil}
    BY <2>1 DEF Tight
  <2> QED BY <2>1, <2>2 DEF Tight
<1> QED BY <1>1, <1>2, <1>3, <1>4 DEF Next, Compile

-----------------------------------------------------------------------------
\* What is there: the parts of BlocksWellMade, phase by phase.
Framed ==
  \A i \in DOMAIN work :
    CASE work[i].k \in {"true", "chain", "elseif", "else"} ->
           work[i].f \in Ids /\ work[i].outbl \in Ids \cup {Nil}
      [] work[i].k \in {"while", "dowhile"} ->
           work[i].start \in Ids /\ work[i].end \in Ids
      [] OTHER -> work[i].k = "statements"

Named ==
  /\ curr \in Ids \cup {Nil} /\ Framed
  /\ \A b \in Ids : Targets(b) \subseteq Ids
  /\ next \in Ids \cup {Nil} /\ visited \subseteq Ids

Stays == block.b \in Ids /\ at \in 1 .. Len(lines) + 1

Shaped == TypeOK /\ WrittenOnce

Working == phase \in {"gen", "generated", "checked", "writing", "written", "run"}

LEMMA IdsAre ==
  /\ Ids = IdsOf(blocks)
  /\ \A b : Targets(b) = To(blocks, b)
BY DEF Ids, IdsOf, Targets, To, TargetsOf, Out

LEMMA NoFrames ==
  ASSUME work = <<>>
  PROVE  Framed
<1>1. \A i \in DOMAIN <<>> : FALSE
  OBVIOUS
<1> QED BY <1>1 DEF Framed

LEMMA GenNamed ==
  ASSUME NEW M, NEW ks, Gen(M, ks, work, blocks, curr), next = Nil, visited = {}
  PROVE  Named
<1>1. Inner(blocks) /\ curr \in IdsOf(blocks) \cup {Nil}
  BY GenFirm, GenSteady DEF Firm, Steady
<1>2. /\ Listed(work)
      /\ \A i \in 1 .. Len(work) : FrameMeans(work[i], ks[i], ks[i + 1], M, blocks)
  BY DEF Gen, Stack
<1>3. DOMAIN work = 1 .. Len(work)
  BY <1>2, ListedIs
<1>4. ASSUME NEW fr, NEW k, NEW l, FrameMeans(fr, k, l, M, blocks)
      PROVE  /\ fr.k \in {"true", "chain", "elseif", "else"} =>
                  fr.f \in IdsOf(blocks) /\ fr.outbl \in IdsOf(blocks) \cup {Nil}
             /\ fr.k \in {"while", "dowhile"} => fr.start \in IdsOf(blocks) /\ fr.end \in IdsOf(blocks)
             /\ fr.k \in {"true", "chain", "elseif", "else", "while", "dowhile", "statements"}
  <2>1. CASE fr.k \in {"true", "elseif"}
    <3>1. IfMeans(fr, l, M, blocks)
      BY <1>4, <2>1 DEF FrameMeans
    <3> QED BY <2>1, <3>1 DEF IfMeans, Waits
  <2>2. CASE fr.k = "chain"
    <3>1. IfMeans(fr, l, M, blocks)
      BY <1>4, <2>2 DEF FrameMeans
    <3> QED BY <2>2, <3>1 DEF IfMeans, Waits
  <2>3. CASE fr.k = "else"
    <3>1. IfMeans(fr, l, M, blocks)
      BY <1>4, <2>3 DEF FrameMeans
    <3> QED BY <2>3, <3>1 DEF IfMeans, Waits
  <2>4. CASE fr.k \in {"while", "dowhile"}
    BY <1>4, <2>4 DEF FrameMeans, Waits
  <2>5. CASE fr.k \notin {"true", "elseif", "chain", "else", "while", "dowhile"}
    BY <1>4, <2>5 DEF FrameMeans
  <2> QED BY <2>1, <2>2, <2>3, <2>4, <2>5
<1>5. Framed
  <2>1. SUFFICES ASSUME NEW i \in DOMAIN work
                 PROVE  CASE work[i].k \in {"true", "chain", "elseif", "else"} ->
                               work[i].f \in Ids /\ work[i].outbl \in Ids \cup {Nil}
                          [] work[i].k \in {"while", "dowhile"} ->
                               work[i].start \in Ids /\ work[i].end \in Ids
                          [] OTHER -> work[i].k = "statements"
    BY DEF Framed
  <2> DEFINE fr == work[i]
  <2>2. FrameMeans(fr, ks[i], ks[i + 1], M, blocks)
    BY <1>2, <1>3
  <2> HIDE DEF fr
  <2>3. /\ fr.k \in {"true", "chain", "elseif", "else"} =>
             fr.f \in Ids /\ fr.outbl \in Ids \cup {Nil}
        /\ fr.k \in {"while", "dowhile"} => fr.start \in Ids /\ fr.end \in Ids
        /\ fr.k \in {"true", "chain", "elseif", "else", "while", "dowhile", "statements"}
    BY <1>4, <2>2, IdsAre
  <2> QED BY <2>3 DEF fr
<1> QED BY <1>1, <1>5, IdsAre DEF Named, Inner

\* Once it is generated.
LEMMA StandsNamed ==
  ASSUME NEW M, Stands(M), work = <<>>, curr \in IdsOf(blocks) \cup {Nil},
         next \in IdsOf(blocks) \cup {Nil}, visited \subseteq IdsOf(blocks)
  PROVE  Named
<1>1. \A b \in IdsOf(blocks) : To(blocks, b) \subseteq IdsOf(blocks)
  BY TargetsIn
<1> QED BY <1>1, IdsAre, NoFrames DEF Named

LEMMA BegunStays ==
  ASSUME Begun, 0 \in IdsOf(blocks), Listed(lines)
  PROVE  Stays
<1>1. Len(lines) \in Nat
  BY ListedIs
<1> QED BY <1>1, IdsAre DEF Begun, Stays, GoTo

LEMMA RunningStays ==
  ASSUME NEW M, Ready(M), Running(M)
  PROVE  Stays
<1>1. PICK C : /\ \E m \in C : BlockAt(M, m, block)
               /\ \E m \in C : LineAt(M, m, at)
  BY DEF Running
<1>2. block.b \in IdsOf(blocks)
  BY <1>1 DEF BlockAt
<1>3. at \in 1 .. Len(lines)
  BY <1>1, LineIs
<1>4. Len(lines) \in Nat
  BY ListedIs DEF Ready, Laid
<1> QED BY <1>2, <1>3, <1>4, IdsAre DEF Stays

LEMMA LaidOnce ==
  ASSUME Laid(blocks, lines, visited, next, trues), phase = "written" => visited = IdsOf(blocks)
  PROVE  WrittenOnce
<1>1. DOMAIN lines = 1 .. Len(lines)
  BY ListedIs DEF Laid
<1> DEFINE labels == {l \in DOMAIN lines : lines[l].op = "label"}
<1>2. \A l, m \in labels : lines[l].arg = lines[m].arg => l = m
  BY <1>1 DEF Laid
<1>3. ASSUME phase = "written" PROVE {lines[l].arg : l \in labels} = Ids
  <2>1. \A l \in labels : lines[l].arg \in IdsOf(blocks)
    BY <1>1, <1>3 DEF Laid
  <2>2. ASSUME NEW b \in IdsOf(blocks) PROVE \E l \in labels : lines[l].arg = b
    <3>1. PICK l : Written(lines, next, b, blocks[b + 1], l)
      BY <1>3 DEF Laid
    <3>2. l \in 1 .. Len(lines) /\ lines[l] = Label(b)
      BY <3>1 DEF Written
    <3>3. lines[l].op = "label" /\ lines[l].arg = b
      BY <3>2, LabelIs
    <3> QED BY <1>1, <3>2, <3>3
  <2> QED BY <2>1, <2>2, IdsAre
<1> QED BY <1>2, <1>3 DEF WrittenOnce

LEMMA NothingWritten ==
  ASSUME lines = <<>>, phase # "written"
  PROVE  WrittenOnce /\ Listed(lines)
<1>1. \A l \in DOMAIN <<>> : FALSE
  OBVIOUS
<1> QED BY <1>1, ListedEmpty DEF WrittenOnce

LEMMA WorkingShaped ==
  ASSUME Inv, Tight, Working
  PROVE  Shaped
<1>1. SUFFICES Named /\ Stays /\ WrittenOnce
  BY DEF Shaped, TypeOK, Named, Framed, Stays, Working, Compiled
<1>2. CASE phase = "gen"
  <2>1. PICK M, ks : Gen(M, ks, work, blocks, curr)
    BY <1>2 DEF Inv, Generating
  <2>2. Begun /\ lines = <<>> /\ visited = {} /\ next = Nil /\ 0 \in IdsOf(blocks)
    BY <1>2, <2>1 DEF Inv, Unwritten, Tight, Gen
  <2> QED BY <1>2, <2>1, <2>2, GenNamed, NothingWritten, BegunStays
<1>3. CASE phase \in {"generated", "checked"}
  <2>1. PICK M : Stands(M)
    BY <1>3 DEF Inv, Sound
  <2>2. /\ Begun /\ lines = <<>> /\ visited = {} /\ next = Nil /\ 0 \in IdsOf(blocks)
        /\ work = <<>> /\ curr \in IdsOf(blocks) \cup {Nil}
    BY <1>3, <2>1 DEF Inv, Unwritten, Tight, Stands
  <2>3. Named
    BY <2>1, <2>2, StandsNamed
  <2> QED BY <1>3, <2>2, <2>3, NothingWritten, BegunStays
<1>4. CASE phase = "writing"
  <2>1. PICK M : Stands(M) /\ Laid(blocks, lines, visited, next, trues)
    BY <1>4 DEF Inv, Writing, Sound
  <2>2. /\ Begun /\ work = <<>> /\ curr \in IdsOf(blocks) \cup {Nil} /\ 0 \in IdsOf(blocks)
        /\ next \in IdsOf(blocks) \cup {Nil} /\ visited \subseteq IdsOf(blocks) /\ Listed(lines)
    BY <1>4, <2>1 DEF Inv, Tight, Stands, Laid
  <2>3. Named
    BY <2>1, <2>2, StandsNamed
  <2>4. WrittenOnce
    BY <1>4, <2>1, LaidOnce
  <2> QED BY <2>2, <2>3, <2>4, BegunStays
<1>5. CASE phase \in {"written", "run"}
  <2>1. PICK M : Ready(M) /\ (phase = "written" => Begun) /\ (phase = "run" => Running(M))
    BY <1>5 DEF Inv
  <2>2. Stands(M) /\ Laid(blocks, lines, visited, next, trues) /\ visited = IdsOf(blocks)
    BY <2>1 DEF Ready
  <2>3. /\ work = <<>> /\ curr \in IdsOf(blocks) \cup {Nil} /\ 0 \in IdsOf(blocks)
        /\ next \in IdsOf(blocks) \cup {Nil} /\ visited \subseteq IdsOf(blocks) /\ Listed(lines)
    BY <1>5, <2>2 DEF Tight, Stands, Laid
  <2>4. Named
    BY <2>2, <2>3, StandsNamed
  <2>5. WrittenOnce
    BY <2>2, LaidOnce
  <2>6. Stays
    BY <1>5, <2>1, <2>3, BegunStays, RunningStays
  <2> QED BY <2>4, <2>5, <2>6
<1> QED BY <1>2, <1>3, <1>4, <1>5 DEF Working

\* And where it has stopped.
LEMMA StoppedShaped ==
  ASSUME Inv, Way, Tight, Shaped, Way', Tight', [Next]_vars, ~Working'
  PROVE  Shaped'
<1>1. /\ phase' \notin {"gen", "generated", "checked", "writing", "written", "run"}
      /\ phase' \notin {"refused", "revisited"}
  BY DEF Way, Tight, Working
<1>2. CASE UNCHANGED vars \/ Stopped
  <2>1. UNCHANGED vars
    BY <1>2 DEF Stopped
  <2>2. /\ proc' = proc /\ phase' = phase /\ work' = work /\ blocks' = blocks /\ curr' = curr
        /\ lines' = lines /\ visited' = visited /\ next' = next /\ trues' = trues
        /\ source' = source /\ block' = block /\ at' = at
    BY <2>1 DEF vars, cfVars, boVars, runVars
  <2> QED BY <2>2 DEF Shaped, TypeOK, WrittenOnce, Compiled, Ids, Targets, Out
<1>3. CASE NilBlock /\ UNCHANGED <<boVars, runVars>>
  <2>1. /\ phase' = "panicked" /\ work' = work /\ blocks' = blocks /\ curr' = curr
        /\ lines' = lines /\ visited' = visited /\ next' = next
        /\ block' = block /\ at' = at
    BY <1>3 DEF NilBlock, boVars, runVars
  <2> QED BY <2>1 DEF Shaped, TypeOK, WrittenOnce, Compiled, Ids, Targets, Out
<1>4. CASE End
  <2>1. /\ phase' = "ended" /\ work' = work /\ blocks' = blocks /\ curr' = curr
        /\ lines' = lines /\ visited' = visited /\ next' = next
        /\ block' = block /\ at' = at
    BY <1>4 DEF End, boVars, runVars
  <2> QED BY <2>1 DEF Shaped, TypeOK, WrittenOnce, Compiled, Ids, Targets, Out
<1>5. CASE GenProcEnd /\ UNCHANGED <<boVars, runVars>>
  <2>1. /\ phase = "gen" /\ phase' = "rejected"
        /\ lines' = lines /\ visited' = visited /\ next' = next
        /\ block' = block /\ at' = at /\ source' = source /\ proc' = proc
    BY <1>1, <1>5 DEF GenProcEnd, boVars, runVars
  <2>2. PICK M, ks : Gen(M, ks, work, blocks, curr) /\ M[<<0, 1>>] = Machine(proc.body, FALSE)
    BY <2>1 DEF Inv, Generating
  <2>3. Stands(M)'
    BY <1>5, <2>2, ProcEndStands
  <2>4. /\ Begun /\ lines = <<>> /\ visited = {} /\ next = Nil
    BY <2>1 DEF Inv, Unwritten, Tight
  <2>5. /\ work' = <<>> /\ curr' \in IdsOf(blocks') \cup {Nil} /\ 0 \in IdsOf(blocks')
    BY <2>1, <2>3 DEF Tight, Stands
  <2>6. Ids' = IdsOf(blocks') /\ \A b : Targets(b)' = To(blocks', b)
    BY DEF Ids, IdsOf, Targets, To, TargetsOf, Out
  <2>7. \A b \in IdsOf(blocks') : To(blocks', b) \subseteq IdsOf(blocks')
    <3>1. ASSUME NEW b \in IdsOf(blocks') PROVE TargetsOf(blocks'[b + 1].out) \subseteq IdsOf(blocks')
      <4> DEFINE o == blocks'[b + 1].out
      <4>1. Flows(M, M[<<b, Len(blocks'[b + 1].code) + 1>>], o, IdsOf(blocks'))
        BY <2>3 DEF Stands, Means
      <4>2. TargetsOf(NoFlow) = {}
        BY DEF TargetsOf, NoFlow, Flow
      <4> HIDE DEF o
      <4>3. TargetsOf(o) \subseteq IdsOf(blocks')
        BY <4>1, <4>2 DEF Flows, TargetsOf
      <4> QED BY <4>3 DEF o
    <3> QED BY <3>1 DEF To
  <2>8. \A i \in DOMAIN work' : FALSE
    <3>1. \A i \in DOMAIN <<>> : FALSE
      OBVIOUS
    <3> QED BY <2>5, <3>1
  <2>9. block' = GoTo(0) /\ at' = 1 /\ lines' = <<>> /\ visited' = {} /\ next' = Nil
    BY <2>1, <2>4 DEF Begun
  <2>10. TypeOK'
    <3>1. block'.b \in IdsOf(blocks')
      BY <2>5, <2>9 DEF GoTo
    <3>2. at' \in 1 .. Len(lines') + 1
      <4>1. 1 \in 1 .. Len(<<>>) + 1
        OBVIOUS
      <4> QED BY <2>9, <4>1
    <3>3. next' \in IdsOf(blocks') \cup {Nil} /\ visited' \subseteq IdsOf(blocks')
      BY <2>9
    <3> QED BY <2>1, <2>5, <2>6, <2>7, <2>8, <3>1, <3>2, <3>3 DEF TypeOK, Nil
  <2>11. WrittenOnce'
    <3>1. \A l \in DOMAIN lines' : FALSE
      <4>1. \A l \in DOMAIN <<>> : FALSE
        OBVIOUS
      <4> QED BY <2>9, <4>1
    <3> QED BY <2>1, <3>1 DEF WrittenOnce
  <2> QED BY <2>10, <2>11 DEF Shaped
<1>6. CASE Walks
  <2>1. phase' = "gen"
    BY <1>6, WalksOn
  <2> QED BY <1>1, <2>1
<1>7. CASE Check
  BY <1>1, <1>7 DEF Check
<1>8. CASE BONext
  <2>1. phase' \in {"writing", "written", "revisited"}
    BY <1>8 DEF BONext, GenBlocks, GenJmp, GenBranch, GenLeave, NextTrueBranch, GenBlocksEnd,
           AtBlock, WriteBlock, cfVars
  <2> QED BY <1>1, <2>1
<1>9. CASE Start \/ EnterDoWhile \/ FollowJmp \/ SkipLine \/ Step
  <2>1. phase' = "run"
    BY <1>9 DEF Start, EnterDoWhile, FollowJmp, SkipLine, Step, Visible, cfVars
  <2> QED BY <1>1, <2>1
<1> QED BY <1>2, <1>3, <1>4, <1>5, <1>6, <1>7, <1>8, <1>9 DEF Next, Compile, CFNext, Execute, Walks

LEMMA ShapedAlong ==
  ASSUME Straight
  PROVE  Spec => [](Inv /\ Way /\ Tight /\ Shaped)
<1>1. Init => Inv /\ Way /\ Tight
  BY Starts, WayFirst, TightFirst
<1>2. Init => Working
  BY DEF Init, CFInit, Working
<1>3. Inv /\ Way /\ Tight /\ [Next]_vars => (Inv /\ Way /\ Tight)'
  BY InvStep, WayNext, WayKeeps, TightNext
<1>4. Inv /\ Tight /\ Working => Shaped
  BY WorkingShaped
<1>5. Inv /\ Way /\ Tight /\ Shaped /\ Way' /\ Tight' /\ [Next]_vars => Working' \/ Shaped'
  BY StoppedShaped
<1> QED BY <1>1, <1>2, <1>3, <1>4, <1>5, PTL DEF Spec

\* Of such a procedure the passes find the blocks as they suppose: every target is
\* a block there is, the checker refuses none, gen comes to no block a second time
\* and writes each of them under one label.
THEOREM BlocksAreWellMade ==
  ASSUME Straight
  PROVE  Spec => []BlocksWellMade
<1>1. Way /\ Tight /\ Shaped => BlocksWellMade
  BY WayKeeps DEF Way, Tight, Shaped, BlocksWellMade, AssertionsHold
<1> QED BY <1>1, ShapedAlong, PTL

=============================================================================

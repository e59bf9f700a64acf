--------------------------- MODULE RegAllocProofs ---------------------------
(***************************************************************************)
(* The allocator's tables stay consistent on every block: TypeOK and       *)
(* RegisterFile are invariants for any number of registers, spill slots,   *)
(* parameter slots and values, and any set of well-formed blocks.  And the *)
(* code it emits computes what the block computes: ValuesKept and          *)
(* HomesFollow hold of every block that is Linearized and Sound, for any   *)
(* sizes, as long as there is room.                                        *)
(*                                                                         *)
(* RegisterFile is not inductive by itself.  EmitCall puts the results of  *)
(* a call into LiveValues without looking at what was there; that keeps    *)
(* the tables consistent because clearVolatiles has emptied the registers, *)
(* and it has only because its loop began with every value in a register   *)
(* on its list.  Pending says that of every loop over LiveValues.          *)
(*                                                                         *)
(* ValuesKept speaks of the times between instructions.  Follows, the      *)
(* invariant behind it, says of every point of a call, of a return and of  *)
(* the end of the block which values can still be read and where they are. *)
(***************************************************************************)
EXTENDS RegAlloc, SequenceTheorems, FiniteSetTheorems, TLAPS

-----------------------------------------------------------------------------
\* What the allocator's methods preserve: each takes a Good state to Good
\* states, for any number of registers, slots and values.  The second half
\* says what the methods do to the values themselves: which cell holds each of
\* them before and after, as long as nothing has to be evicted.

\* Typed, and with consistent register tables unless the allocator panicked.
Good(s) == s \in States /\ (s.panic = "" => RegistersAgree(s))

LEMMA ValuesFacts ==
  /\ \A v \in Values : v \in Operands /\ v # None
  /\ \A v \in Values : v.class \notin {"lit", "global", "none"}
  /\ Dead \in Places /\ Dead.place = "dead"
  /\ 0 \in Regs
<1>1. \A v \in Values : v \in Operands /\ v # None
             /\ v.class \notin {"lit", "global", "none"}
  BY DEF Values, Operands, None, Temps, Locals, Args, Temp, Var, Arg, Operand
<1>2. Dead \in Places /\ Dead.place = "dead"
  BY DEF Dead, Places, UseInfo
<1>3. 0 \in Regs
  BY AllocSizes DEF Regs
<1> QED BY <1>1, <1>2, <1>3

LEMMA PanicsFacts == "" \notin Panics
BY DEF Panics

\* The register tables are all RegistersAgree looks at.
LEMMA SameRegisters ==
  ASSUME NEW s, NEW t, RegistersAgree(s),
         t.availRegs = s.availRegs,
         t.used = s.used,
         \A v \in Values : /\ InReg(t, v) <=> InReg(s, v)
                           /\ InReg(s, v) => t.live[v].num = s.live[v].num,
         \A r \in Regs : s.used[r] \in Values \cup {None}
  PROVE  RegistersAgree(t)
<1>1. \A r \in Regs : (t.used[r] = None) <=>
           \E k \in DOMAIN t.availRegs.items : t.availRegs.items[k] = r
  BY DEF RegistersAgree
<1>2. \A r \in Regs : t.used[r] # None =>
           InReg(t, t.used[r]) /\ t.live[t.used[r]].num = r
  <2> SUFFICES ASSUME NEW r \in Regs, t.used[r] # None
               PROVE  InReg(t, t.used[r]) /\ t.live[t.used[r]].num = r
    OBVIOUS
  <2>1. s.used[r] \in Values /\ InReg(s, s.used[r]) /\ s.live[s.used[r]].num = r
    BY DEF RegistersAgree
  <2> QED BY <2>1
<1>3. \A v \in Values : InReg(t, v) => t.used[t.live[v].num] = v
  BY DEF RegistersAgree
<1>4. \A j, k \in DOMAIN t.availRegs.items :
         t.availRegs.items[j] = t.availRegs.items[k] => j = k
  BY DEF RegistersAgree
<1> QED BY <1>1, <1>2, <1>3, <1>4 DEF RegistersAgree

\* Fail only sets panic.
LEMMA FailGood ==
  ASSUME NEW s \in States, NEW why \in Panics
  PROVE  Good(Fail(s, why)) /\ Fail(s, why).panic # ""
BY PanicsFacts DEF Good, Fail, States

\* Store writes a typed token into one cell and nothing else.
LEMMA StoreGood ==
  ASSUME NEW s, Good(s), NEW from, NEW to,
         s.panic = "" => Read(s, from) \in Tokens
  PROVE  /\ Good(Store(s, from, to))
         /\ Store(s, from, to).live = s.live
         /\ Store(s, from, to).panic = s.panic
BY DEF Good, Store, States, RegistersAgree, InReg

\* Mark moves no value.
LEMMA MarkGood ==
  ASSUME NEW s, Good(s), NEW v \in Values
  PROVE  /\ Good(Mark(s, v))
         /\ Mark(s, v).panic = "" =>
              /\ s.panic = ""
              /\ \A w \in Values : /\ Mark(s, v).live[w].place = s.live[w].place
                                   /\ Mark(s, v).live[w].num = s.live[w].num
<1>1. CASE ~IsLive(s, v)
  BY <1>1, FailGood DEF Mark, Good, Panics
<1>2. CASE IsLive(s, v) /\ v.class = "temp"
  BY <1>2 DEF Mark, Good
<1>3. CASE IsLive(s, v) /\ v.class # "temp"
  <2> DEFINE t == [s EXCEPT !.live[v].mut = TRUE]
  <2>1. s.live \in [Values -> Places] /\ s.live[v] # Dead
    BY <1>3, ValuesFacts DEF Good, States, IsLive
  <2>2. [s.live[v] EXCEPT !.mut = TRUE] \in Places
    BY <1>3, <2>1 DEF Places, IsLive
  <2>3. t \in States /\ t.panic = s.panic
    BY <2>1, <2>2 DEF Good, States
  <2>4. \A w \in Values : /\ t.live[w].place = s.live[w].place
                          /\ t.live[w].num = s.live[w].num
    BY <2>1 DEF Good, States, Places
  <2>5. s.panic = "" => RegistersAgree(t)
    <3> SUFFICES ASSUME s.panic = "" PROVE RegistersAgree(t)
      OBVIOUS
    <3>1. RegistersAgree(s) BY DEF Good
    <3>2. t.availRegs = s.availRegs /\ t.used = s.used BY DEF Good, States
    <3>3. \A r \in Regs : s.used[r] \in Values \cup {None} BY DEF Good, States
    <3>4. \A w \in Values : /\ InReg(t, w) <=> InReg(s, w)
                            /\ InReg(s, w) => t.live[w].num = s.live[w].num
      BY <2>4 DEF InReg
    <3> HIDE DEF t
    <3> QED BY <3>1, <3>2, <3>3, <3>4, SameRegisters
  <2> QED BY <1>3, <2>3, <2>4, <2>5 DEF Mark, Good
<1> QED BY <1>1, <1>2, <1>3

\* Any live value holds a place of its kind.
LEMMA LiveFacts ==
  ASSUME NEW s \in States, NEW v \in Values
  PROVE  /\ s.live[v] \in Places
         /\ s.live[v].place \in {"dead", "reg", "spill", "callee"}
         /\ InReg(s, v) => s.live[v].num \in Regs
         /\ s.live[v].place = "spill" => s.live[v].num \in Spills
         /\ s.live[v].place = "callee" => s.live[v].num \in Slots
         /\ s.live[v].mut \in BOOLEAN
<1>1. s.live[v] \in Places
  BY DEF States
<1> QED BY <1>1 DEF Places, InReg

-----------------------------------------------------------------------------
\* The pools.

LEMMA PushType ==
  ASSUME NEW S, NEW st \in [items : Seq(S), floor : S], NEW n \in S
  PROVE  /\ Push(st, n) \in [items : Seq(S), floor : S]
         /\ Push(st, n).items = Append(st.items, n)
BY DEF Push

LEMMA PopType ==
  ASSUME NEW S, NEW st \in [items : Seq(S), floor : S]
  PROVE  /\ Top(st) \in S
         /\ Pop(st) \in [items : Seq(S), floor : S]
         /\ HasItems(st) =>
              /\ Len(st.items) \in 1 .. Len(st.items)
              /\ Top(st) = st.items[Len(st.items)]
              /\ Len(Pop(st).items) = Len(st.items) - 1
              /\ \A k \in 1 .. Len(st.items) - 1 : Pop(st).items[k] = st.items[k]
<1>1. CASE ~HasItems(st)
  BY <1>1 DEF Top, Pop
<1>2. CASE HasItems(st)
  <2>1. st.items \in Seq(S) /\ st.items # <<>>
    BY <1>2 DEF HasItems
  <2>2. Len(st.items) \in Nat \ {0} /\ DOMAIN st.items = 1 .. Len(st.items)
    BY <2>1, EmptySeq, LenProperties
  <2>3. \A k \in 1 .. Len(st.items) : st.items[k] \in S
    BY <2>1, ElementOfSeq
  <2> DEFINE u == SubSeq(st.items, 1, Len(st.items) - 1)
  <2>4. /\ u \in Seq(S) /\ Len(u) = Len(st.items) - 1
        /\ \A k \in 1 .. Len(st.items) - 1 : u[k] = st.items[k]
    <3> DEFINE q == st.items
               n == Len(st.items) - 1
    <3>1. \A k \in 1 .. n : q[k] \in S
      BY <2>2, <2>3
    <3>2. 1 \in Int /\ n \in Int
      BY <2>2
    <3>3. /\ SubSeq(q, 1, n) \in Seq(S)
          /\ Len(SubSeq(q, 1, n)) = IF 1 <= n THEN n - 1 + 1 ELSE 0
          /\ \A k \in 1 .. n - 1 + 1 : SubSeq(q, 1, n)[k] = q[1 + k - 1]
      <4> HIDE DEF q, n
      <4> QED BY <3>1, <3>2, SubSeqProperties
    <3>4. n \in Nat
      BY <2>2
    <3>5. \A k \in 1 .. n : SubSeq(q, 1, n)[k] = q[k]
      <4> SUFFICES ASSUME NEW k \in 1 .. n PROVE SubSeq(q, 1, n)[k] = q[k]
        OBVIOUS
      <4>1. k \in 1 .. n - 1 + 1 /\ 1 + k - 1 = k
        BY <3>4
      <4> HIDE DEF q, n
      <4> QED BY <3>3, <4>1
    <3>6. Len(SubSeq(q, 1, n)) = n
      <4> HIDE DEF q, n
      <4>1. CASE n = 0
        BY <4>1, <3>3
      <4>2. CASE n >= 1
        BY <4>2, <3>3, <3>4
      <4> QED BY <3>4, <4>1, <4>2
    <3> QED BY <3>3, <3>5, <3>6
  <2>5. Pop(st) = [st EXCEPT !.items = u]
    BY <1>2 DEF Pop
  <2>6. Pop(st) \in [items : Seq(S), floor : S] /\ Pop(st).items = u
    BY <2>4, <2>5
  <2> QED BY <1>2, <2>2, <2>3, <2>4, <2>6 DEF Top
<1> QED BY <1>1, <1>2

-----------------------------------------------------------------------------
\* A register changes hands.

\* The register v held goes back to the pool, v going elsewhere.
LEMMA GivenBack ==
  ASSUME NEW s \in States, RegistersAgree(s), NEW t, NEW r \in Regs,
         NEW v \in Values, s.used[r] = v,
         t.availRegs.items = Append(s.availRegs.items, r),
         t.used = [s.used EXCEPT ![r] = None],
         ~InReg(t, v),
         \A w \in Values \ {v} : t.live[w] = s.live[w]
  PROVE  RegistersAgree(t)
<1> DEFINE free == s.availRegs.items
           more == t.availRegs.items
<1>1. /\ free \in Seq(Regs) /\ Len(free) \in Nat
      /\ DOMAIN free = 1 .. Len(free)
      /\ Len(more) = Len(free) + 1 /\ DOMAIN more = 1 .. Len(free) + 1
      /\ more[Len(free) + 1] = r
      /\ \A k \in 1 .. Len(free) : more[k] = free[k]
  <2>1. free \in Seq(Regs) /\ more = Append(free, r)
    BY DEF States
  <2> HIDE DEF free, more
  <2> QED BY <2>1, LenProperties, AppendProperties
<1>2. s.used \in [Regs -> Values \cup {None}] /\ v # None
  BY ValuesFacts DEF States
<1>3. \A k \in DOMAIN free : free[k] # r
  BY <1>2 DEF RegistersAgree
<1>4. \A j, k \in DOMAIN free : free[j] = free[k] => j = k
  BY DEF RegistersAgree
<1>5. \A j, k \in DOMAIN more : more[j] = more[k] => j = k
  BY <1>1, <1>3, <1>4
<1>6. \A q \in Regs : (t.used[q] = None) <=> \E k \in DOMAIN more : more[k] = q
  <2> SUFFICES ASSUME NEW q \in Regs
               PROVE  (t.used[q] = None) <=> \E k \in DOMAIN more : more[k] = q
    OBVIOUS
  <2>1. CASE q = r
    BY <2>1, <1>1, <1>2
  <2>2. CASE q # r
    <3>1. t.used[q] = s.used[q]
      BY <2>2, <1>2
    <3>2. (s.used[q] = None) <=> \E k \in DOMAIN free : free[k] = q
      BY DEF RegistersAgree
    <3> QED BY <3>1, <3>2, <2>2, <1>1
  <2> QED BY <2>1, <2>2
<1>7. \A q \in Regs : t.used[q] # None =>
         InReg(t, t.used[q]) /\ t.live[t.used[q]].num = q
  <2> SUFFICES ASSUME NEW q \in Regs, t.used[q] # None
               PROVE  InReg(t, t.used[q]) /\ t.live[t.used[q]].num = q
    OBVIOUS
  <2>1. q # r /\ t.used[q] = s.used[q] /\ s.used[q] \in Values
    BY <1>2
  <2>2. s.live[s.used[q]].num = q /\ InReg(s, s.used[q])
    BY <2>1 DEF RegistersAgree
  <2>3. s.used[q] # v
    BY <2>1, <2>2, <1>2 DEF RegistersAgree
  <2> QED BY <2>1, <2>2, <2>3 DEF InReg
<1>8. \A w \in Values : InReg(t, w) => t.used[t.live[w].num] = w
  <2> SUFFICES ASSUME NEW w \in Values, InReg(t, w)
               PROVE  t.used[t.live[w].num] = w
    OBVIOUS
  <2>1. w # v /\ t.live[w] = s.live[w] /\ InReg(s, w)
    BY DEF InReg
  <2>2. s.used[s.live[w].num] = w /\ s.live[w].num \in Regs
    BY <2>1, LiveFacts DEF RegistersAgree
  <2> QED BY <2>1, <2>2, <1>2
<1> QED BY <1>5, <1>6, <1>7, <1>8 DEF RegistersAgree

\* A free register is handed to v.
LEMMA HandedOut ==
  ASSUME NEW s \in States, RegistersAgree(s), HasItems(s.availRegs),
         NEW v \in Values, ~InReg(s, v)
  PROVE  /\ RegistersAgree(AllocReg(s, v))
         /\ InReg(AllocReg(s, v), v)
<1> DEFINE free == s.availRegs.items
           n    == Len(free)
           r    == Top(s.availRegs)
           t    == AllocReg(s, v)
           less == t.availRegs.items
<1>1. s.availRegs \in [items : Seq(Regs), floor : Regs]
  BY DEF States
<1>2. /\ r \in Regs /\ r = free[n] /\ n \in Nat \ {0} /\ DOMAIN free = 1 .. n
      /\ Pop(s.availRegs).items \in Seq(Regs)
      /\ Len(Pop(s.availRegs).items) = n - 1
      /\ \A k \in 1 .. n - 1 : Pop(s.availRegs).items[k] = free[k]
  <2>1. free \in Seq(Regs) /\ free # <<>>
    BY <1>1 DEF HasItems
  <2>2. n \in Nat \ {0} /\ DOMAIN free = 1 .. n
    BY <2>1, EmptySeq, LenProperties
  <2>3. /\ r \in Regs /\ r = free[n]
        /\ Pop(s.availRegs) \in [items : Seq(Regs), floor : Regs]
        /\ Len(Pop(s.availRegs).items) = n - 1
        /\ \A k \in 1 .. n - 1 : Pop(s.availRegs).items[k] = free[k]
    BY <1>1, PopType
  <2> QED BY <2>2, <2>3
<1>3. t = [s EXCEPT !.availRegs = Pop(@), !.used[r] = v,
                    !.live[v] = UseInfo("reg", r, FALSE)]
  BY DEF AllocReg
<1>4. /\ t.used = [s.used EXCEPT ![r] = v]
      /\ t.live = [s.live EXCEPT ![v] = UseInfo("reg", r, FALSE)]
      /\ t.availRegs = Pop(s.availRegs)
  BY <1>3 DEF States
<1>5. /\ s.used \in [Regs -> Values \cup {None}] /\ v # None
      /\ s.live \in [Values -> Places]
  BY ValuesFacts DEF States
<1>6. InReg(t, v) /\ t.live[v].num = r
  BY <1>4, <1>5 DEF InReg, UseInfo
<1>7. s.used[r] = None /\ \A k \in 1 .. n - 1 : free[k] # r
  BY <1>2 DEF RegistersAgree
<1>8. DOMAIN less = 1 .. n - 1 /\ \A k \in 1 .. n - 1 : less[k] = free[k]
  BY <1>2, <1>4
<1>9. \A j, k \in DOMAIN less : less[j] = less[k] => j = k
  BY <1>2, <1>8 DEF RegistersAgree
<1>10. \A q \in Regs : (t.used[q] = None) <=> \E k \in DOMAIN less : less[k] = q
  <2> SUFFICES ASSUME NEW q \in Regs
               PROVE  (t.used[q] = None) <=> \E k \in DOMAIN less : less[k] = q
    OBVIOUS
  <2>1. (s.used[q] = None) <=> \E k \in DOMAIN free : free[k] = q
    BY DEF RegistersAgree
  <2>2. CASE q = r
    BY <2>2, <1>4, <1>5, <1>7, <1>8
  <2>3. CASE q # r
    <3>1. t.used[q] = s.used[q]
      BY <2>3, <1>4, <1>5
    <3>2. (\E k \in DOMAIN less : less[k] = q) => \E k \in DOMAIN free : free[k] = q
      BY <1>2, <1>8
    <3>3. (\E k \in DOMAIN free : free[k] = q) => \E k \in DOMAIN less : less[k] = q
      <4> SUFFICES ASSUME NEW k \in DOMAIN free, free[k] = q
                   PROVE  \E j \in DOMAIN less : less[j] = q
        OBVIOUS
      <4>1. k \in 1 .. n - 1
        BY <2>3, <1>2
      <4> QED BY <4>1, <1>8
    <3> QED BY <2>1, <3>1, <3>2, <3>3
  <2> QED BY <2>2, <2>3
<1>11. \A q \in Regs : t.used[q] # None =>
         InReg(t, t.used[q]) /\ t.live[t.used[q]].num = q
  <2> SUFFICES ASSUME NEW q \in Regs, t.used[q] # None
               PROVE  InReg(t, t.used[q]) /\ t.live[t.used[q]].num = q
    OBVIOUS
  <2>1. CASE q = r
    BY <2>1, <1>4, <1>5, <1>6
  <2>2. CASE q # r
    <3>1. t.used[q] = s.used[q] /\ s.used[q] \in Values
      BY <2>2, <1>4, <1>5
    <3>2. s.live[s.used[q]].num = q /\ InReg(s, s.used[q])
      BY <3>1 DEF RegistersAgree
    <3>3. t.live[s.used[q]] = s.live[s.used[q]]
      BY <3>1, <3>2, <1>4, <1>5
    <3> QED BY <3>1, <3>2, <3>3 DEF InReg
  <2> QED BY <2>1, <2>2
<1>12. \A w \in Values : InReg(t, w) => t.used[t.live[w].num] = w
  <2> SUFFICES ASSUME NEW w \in Values, InReg(t, w)
               PROVE  t.used[t.live[w].num] = w
    OBVIOUS
  <2>1. CASE w = v
    BY <2>1, <1>2, <1>4, <1>5, <1>6
  <2>2. CASE w # v
    <3>1. t.live[w] = s.live[w]
      BY <2>2, <1>4, <1>5
    <3>2. InReg(s, w)
      BY <3>1 DEF InReg
    <3>3. s.used[s.live[w].num] = w /\ s.live[w].num \in Regs
      BY <3>2, LiveFacts DEF RegistersAgree
    <3>4. s.live[w].num # r
      BY <3>3, <1>5, <1>7, ValuesFacts
    <3> QED BY <3>1, <3>3, <3>4, <1>4, <1>5
  <2> QED BY <2>1, <2>2
<1> HIDE DEF t
<1>13. RegistersAgree(t)
  BY <1>9, <1>10, <1>11, <1>12 DEF RegistersAgree
<1> QED BY <1>13, <1>6 DEF t

-----------------------------------------------------------------------------
\* What can be read: cells, and the constants of the code.

LEMMA CellFacts ==
  /\ \A r \in Regs : Reg(r) \in Cells
  /\ \A n \in Spills : Slot(n) \in Cells
  /\ \A i \in Slots : Callee(i) \in Cells /\ Caller(i) \in Cells
  /\ \A v \in Values : v.class # "temp" => Home(v) \in Cells
<1>1. \A r \in Regs : Reg(r) \in Cells
  BY DEF Cells
<1>2. \A n \in Spills : Slot(n) \in Cells
  BY DEF Cells
<1>3. \A i \in Slots : Callee(i) \in Cells /\ Caller(i) \in Cells
  BY DEF Cells
<1>4. ASSUME NEW v \in Values, v.class # "temp"
      PROVE  Home(v) \in Cells
  <2>1. CASE v \in Temps
    BY <2>1, <1>4 DEF Temps, Temp, Operand
  <2>2. CASE v \in Locals
    <3>1. PICK i \in 0 .. NumVars - 1 : v = Var(i)
      BY <2>2 DEF Locals
    <3>2. Home(v) = Local(i)
      BY <3>1 DEF Home, Var, Operand
    <3> QED BY <3>2 DEF Cells
  <2>3. CASE v \in Args
    <3>1. PICK i \in 0 .. NumArgs - 1 : v = Arg(i)
      BY <2>3 DEF Args
    <3>2. Home(v) = Caller(i)
      BY <3>1 DEF Home, Arg, Operand
    <3>3. i \in Slots
      BY AllocSizes, PirSizes DEF Slots
    <3> QED BY <3>2, <3>3, <1>3
  <2> QED BY <2>1, <2>2, <2>3 DEF Values
<1> QED BY <1>1, <1>2, <1>3, <1>4

LEMMA ReadCell ==
  ASSUME NEW s \in States, NEW c \in Cells
  PROVE  Read(s, c) \in Tokens
<1>1. c.class \notin {"lit", "global"}
  BY DEF Cells, Reg, Slot, Callee, Caller, Local, Operand
<1> QED BY <1>1 DEF Read, States

LEMMA ReadConstant ==
  ASSUME NEW s \in States, NEW o \in Operands \ Values
  PROVE  Read(s, o) \in Tokens
<1>1. o.class \in {"lit", "global"}
  BY DEF Operands
<1> QED BY <1>1 DEF Read, Tokens

-----------------------------------------------------------------------------
\* The methods that move registers.

LEMMA FreeRegType ==
  ASSUME NEW s \in States, NEW r \in Regs
  PROVE  /\ FreeReg(s, r) \in States
         /\ FreeReg(s, r).live = s.live
         /\ s.used[r] = None => FreeReg(s, r).panic # ""
         /\ s.used[r] # None =>
              /\ FreeReg(s, r).panic = s.panic
              /\ FreeReg(s, r).used = [s.used EXCEPT ![r] = None]
              /\ FreeReg(s, r).availRegs = Push(s.availRegs, r)
              /\ FreeReg(s, r).cell = s.cell
              /\ FreeReg(s, r).availSpills = s.availSpills
<1>1. Push(s.availRegs, r) \in [items : Seq(Regs), floor : Regs]
  BY PushType DEF States
<1>2. CASE s.used[r] = None
  BY <1>2, PanicsFacts DEF FreeReg, Fail, States, Panics
<1>3. CASE s.used[r] # None
  BY <1>1, <1>3 DEF FreeReg, States
<1> QED BY <1>2, <1>3

LEMMA FreeSpillGood ==
  ASSUME NEW s, Good(s), NEW n \in Spills
  PROVE  /\ Good(FreeSpill(s, n))
         /\ FreeSpill(s, n).live = s.live
         /\ FreeSpill(s, n).availRegs = s.availRegs
         /\ FreeSpill(s, n).use = s.use
         /\ FreeSpill(s, n).panic = "" => s.panic = ""
<1> DEFINE t == FreeSpill(s, n)
<1>1. Push(s.availSpills, n) \in [items : Seq(Spills), floor : Spills]
  BY PushType DEF Good, States
<1>2. /\ t \in States /\ t.live = s.live /\ t.use = s.use
      /\ t.used = s.used /\ t.availRegs = s.availRegs
      /\ t.panic = "" => s.panic = ""
  <2>1. CASE s.usedSpill[n] = None
    BY <2>1, PanicsFacts DEF FreeSpill, Fail, Good, States, Panics
  <2>2. CASE s.usedSpill[n] # None
    BY <2>2, <1>1 DEF FreeSpill, Good, States
  <2> QED BY <2>1, <2>2
<1>3. t.panic = "" => RegistersAgree(t)
  <2> HIDE DEF t
  <2> QED BY <1>2, SameRegisters DEF Good, States, InReg
<1> QED BY <1>2, <1>3 DEF Good

LEMMA FreeGood ==
  ASSUME NEW s, Good(s), NEW v \in Values
  PROVE  /\ Good(Free(s, v))
         /\ Free(s, v).panic = "" =>
              /\ s.panic = ""
              /\ ~IsLive(Free(s, v), v)
              /\ \A w \in Values \ {v} : Free(s, v).live[w] = s.live[w]
              /\ InReg(s, v) => HasItems(Free(s, v).availRegs)
<1> DEFINE gone == [s EXCEPT !.live[v] = Dead]
           loc  == s.live[v]
           t    == Free(s, v)
<1>1. /\ gone \in States /\ gone.panic = s.panic
      /\ gone.used = s.used /\ gone.availRegs = s.availRegs
      /\ gone.live = [s.live EXCEPT ![v] = Dead]
  BY ValuesFacts DEF Good, States
<1>2. s.live \in [Values -> Places]
  BY DEF Good, States
<1>3. CASE loc.place = "reg"
  <2> DEFINE r == loc.num
  <2>1. r \in Regs /\ t = FreeReg(gone, r) /\ InReg(s, v)
    BY <1>3, LiveFacts DEF Good, Free, InReg
  <2>2. t \in States /\ t.live = gone.live
    BY <2>1, <1>1, FreeRegType
  <2>3. ~IsLive(t, v) /\ \A w \in Values \ {v} : t.live[w] = s.live[w]
    BY <2>2, <1>1, <1>2, ValuesFacts DEF IsLive
  <2>4. CASE s.used[r] = None
    <3>1. gone.used[r] = None
      BY <2>4, <1>1
    <3>2. t.panic # ""
      <4> HIDE DEF gone, t, r
      <4> QED BY <3>1, <2>1, <1>1, FreeRegType
    <3> QED BY <3>2, <2>2 DEF Good
  <2>5. CASE s.used[r] # None
    <3>1. /\ t.panic = s.panic
          /\ t.used = [s.used EXCEPT ![r] = None]
          /\ t.availRegs = Push(s.availRegs, r)
      <4>1. gone.used[r] # None
        BY <2>5, <1>1
      <4> HIDE DEF gone, t, r
      <4> QED BY <4>1, <2>1, <1>1, FreeRegType
    <3>2. t.availRegs.items = Append(s.availRegs.items, r)
      <4> HIDE DEF t, r
      <4> QED BY <3>1 DEF Push
    <3>3. HasItems(t.availRegs)
      <4>1. s.availRegs.items \in Seq(Regs)
        BY DEF Good, States
      <4> HIDE DEF t, r
      <4> QED BY <4>1, <3>2, <2>1, AppendProperties DEF HasItems
    <3>4. s.panic = "" => RegistersAgree(t)
      <4> SUFFICES ASSUME s.panic = "" PROVE RegistersAgree(t)
        OBVIOUS
      <4>1. s \in States /\ RegistersAgree(s)
        BY DEF Good
      <4>2. s.used[r] = v
        BY <4>1, <2>1 DEF RegistersAgree
      <4>3. ~InReg(t, v)
        BY <2>3 DEF IsLive, InReg
      <4>4. r \in Regs /\ \A w \in Values \ {v} : t.live[w] = s.live[w]
        BY <2>1, <2>3
      <4> HIDE DEF t, r, gone
      <4> QED BY <4>1, <4>2, <4>3, <4>4, <3>1, <3>2, GivenBack
    <3> QED BY <2>2, <2>3, <3>1, <3>3, <3>4 DEF Good
  <2> QED BY <2>4, <2>5
<1>4. CASE loc.place = "spill"
  <2>1. t = FreeSpill(gone, loc.num) /\ loc.num \in Spills /\ ~InReg(s, v)
    BY <1>4, LiveFacts DEF Good, Free, InReg
  <2>2. Good(gone)
    <3>1. \A w \in Values : InReg(gone, w) <=> InReg(s, w)
      BY <1>1, <1>2, <1>4, ValuesFacts DEF InReg
    <3>2. \A w \in Values : InReg(s, w) => gone.live[w].num = s.live[w].num
      BY <1>1, <1>2, <2>1
    <3>3. s.panic = "" => RegistersAgree(gone)
      <4> HIDE DEF gone
      <4> QED BY <3>1, <3>2, <1>1, SameRegisters DEF Good, States
    <3> QED BY <1>1, <3>3 DEF Good
  <2>3. /\ Good(t) /\ t.live = gone.live
        /\ t.panic = "" => s.panic = ""
    BY <2>1, <2>2, <1>1, FreeSpillGood
  <2> QED BY <2>1, <2>3, <1>1, <1>2, ValuesFacts DEF IsLive
<1>5. CASE loc.place = "callee"
  <2>1. t = gone /\ ~InReg(s, v)
    BY <1>5 DEF Free, InReg
  <2>2. \A w \in Values : InReg(gone, w) <=> InReg(s, w)
    BY <1>1, <1>2, <1>5, ValuesFacts DEF InReg
  <2>3. \A w \in Values : InReg(s, w) => gone.live[w].num = s.live[w].num
    BY <1>1, <1>2, <2>1
  <2>4. s.panic = "" => RegistersAgree(gone)
    <3> HIDE DEF gone
    <3> QED BY <2>2, <2>3, <1>1, SameRegisters DEF Good, States
  <2> QED BY <2>1, <2>4, <1>1, <1>2, ValuesFacts DEF IsLive, Good
<1>6. CASE loc.place = "dead"
  BY <1>6, FailGood DEF Free, Good, Panics
<1> QED BY <1>3, <1>4, <1>5, <1>6, LiveFacts DEF Good

LEMMA SpillTempGood ==
  ASSUME NEW s, Good(s), NEW r \in Regs
  PROVE  /\ Good(SpillTemp(s, r))
         /\ SpillTemp(s, r).panic = "" =>
              /\ s.panic = ""
              /\ s.used[r] \in Values
              /\ ~InReg(SpillTemp(s, r), s.used[r])
              /\ \A w \in Values \ {s.used[r]} : SpillTemp(s, r).live[w] = s.live[w]
              /\ HasItems(SpillTemp(s, r).availRegs)
<1>1. CASE s.used[r] = None
  BY <1>1, FailGood DEF SpillTemp, Good, Panics
<1>2. CASE s.used[r] # None
  <2> DEFINE v == s.used[r]
             f == FreeReg(s, r)
             n == Top(f.availSpills)
             t == SpillTemp(s, r)
  <2>1. v \in Values /\ s.live \in [Values -> Places] /\ s \in States
    BY <1>2 DEF Good, States
  <2>2. /\ f \in States /\ f.live = s.live /\ f.panic = s.panic
        /\ f.used = [s.used EXCEPT ![r] = None]
        /\ f.availRegs = Push(s.availRegs, r)
        /\ f.cell = s.cell
    BY <1>2, <2>1, FreeRegType
  <2>3. n \in Spills /\ Pop(f.availSpills) \in [items : Seq(Spills), floor : Spills]
    <3>1. f.availSpills \in [items : Seq(Spills), floor : Spills]
      BY <2>2 DEF States
    <3> QED BY <3>1, PopType
  <2>4. UseInfo("spill", n, s.live[v].mut) \in Places
    BY <2>1, <2>3, LiveFacts DEF UseInfo, Places
  <2>5. s.cell[Reg(r)] \in Tokens
    BY <2>1, CellFacts DEF States
  <2>6. (IF n + 1 > f.numSpills THEN n + 1 ELSE f.numSpills) \in 0 .. NumSpills
    <3>1. f.numSpills \in 0 .. NumSpills /\ n \in 0 .. NumSpills - 1
      BY <2>2, <2>3 DEF States, Spills
    <3> HIDE DEF f, n
    <3> QED BY <3>1, AllocSizes
  <2>7. t = [f EXCEPT !.availSpills = Pop(@),
                      !.usedSpill[n] = v,
                      !.live[v] = UseInfo("spill", n, s.live[v].mut),
                      !.numSpills = IF n + 1 > @ THEN n + 1 ELSE @,
                      !.cell[Slot(n)] = s.cell[Reg(r)]]
    BY <1>2 DEF SpillTemp
  <2>8. /\ t \in States /\ t.panic = s.panic
        /\ t.used = [s.used EXCEPT ![r] = None]
        /\ t.availRegs = Push(s.availRegs, r)
        /\ t.live = [s.live EXCEPT ![v] = UseInfo("spill", n, s.live[v].mut)]
    <3> HIDE DEF v, f, n, t
    <3> QED BY <2>1, <2>2, <2>3, <2>4, <2>5, <2>6, <2>7 DEF States
  <2> HIDE DEF t, n, f
  <2>9. ~InReg(t, v) /\ \A w \in Values \ {v} : t.live[w] = s.live[w]
    BY <2>1, <2>8 DEF InReg, UseInfo
  <2>10. t.availRegs.items = Append(s.availRegs.items, r)
    BY <2>8 DEF Push
  <2>11. HasItems(t.availRegs)
    <3>1. s.availRegs.items \in Seq(Regs)
      BY <2>1 DEF States
    <3> QED BY <3>1, <2>10, AppendProperties DEF HasItems
  <2>12. s.panic = "" => RegistersAgree(t)
    <3> SUFFICES ASSUME s.panic = "" PROVE RegistersAgree(t)
      OBVIOUS
    <3>1. RegistersAgree(s) /\ s.used[r] = v
      BY DEF Good
    <3> HIDE DEF v
    <3> QED BY <3>1, <2>1, <2>8, <2>9, <2>10, GivenBack
  <2> QED BY <2>1, <2>8, <2>9, <2>11, <2>12 DEF Good, t
<1> QED BY <1>1, <1>2

LEMMA AllocRegGood ==
  ASSUME NEW s, Good(s), NEW v \in Values,
         s.panic = "" => InReg(s, v) \/ HasItems(s.availRegs)
  PROVE  /\ Good(AllocReg(s, v))
         /\ AllocReg(s, v).panic = s.panic
         /\ s.panic = "" => InReg(AllocReg(s, v), v)
         /\ \A w \in Values \ {v} : AllocReg(s, v).live[w] = s.live[w]
<1>1. CASE InReg(s, v)
  BY <1>1 DEF AllocReg
<1>2. CASE ~InReg(s, v)
  <2> DEFINE r == Top(s.availRegs)
             t == AllocReg(s, v)
  <2>1. s.availRegs \in [items : Seq(Regs), floor : Regs] /\ s \in States
    BY DEF Good, States
  <2>2. r \in Regs /\ Pop(s.availRegs) \in [items : Seq(Regs), floor : Regs]
    BY <2>1, PopType
  <2>3. UseInfo("reg", r, FALSE) \in Places
    BY <2>2 DEF UseInfo, Places
  <2>4. t = [s EXCEPT !.availRegs = Pop(@), !.used[r] = v,
                      !.live[v] = UseInfo("reg", r, FALSE)]
    BY <1>2 DEF AllocReg
  <2>5. /\ t \in States /\ t.panic = s.panic
        /\ \A w \in Values \ {v} : t.live[w] = s.live[w]
    <3> HIDE DEF r, t
    <3> QED BY <2>1, <2>2, <2>3, <2>4 DEF States
  <2>6. s.panic = "" => RegistersAgree(t) /\ InReg(t, v)
    BY <2>1, <1>2, HandedOut DEF Good
  <2> QED BY <2>5, <2>6 DEF Good
<1> QED BY <1>1, <1>2

LEMMA EvictGood ==
  ASSUME NEW s, Good(s), NEW v \in Values, InReg(s, v)
  PROVE  /\ Good(Evict(s, v))
         /\ Evict(s, v).panic = "" =>
              /\ s.panic = ""
              /\ ~InReg(Evict(s, v), v)
              /\ \A w \in Values \ {v} : Evict(s, v).live[w] = s.live[w]
              /\ HasItems(Evict(s, v).availRegs)
<1> DEFINE r == s.live[v].num
<1>1. s \in States /\ r \in Regs
  BY LiveFacts DEF Good
<1>2. CASE v.class = "temp"
  <2>1. Evict(s, v) = SpillTemp(s, r)
    BY <1>2 DEF Evict
  <2>2. s.panic = "" => s.used[r] = v
    BY DEF Good, RegistersAgree
  <2> DEFINE t == SpillTemp(s, r)
  <2>3. /\ Good(t)
        /\ t.panic = "" =>
             /\ s.panic = "" /\ ~InReg(t, s.used[r])
             /\ \A w \in Values \ {s.used[r]} : t.live[w] = s.live[w]
             /\ HasItems(t.availRegs)
    <3> HIDE DEF r
    <3> QED BY <1>1, SpillTempGood
  <2> HIDE DEF r, t
  <2>4. CASE t.panic = ""
    BY <2>1, <2>2, <2>3, <2>4 DEF t
  <2> QED BY <2>1, <2>3, <2>4 DEF t
<1>3. CASE v.class # "temp"
  <2> DEFINE u == IF s.live[v].mut THEN Store(s, Reg(r), Home(v)) ELSE s
  <2>1. Evict(s, v) = Free(u, v)
    BY <1>3 DEF Evict
  <2>2. Read(s, Reg(r)) \in Tokens
    BY <1>1, CellFacts, ReadCell
  <2>3. Good(u) /\ u.live = s.live /\ u.panic = s.panic
    BY <2>2, StoreGood
  <2> HIDE DEF u
  <2> DEFINE t == Free(u, v)
  <2>4. /\ Good(t)
        /\ t.panic = "" =>
             /\ u.panic = "" /\ ~IsLive(t, v)
             /\ \A w \in Values \ {v} : t.live[w] = u.live[w]
             /\ InReg(u, v) => HasItems(t.availRegs)
    BY <2>3, FreeGood
  <2>5. InReg(u, v) /\ (~IsLive(t, v) => ~InReg(t, v))
    BY <2>3 DEF InReg, IsLive
  <2> HIDE DEF t
  <2> QED BY <2>1, <2>3, <2>4, <2>5 DEF t
<1> QED BY <1>2, <1>3

\* Without a panic v has a register, and of the others only those in a
\* register have moved: none of them into one.
Took(s, t, v) ==
  /\ Good(t)
  /\ t.panic = "" =>
       /\ s.panic = ""
       /\ v \in Values => InReg(t, v)
       /\ \A w \in Values \ {v} : /\ InReg(t, w) => InReg(s, w)
                                  /\ ~InReg(s, w) => t.live[w] = s.live[w]

LEMMA TookFacts ==
  ASSUME NEW s, NEW t, NEW v \in Values, Took(s, t, v), t.panic = ""
  PROVE  s.panic = "" /\ InReg(t, v)
BY DEF Took

LEMMA TookKeeps ==
  ASSUME NEW s, NEW t, NEW v, Took(s, t, v), t.panic = "",
         NEW w \in Values, w # v, ~InReg(s, w)
  PROVE  ~InReg(t, w) /\ t.live[w] = s.live[w]
BY DEF Took

LEMMA GrabRegGood ==
  ASSUME NEW s, Good(s), NEW i, NEW v \in Values, NEW t \in GrabReg(s, i, v)
  PROVE  Took(s, t, v)
<1>1. CASE HasItems(s.availRegs)
  <2>1. t = AllocReg(s, v)
    BY <1>1 DEF GrabReg
  <2> QED BY <1>1, <2>1, AllocRegGood DEF InReg, Took
<1>2. CASE ~HasItems(s.availRegs) /\ FurthestUse(s, i) = {}
  <2>1. t = Fail(s, "not enough registers")
    BY <1>2 DEF GrabReg
  <2> QED BY <2>1, FailGood DEF Good, Panics, Took
<1>3. CASE ~HasItems(s.availRegs) /\ FurthestUse(s, i) # {}
  <2> DEFINE a(w) == AllocReg(Evict(s, w), v)
  <2>1. PICK w \in FurthestUse(s, i) :
           t = IF a(w).live[v] = UseInfo("reg", s.live[w].num, FALSE) THEN a(w)
               ELSE Fail(a(w), "spillRegister")
    BY <1>3 DEF GrabReg
  <2>2. w \in Values /\ InReg(s, w)
    BY <2>1 DEF FurthestUse
  <2> DEFINE e == Evict(s, w)
             u == AllocReg(e, v)
  <2>3. /\ Good(e)
        /\ e.panic = "" =>
             /\ s.panic = "" /\ ~InReg(e, w)
             /\ \A x \in Values \ {w} : e.live[x] = s.live[x]
             /\ HasItems(e.availRegs)
    BY <2>2, EvictGood
  <2>4. /\ Good(u) /\ u.panic = e.panic
        /\ e.panic = "" => InReg(u, v)
        /\ \A x \in Values \ {v} : u.live[x] = e.live[x]
    <3> HIDE DEF e
    <3> QED BY <2>3, AllocRegGood
  <2>5. t = u \/ t = Fail(u, "spillRegister")
    BY <2>1
  <2> HIDE DEF u, e, a
  <2>6. CASE t = u
    BY <2>2, <2>3, <2>4, <2>6 DEF InReg, Took
  <2>7. CASE t = Fail(u, "spillRegister")
    BY <2>4, <2>7, FailGood DEF Good, Panics, Took
  <2> QED BY <2>5, <2>6, <2>7
<1> QED BY <1>1, <1>2, <1>3

\* A load into the register v holds.
LEMMA LoadGood ==
  ASSUME NEW s, Good(s), NEW from \in Cells, NEW v
  PROVE  /\ Good(Load(s, from, v))
         /\ Load(s, from, v).panic = s.panic
         /\ Load(s, from, v).live = s.live
BY ReadCell, StoreGood DEF Load, Good

\* ensureImmediate leaves its operand in a register, whatever it evicts.
LEMMA EnsureImmediateGood ==
  ASSUME NEW s, Good(s), NEW i, NEW v, NEW t \in EnsureImmediate(s, i, v)
  PROVE  Took(s, t, v)
<1>1. CASE v \notin Values \/ InReg(s, v)
  BY <1>1 DEF EnsureImmediate, Took
<1>2. CASE v \in Values /\ ~InReg(s, v)
  <2> DEFINE loc == s.live[v]
  <2>1. s \in States /\ loc.place \in {"dead", "spill", "callee"}
    BY <1>2, LiveFacts DEF Good, InReg
  <2>2. CASE loc.place = "spill"
    <3>1. loc.num \in Spills
      BY <1>2, <2>1, <2>2, LiveFacts
    <3> DEFINE f == FreeSpill(s, loc.num)
    <3>2. PICK g \in GrabReg(f, i, v) : t = Load(g, Slot(loc.num), v)
      BY <1>2, <2>2 DEF EnsureImmediate
    <3>3. Good(f) /\ f.live = s.live /\ (f.panic = "" => s.panic = "")
      BY <3>1, FreeSpillGood
    <3>4. Slot(loc.num) \in Cells
      BY <3>1, CellFacts
    <3> HIDE DEF f, loc
    <3>5. Took(f, g, v)
      BY <1>2, <3>2, <3>3, GrabRegGood
    <3>6. Good(t) /\ t.panic = g.panic /\ t.live = g.live
      BY <3>2, <3>4, <3>5, LoadGood DEF Took
    <3> QED BY <3>3, <3>5, <3>6 DEF Took, InReg
  <2>3. CASE loc.place = "callee"
    <3>1. Callee(loc.num) \in Cells
      BY <1>2, <2>1, <2>3, LiveFacts, CellFacts
    <3>2. PICK g \in GrabReg(s, i, v) : t = Load(g, Callee(loc.num), v)
      BY <1>2, <2>3 DEF EnsureImmediate
    <3> HIDE DEF loc
    <3>3. Took(s, g, v)
      BY <1>2, <3>2, GrabRegGood
    <3>4. Good(t) /\ t.panic = g.panic /\ t.live = g.live
      BY <3>1, <3>2, <3>3, LoadGood DEF Took
    <3> QED BY <3>3, <3>4 DEF Took, InReg
  <2>4. CASE loc.place = "dead" /\ v.class = "temp"
    <3>1. t \in GrabReg(s, i, v)
      BY <1>2, <2>4 DEF EnsureImmediate
    <3> QED BY <1>2, <3>1, GrabRegGood
  <2>5. CASE loc.place = "dead" /\ v.class # "temp"
    <3>1. Home(v) \in Cells
      BY <1>2, <2>5, CellFacts
    <3>2. PICK g \in GrabReg(s, i, v) : t = Load(g, Home(v), v)
      BY <1>2, <2>5 DEF EnsureImmediate
    <3>3. Took(s, g, v)
      BY <1>2, <3>2, GrabRegGood
    <3>4. Good(t) /\ t.panic = g.panic /\ t.live = g.live
      BY <3>1, <3>2, <3>3, LoadGood DEF Took
    <3> QED BY <3>3, <3>4 DEF Took, InReg
  <2> QED BY <2>1, <2>2, <2>3, <2>4, <2>5
<1> QED BY <1>1, <1>2

LEMMA FreeIfUnneededGood ==
  ASSUME NEW s, Good(s), NEW i, NEW ins, NEW v
  PROVE  /\ Good(FreeIfUnneeded(s, i, ins, v))
         /\ FreeIfUnneeded(s, i, ins, v).panic = "" =>
              /\ s.panic = ""
              /\ \A w \in Values : InReg(FreeIfUnneeded(s, i, ins, v), w) => InReg(s, w)
<1>1. CASE FreeIfUnneeded(s, i, ins, v) = s
  BY <1>1
<1>2. CASE v \in Values /\ FreeIfUnneeded(s, i, ins, v) = Free(s, v)
  <2> DEFINE t == Free(s, v)
  <2>1. /\ Good(t)
        /\ t.panic = "" => /\ s.panic = "" /\ ~IsLive(t, v)
                           /\ \A w \in Values \ {v} : t.live[w] = s.live[w]
    BY <1>2, FreeGood
  <2> HIDE DEF t
  <2>2. t.panic = "" => \A w \in Values : InReg(t, w) => InReg(s, w)
    BY <2>1 DEF InReg, IsLive
  <2> QED BY <1>2, <2>1, <2>2 DEF t
<1> QED BY <1>1, <1>2 DEF FreeIfUnneeded

LEMMA CorruptOldVersionGood ==
  ASSUME NEW s, Good(s), NEW v \in Values
  PROVE  /\ Good(CorruptOldVersion(s, v))
         /\ CorruptOldVersion(s, v).panic = "" => s.panic = ""
BY FreeGood DEF CorruptOldVersion

-----------------------------------------------------------------------------
\* The state a block starts with.

\* A bounded set of naturals has the maximum Max chooses.
LEMMA MaxOfBounded ==
  ASSUME NEW S \in SUBSET Nat, S # {}, NEW n \in Nat, \A x \in S : x <= n
  PROVE  /\ Max(S) \in S
         /\ \A x \in S : x <= Max(S)
<1> DEFINE Above(x) == {y \in S : y > x}
           T == {Above(x) : x \in S}
<1>1. IsFiniteSet(S)
  BY FS_BoundedSetOfNaturals
<1>2. T \subseteq FiniteSubsetsOf(S) /\ T # {}
  <2>1. \A x \in S : IsFiniteSet(Above(x)) /\ Above(x) \subseteq S
    BY <1>1, FS_Subset
  <2> QED BY <2>1 DEF FiniteSubsetsOf
<1>3. PICK A \in T : \A B \in T : <<B, A>> \notin StrictSubsetOrdering(S)
  <2> HIDE DEF T
  <2> QED BY <1>2, FS_StrictSubsetOrderingWellFounded, WFMin
<1>4. PICK m \in S : A = Above(m)
  OBVIOUS
<1>5. \A y \in S : y <= m
  <2> SUFFICES ASSUME NEW y \in S, y > m PROVE FALSE
    OBVIOUS
  <2>1. Above(y) \in T
    OBVIOUS
  <2>4. Above(y) \subseteq Above(m)
    <3> SUFFICES ASSUME NEW z \in S, z > y PROVE z > m
      OBVIOUS
    <3> QED BY <2>1, S \subseteq Nat
  <2>2. y \in Above(m) /\ y \notin Above(y)
    OBVIOUS
  <2>3. <<Above(y), A>> \in StrictSubsetOrdering(S)
    BY <1>4, <2>4, <2>2 DEF StrictSubsetOrdering
  <2> QED BY <1>3, <2>1, <2>3
<1> QED BY <1>5 DEF Max

LEMMA RetIndexType == RetIndex \in Nat
BY SMT DEF RetIndex

LEMMA LastUseType ==
  ASSUME NEW n \in Nat, NEW m \in Nat,
         NEW A \in SUBSET (0 .. n - 1), NEW R \in SUBSET (0 .. m - 1)
  PROVE  Max({0} \cup A \cup {RetIndex + i : i \in R}) \in Nat
<1> DEFINE S == {0} \cup A \cup {RetIndex + i : i \in R}
           k == RetIndex + n + m
<1>1. k \in Nat /\ \A x \in A : x \in Nat /\ x <= k
  BY RetIndexType
<1>2. \A i \in R : RetIndex + i \in Nat /\ RetIndex + i <= k
  BY RetIndexType
<1>3. S \in SUBSET Nat /\ S # {} /\ \A x \in S : x <= k
  <2> SUFFICES ASSUME NEW x \in S PROVE x \in Nat /\ x <= k
    OBVIOUS
  <2>1. CASE x = 0
    BY <2>1, <1>1
  <2>2. CASE x \in A
    BY <2>2, <1>1
  <2>3. CASE \E i \in R : x = RetIndex + i
    BY <2>3, <1>2
  <2> QED BY <2>1, <2>2, <2>3
<1> HIDE DEF S, k
<1>4. Max(S) \in S
  BY <1>1, <1>3, MaxOfBounded
<1> QED BY <1>3, <1>4 DEF S

LEMMA FindUsesType ==
  ASSUME NEW b, Len(b.code) \in Nat, Len(b.out.v) \in Nat
  PROVE  FindUses(b) \in [Values -> Nat]
<1> DEFINE n == Len(b.code)
           m == Len(b.out.v)
           A(v) == {i \in 0 .. n - 1 : v \in Mentions(b.code[i + 1])}
           R(v) == {j \in 0 .. m - 1 : b.out.v[j + 1] = v}
<1>1. FindUses(b) = [v \in Values |->
                       Max({0} \cup A(v) \cup {RetIndex + i : i \in R(v)})]
  BY DEF FindUses
<1>2. n \in Nat /\ m \in Nat
  OBVIOUS
<1> HIDE DEF n, m
<1>3. \A v \in Values : A(v) \in SUBSET (0 .. n - 1) /\ R(v) \in SUBSET (0 .. m - 1)
  OBVIOUS
<1> HIDE DEF A, R
<1>4. \A v \in Values : Max({0} \cup A(v) \cup {RetIndex + i : i \in R(v)}) \in Nat
  BY <1>2, <1>3, LastUseType
<1> QED BY <1>1, <1>4

\* The pool of a fresh stack holds every number once.
LEMMA NewStackFacts ==
  ASSUME NEW n \in Nat \ {0}
  PROVE  /\ NewStack(n) \in [items : Seq(0 .. n - 1), floor : 0 .. n - 1]
         /\ DOMAIN NewStack(n).items = 1 .. n
         /\ \A k \in 1 .. n : NewStack(n).items[k] = n - k
<1>1. [k \in 1 .. n |-> n - k] \in Seq(0 .. n - 1)
  OBVIOUS
<1> QED BY <1>1 DEF NewStack

LEMMA NewStateGood ==
  ASSUME NEW b, Len(b.code) \in Nat, Len(b.out.v) \in Nat
  PROVE  Good(NewState(b)) /\ NewState(b).panic = ""
<1> DEFINE s == NewState(b)
           cell0 == [c \in Cells |->
                      IF \E v \in Locals \cup Args : c = Home(v)
                        THEN CHOOSE v \in Locals \cup Args : c = Home(v)
                        ELSE Junk]
<1>1. /\ NewStack(NumRegs) \in [items : Seq(Regs), floor : Regs]
      /\ DOMAIN NewStack(NumRegs).items = 1 .. NumRegs
      /\ \A k \in 1 .. NumRegs : NewStack(NumRegs).items[k] = NumRegs - k
  BY NewStackFacts, AllocSizes DEF Regs
<1>2. NewStack(NumSpills) \in [items : Seq(Spills), floor : Spills]
  BY NewStackFacts, AllocSizes DEF Spills
<1>3. cell0 \in [Cells -> Tokens]
  <2> SUFFICES ASSUME NEW c \in Cells PROVE cell0[c] \in Tokens
    OBVIOUS
  <2>1. CASE \E v \in Locals \cup Args : c = Home(v)
    <3>1. cell0[c] \in Locals \cup Args
      BY <2>1
    <3> QED BY <3>1, ValuesFacts DEF Values, Tokens
  <2>2. CASE ~ \E v \in Locals \cup Args : c = Home(v)
    BY <2>2 DEF Tokens
  <2> QED BY <2>1, <2>2
<1>4. FindUses(b) \in [Values -> Nat]
  BY FindUsesType
<1>5. /\ s.availRegs = NewStack(NumRegs) /\ s.panic = ""
      /\ s.used = [r \in Regs |-> None] /\ s.live = [v \in Values |-> Dead]
  BY DEF NewState
<1>6. s \in States
  <2> HIDE DEF cell0
  <2>1. s = [availRegs   |-> NewStack(NumRegs),
             used        |-> [r \in Regs |-> None],
             availSpills |-> NewStack(NumSpills),
             usedSpill   |-> [n \in Spills |-> None],
             live        |-> [v \in Values |-> Dead],
             use         |-> FindUses(b),
             numSpills   |-> 0,
             maxCallee   |-> 0,
             cell        |-> cell0,
             panic       |-> ""]
    BY DEF NewState, cell0
  <2> HIDE DEF s
  <2>2. /\ [r \in Regs |-> None] \in [Regs -> Values \cup {None}]
        /\ [n \in Spills |-> None] \in [Spills -> Values \cup {None}]
        /\ [v \in Values |-> Dead] \in [Values -> Places]
        /\ 0 \in 0 .. NumSpills /\ 0 \in 0 .. NumSlots
    BY AllocSizes, ValuesFacts
  <2> QED BY <2>1, <2>2, <1>1, <1>2, <1>3, <1>4 DEF States
<1>7. RegistersAgree(s)
  <2>1. \A j, k \in 1 .. NumRegs : NumRegs - j = NumRegs - k => j = k
    BY AllocSizes
  <2>2. \A r \in Regs : NumRegs - r \in 1 .. NumRegs /\ NumRegs - (NumRegs - r) = r
    BY AllocSizes DEF Regs
  <2>3. \A v \in Values : ~InReg(s, v)
    BY <1>5, ValuesFacts DEF InReg
  <2>4. \A r \in Regs : s.used[r] = None
    BY <1>5
  <2> DEFINE items == s.availRegs.items
  <2>7. DOMAIN items = 1 .. NumRegs /\ \A k \in 1 .. NumRegs : items[k] = NumRegs - k
    BY <1>1, <1>5
  <2> HIDE DEF s, items
  <2>5. \A j, k \in DOMAIN items : items[j] = items[k] => j = k
    BY <2>7, <2>1
  <2>6. \A r \in Regs : \E k \in DOMAIN items : items[k] = r
    BY <2>7, <2>2
  <2> QED BY <2>3, <2>4, <2>5, <2>6 DEF RegistersAgree, items
<1> QED BY <1>5, <1>6, <1>7 DEF Good

-----------------------------------------------------------------------------
\* Where values are, and what each method leaves of them.

\* No spill slot is free twice, or free and in use.
Apart(s) ==
  LET free == s.availSpills.items
  IN /\ \A j, k \in DOMAIN free : free[j] = free[k] => j = k
     /\ \A k \in DOMAIN free : s.usedSpill[free[k]] = None
     /\ \A v \in Values : s.live[v].place = "spill" => s.usedSpill[s.live[v].num] = v

\* The cell a reader of v is sent to.
HolderIn(s, v) == IF IsLive(s, v) THEN Operand(s.live[v].place, s.live[v].num) ELSE Home(v)

\* In e the block's code has given every value a token.  The home of v holds
\* v's; a variable can be read, and its home lags only while it is marked
\* mutated; a temporary can be read where LiveValues says it is.
HomeRight(s, e, v) == s.cell[Home(v)] = e[v]

VarRight(s, e, v) == /\ s.live[v].place \in {"dead", "reg"}
                     /\ s.cell[HolderIn(s, v)] = e[v]
                     /\ ~s.live[v].mut => HomeRight(s, e, v)

TempRight(s, e, v) == IsLive(s, v) /\ s.cell[HolderIn(s, v)] = e[v]

\* (The empty string is beyond the SMT backend: Fine stands for it.)
Fine(s) == s.panic = ""

\* A state in the middle of an allocation that goes well.
Sane(s) == Good(s) /\ Fine(s) /\ Apart(s)

LEMMA SameFine == ASSUME NEW s, NEW t, Fine(s), t.panic = s.panic PROVE Fine(t)
BY DEF Fine

\* What a lemma about a method starts from.
LEMMA SaneFacts ==
  ASSUME NEW s, Sane(s)
  PROVE  /\ s \in States /\ Good(s) /\ Fine(s) /\ RegistersAgree(s) /\ Apart(s)
         /\ s.live \in [Values -> Places] /\ s.cell \in [Cells -> Tokens]
         /\ s.use \in [Values -> Nat]
         /\ s.used \in [Regs -> Values \cup {None}]
         /\ s.usedSpill \in [Spills -> Values \cup {None}]
         /\ s.availRegs \in [items : Seq(Regs), floor : Regs]
         /\ s.availSpills \in [items : Seq(Spills), floor : Spills]
         /\ Len(s.availRegs.items) \in Nat
BY LenProperties DEF Sane, Good, States, Fine

\* Classes of operands and cells.
LEMMA Classes ==
  /\ \A v \in Temps : v \in Values /\ v.class = "temp" /\ v \notin Homed
  /\ \A v \in Homed : v \in Values /\ v.class # "temp" /\ v \notin Temps
                     /\ Home(v) \in Cells /\ Home(v).class \in {"caller", "local"}
  /\ \A v \in Values : v \in Temps \/ v \in Homed
  /\ \A v, w \in Homed : Home(v) = Home(w) => v = w
<1>1. \A v \in Temps : v \in Values /\ v.class = "temp"
  BY DEF Values, Temps, Temp, Operand
<1>2. \A v \in Locals : v \in Values /\ v.class = "var" /\ Home(v) = Local(v.id) /\ v = Var(v.id)
  BY DEF Values, Locals, Var, Operand, Home
<1>3. \A v \in Args : v \in Values /\ v.class = "arg" /\ Home(v) = Caller(v.id) /\ v = Arg(v.id)
  BY DEF Values, Args, Arg, Operand, Home
<1>4. \A i, j : /\ Local(i) # Caller(j)
                /\ Local(i) = Local(j) => i = j
                /\ Caller(i) = Caller(j) => i = j
                /\ Local(i).class = "local" /\ Caller(i).class = "caller"
  BY DEF Local, Caller, Operand
<1>5. \A v \in Homed : v \in Values /\ v.class # "temp" /\ Home(v).class \in {"caller", "local"}
  BY <1>2, <1>3, <1>4 DEF Homed
<1>6. \A v \in Homed : Home(v) \in Cells
  BY <1>5, CellFacts
<1>7. \A v, w \in Homed : Home(v) = Home(w) => v = w
  <2> SUFFICES ASSUME NEW v \in Homed, NEW w \in Homed, Home(v) = Home(w) PROVE v = w
    OBVIOUS
  <2>1. CASE v \in Locals /\ w \in Locals
    BY <2>1, <1>2, <1>4
  <2>2. CASE v \in Args /\ w \in Args
    BY <2>2, <1>3, <1>4
  <2>3. CASE v \in Locals /\ w \in Args
    BY <2>3, <1>2, <1>3, <1>4
  <2>4. CASE v \in Args /\ w \in Locals
    BY <2>4, <1>2, <1>3, <1>4
  <2> QED BY <2>1, <2>2, <2>3, <2>4 DEF Homed
<1>8. \A v \in Values : v \in Temps \/ v \in Homed
  BY DEF Values, Homed
<1> QED BY <1>1, <1>5, <1>6, <1>7, <1>8

\* The kinds of cells do not overlap.
LEMMA CellNames ==
  /\ \A r, q : Reg(r).class = "reg" /\ (Reg(r) = Reg(q) => r = q)
  /\ \A n, m : Slot(n).class = "spill" /\ (Slot(n) = Slot(m) => n = m)
  /\ \A i, j : Callee(i).class = "callee" /\ (Callee(i) = Callee(j) => i = j)
  /\ \A i, j : Caller(i).class = "caller" /\ (Caller(i) = Caller(j) => i = j)
BY DEF Reg, Slot, Callee, Caller, Operand

LEMMA CellRead ==
  ASSUME NEW s, NEW c \in Cells
  PROVE  Read(s, c) = s.cell[c]
<1>1. c.class \notin {"lit", "global"}
  BY DEF Cells, Reg, Slot, Callee, Caller, Local, Operand
<1> QED BY <1>1 DEF Read

\* Where a value is: a cell, of the kind its place names.
LEMMA HolderFacts ==
  ASSUME NEW s, Sane(s), NEW v \in Values
  PROVE  /\ InReg(s, v) => /\ HolderIn(s, v) = Reg(s.live[v].num) /\ s.live[v].num \in Regs
                           /\ IsLive(s, v)
         /\ s.live[v].place = "spill" =>
              HolderIn(s, v) = Slot(s.live[v].num) /\ s.live[v].num \in Spills /\ IsLive(s, v)
         /\ s.live[v].place = "callee" =>
              HolderIn(s, v) = Callee(s.live[v].num) /\ s.live[v].num \in Slots /\ IsLive(s, v)
         /\ ~IsLive(s, v) => HolderIn(s, v) = Home(v)
         /\ IsLive(s, v) \/ v \in Homed => HolderIn(s, v) \in Cells
         /\ s.live[v].place \in {"dead", "reg", "spill", "callee"}
<1>1. /\ s.live[v].place \in {"dead", "reg", "spill", "callee"}
      /\ InReg(s, v) => s.live[v].num \in Regs
      /\ s.live[v].place = "spill" => s.live[v].num \in Spills
      /\ s.live[v].place = "callee" => s.live[v].num \in Slots
  BY SaneFacts, LiveFacts
<1>2. ~IsLive(s, v) <=> s.live[v].place = "dead"
  BY DEF IsLive
<1>3. InReg(s, v) <=> s.live[v].place = "reg"
  BY DEF InReg
<1>4. /\ InReg(s, v) => HolderIn(s, v) = Reg(s.live[v].num)
      /\ s.live[v].place = "spill" => HolderIn(s, v) = Slot(s.live[v].num)
      /\ s.live[v].place = "callee" => HolderIn(s, v) = Callee(s.live[v].num)
      /\ ~IsLive(s, v) => HolderIn(s, v) = Home(v)
  BY <1>2, <1>3 DEF HolderIn, Reg, Slot, Callee
<1>5. IsLive(s, v) \/ v \in Homed => HolderIn(s, v) \in Cells
  BY <1>1, <1>2, <1>3, <1>4, CellFacts, Classes
<1> QED BY <1>1, <1>2, <1>3, <1>4, <1>5

\* No two values are in one register, or in one spill slot.
LEMMA OneEach ==
  ASSUME NEW s, Sane(s), NEW v \in Values, NEW w \in Values, v # w
  PROVE  /\ InReg(s, v) /\ InReg(s, w) => s.live[v].num # s.live[w].num
         /\ s.live[v].place = "spill" /\ s.live[w].place = "spill" => s.live[v].num # s.live[w].num
<1>1. \A u \in Values : InReg(s, u) => s.used[s.live[u].num] = u
  BY SaneFacts DEF RegistersAgree
<1>2. \A u \in Values : s.live[u].place = "spill" => s.usedSpill[s.live[u].num] = u
  BY SaneFacts DEF Apart
<1> QED BY <1>1, <1>2

-----------------------------------------------------------------------------
\* Steps from state to state.

\* All values but x are where they were, and the cells they are in and the
\* homes hold what they held.
Keeps(s, t, x) ==
  \A w \in Values : w # x =>
    /\ t.live[w] = s.live[w]
    /\ IsLive(s, w) \/ w \in Homed => t.cell[HolderIn(s, w)] = s.cell[HolderIn(s, w)]
    /\ w \in Homed => t.cell[Home(w)] = s.cell[Home(w)]

LEMMA StillRight ==
  ASSUME NEW s, NEW t, NEW x, Keeps(s, t, x), NEW w \in Values, w # x, NEW e
  PROVE  /\ HolderIn(t, w) = HolderIn(s, w)
         /\ IsLive(t, w) <=> IsLive(s, w)
         /\ w \in Homed /\ VarRight(s, e, w) => VarRight(t, e, w)
         /\ w \in Homed /\ HomeRight(s, e, w) => HomeRight(t, e, w)
         /\ TempRight(s, e, w) => TempRight(t, e, w)
BY DEF Keeps, HolderIn, IsLive, VarRight, TempRight, HomeRight

LEMMA KeepsTwice ==
  ASSUME NEW s, NEW t, NEW u, NEW x, Keeps(s, t, x), Keeps(t, u, x)
  PROVE  Keeps(s, u, x)
BY DEF Keeps, HolderIn, IsLive

LEMMA KeepsSelf == ASSUME NEW s, NEW x PROVE Keeps(s, s, x)
BY DEF Keeps

-----------------------------------------------------------------------------
\* The pool of spill slots.

\* Slots look the same.
LEMMA SameSlots ==
  ASSUME NEW s, NEW t, Sane(s), t.availSpills = s.availSpills, t.usedSpill = s.usedSpill,
         \A w \in Values : t.live[w].place = "spill" => t.live[w] = s.live[w]
  PROVE  Apart(t)
<1>1. \A w \in Values : s.live[w].place = "spill" => s.usedSpill[s.live[w].num] = w
  BY SaneFacts DEF Apart
<1>2. \A w \in Values : t.live[w].place = "spill" => t.usedSpill[t.live[w].num] = w
  BY <1>1
<1>3. Apart(s)
  BY SaneFacts
<1> QED BY <1>2, <1>3 DEF Apart

\* The slot of v goes back to the pool.
LEMMA SlotBack ==
  ASSUME NEW s, NEW t, Sane(s), NEW v \in Values, NEW n \in Spills, s.usedSpill[n] = v,
         t.availSpills.items = Append(s.availSpills.items, n),
         t.usedSpill = [s.usedSpill EXCEPT ![n] = None],
         \A w \in Values \ {v} : t.live[w] = s.live[w],
         t.live[v].place # "spill"
  PROVE  Apart(t) /\ HasItems(t.availSpills)
<1> DEFINE free == s.availSpills.items
           more == t.availSpills.items
<1>1. /\ free \in Seq(Spills) /\ Len(free) \in Nat /\ DOMAIN free = 1 .. Len(free)
      /\ DOMAIN more = 1 .. Len(free) + 1
      /\ more[Len(free) + 1] = n
      /\ \A k \in 1 .. Len(free) : more[k] = free[k]
      /\ more # <<>>
  <2>1. free \in Seq(Spills) /\ more = Append(free, n)
    BY SaneFacts
  <2> HIDE DEF free, more
  <2> QED BY <2>1, LenProperties, AppendProperties
<1>2. /\ s.usedSpill \in [Spills -> Values \cup {None}] /\ v # None
      /\ \A j, k \in DOMAIN free : free[j] = free[k] => j = k
      /\ \A k \in DOMAIN free : s.usedSpill[free[k]] = None
  BY SaneFacts, ValuesFacts DEF Apart
<1>3. \A w \in Values : s.live[w].place = "spill" => s.usedSpill[s.live[w].num] = w
  BY SaneFacts DEF Apart
<1>4. \A k \in 1 .. Len(free) : free[k] # n /\ free[k] \in Spills
  BY <1>1, <1>2, ElementOfSeq
<1>5. \A j, k \in DOMAIN more : more[j] = more[k] => j = k
  BY <1>1, <1>2, <1>4
<1>6. \A k \in DOMAIN more : t.usedSpill[more[k]] = None
  BY <1>1, <1>2, <1>4
<1>7. ASSUME NEW w \in Values, t.live[w].place = "spill" PROVE t.usedSpill[t.live[w].num] = w
  <2>1. w # v /\ t.live[w] = s.live[w] /\ s.usedSpill[s.live[w].num] = w /\ w # None
    BY <1>7, <1>3, ValuesFacts
  <2>2. s.live[w].num \in Spills
    BY <2>1, <1>7, HolderFacts
  <2> QED BY <2>1, <2>2, <1>2
<1> QED BY <1>1, <1>5, <1>6, <1>7 DEF Apart, HasItems

LEMMA SlotOnTop ==
  ASSUME NEW st, st \in [items : Seq(Spills), floor : Spills], st.items # <<>>
  PROVE  /\ Top(st) \in Spills
         /\ Top(st) = st.items[Len(st.items)]
         /\ Pop(st).items \in Seq(Spills)
         /\ Len(Pop(st).items) = Len(st.items) - 1
         /\ \A k \in 1 .. Len(st.items) - 1 : Pop(st).items[k] = st.items[k]
<1> DEFINE q == st.items
           n == Len(st.items) - 1
<1>1. q \in Seq(Spills) /\ n \in Nat /\ DOMAIN q = 1 .. n + 1 /\ q[n + 1] \in Spills
      /\ \A k \in 1 .. n : q[k] \in Spills
  BY EmptySeq, LenProperties, ElementOfSeq
<1>2. Top(st) = q[n + 1] /\ Pop(st).items = SubSeq(q, 1, n)
  <2>1. HasItems(st)
    BY DEF HasItems
  <2>2. Len(st.items) = n + 1
    BY <1>1, LenProperties
  <2> QED BY <2>1, <2>2 DEF Top, Pop
<1>3. SubSeq(q, 1, n) \in Seq(Spills) /\ Len(SubSeq(q, 1, n)) = n
      /\ \A k \in 1 .. n : SubSeq(q, 1, n)[k] = q[k]
  <2> HIDE DEF q, n
  <2>1. 1 \in Int /\ n \in Int
    BY <1>1
  <2>2. /\ SubSeq(q, 1, n) \in Seq(Spills)
        /\ Len(SubSeq(q, 1, n)) = IF 1 <= n THEN n - 1 + 1 ELSE 0
        /\ \A k \in 1 .. n - 1 + 1 : SubSeq(q, 1, n)[k] = q[1 + k - 1]
    BY <1>1, <2>1, SubSeqProperties
  <2> QED BY <1>1, <2>2
<1>4. Len(st.items) = n + 1
  BY <1>1, LenProperties
<1> QED BY <1>1, <1>2, <1>3, <1>4

\* A slot of the pool is given to v.
LEMMA SlotTaken ==
  ASSUME NEW s, NEW t, Sane(s), NEW v \in Values, HasItems(s.availSpills),
         t.availSpills = Pop(s.availSpills),
         t.usedSpill = [s.usedSpill EXCEPT ![Top(s.availSpills)] = v],
         NEW b, t.live[v] = UseInfo("spill", Top(s.availSpills), b),
         \A w \in Values \ {v} : t.live[w] = s.live[w]
  PROVE  /\ Apart(t)
         /\ Top(s.availSpills) \in Spills
         /\ \A w \in Values : s.live[w].place = "spill" => s.live[w].num # Top(s.availSpills)
<1> DEFINE free == s.availSpills.items
           m    == Len(free)
           n    == Top(s.availSpills)
           less == t.availSpills.items
<1>1. /\ n \in Spills /\ m \in Nat \ {0} /\ DOMAIN free = 1 .. m /\ n = free[m]
      /\ DOMAIN less = 1 .. m - 1 /\ \A k \in 1 .. m - 1 : less[k] = free[k]
      /\ \A k \in 1 .. m : free[k] \in Spills
  <2>1. s.availSpills \in [items : Seq(Spills), floor : Spills] /\ free \in Seq(Spills) /\ free # <<>>
    BY SaneFacts DEF HasItems
  <2>2. m \in Nat \ {0} /\ DOMAIN free = 1 .. m /\ \A k \in 1 .. m : free[k] \in Spills
    BY <2>1, EmptySeq, LenProperties, ElementOfSeq
  <2>3. /\ n \in Spills /\ n = free[m] /\ less \in Seq(Spills) /\ Len(less) = m - 1
        /\ \A k \in 1 .. m - 1 : less[k] = free[k]
    BY <2>1, SlotOnTop
  <2> HIDE DEF n, m, free, less
  <2>4. DOMAIN less = 1 .. m - 1
    BY <2>3, LenProperties
  <2> QED BY <2>2, <2>3, <2>4
<1>2. /\ s.usedSpill \in [Spills -> Values \cup {None}]
      /\ \A j, k \in DOMAIN free : free[j] = free[k] => j = k
      /\ \A k \in DOMAIN free : s.usedSpill[free[k]] = None
  BY SaneFacts DEF Apart
<1>3. ASSUME NEW w \in Values, s.live[w].place = "spill"
      PROVE  s.usedSpill[s.live[w].num] = w /\ w # None /\ s.live[w].num \in Spills
  <2>1. Apart(s)
    BY SaneFacts
  <2>2. s.usedSpill[s.live[w].num] = w
    BY <2>1, <1>3 DEF Apart
  <2> QED BY <2>2, <1>3, ValuesFacts, HolderFacts
<1>4. s.usedSpill[n] = None
  BY <1>1, <1>2
<1>5. \A w \in Values : s.live[w].place = "spill" => s.live[w].num # n
  BY <1>3, <1>4
<1>6. t.usedSpill = [s.usedSpill EXCEPT ![n] = v]
  OBVIOUS
<1>7. \A k \in 1 .. m - 1 : less[k] # n /\ k \in 1 .. m
  BY <1>1, <1>2
<1>8. \A j, k \in DOMAIN less : less[j] = less[k] => j = k
  BY <1>1, <1>2
<1>9. \A k \in DOMAIN less : t.usedSpill[less[k]] = None
  <2> SUFFICES ASSUME NEW k \in 1 .. m - 1 PROVE t.usedSpill[less[k]] = None
    BY <1>1
  <2>1. less[k] = free[k] /\ less[k] # n /\ k \in DOMAIN free /\ free[k] \in Spills
    BY <1>1, <1>7
  <2> HIDE DEF n, m, free, less
  <2> QED BY <2>1, <1>2, <1>6
<1>10. ASSUME NEW w \in Values, t.live[w].place = "spill" PROVE t.usedSpill[t.live[w].num] = w
  <2>1. CASE w = v
    BY <2>1, <1>1, <1>2, <1>6 DEF UseInfo
  <2>2. CASE w # v
    <3>1. t.live[w] = s.live[w] /\ s.live[w].num # n
      BY <2>2, <1>5, <1>10
    <3> HIDE DEF n
    <3> QED BY <3>1, <1>2, <1>3, <1>6, <1>10
  <2> QED BY <2>1, <2>2
<1> QED BY <1>1, <1>5, <1>8, <1>9, <1>10 DEF Apart

-----------------------------------------------------------------------------
\* The methods of the state, when they go well.

\* What no method but SpillTemp and Store does: write to memory, take a slot.
Calm(s, t) ==
  /\ Sane(t) /\ t.use = s.use
  /\ HasItems(s.availSpills) => HasItems(t.availSpills)
  /\ \A c \in Cells : c.class # "reg" => t.cell[c] = s.cell[c]

LEMMA CalmTwice ==
  ASSUME NEW s, NEW t, NEW u, Calm(s, t), Calm(t, u)
  PROVE  Calm(s, u)
BY DEF Calm

LEMMA CalmSelf == ASSUME NEW s, Sane(s) PROVE Calm(s, s)
BY DEF Calm

\* The same cells and places keep their values.
LEMMA KeepsSame ==
  ASSUME NEW s, NEW t, t.cell = s.cell, NEW x, \A w \in Values : w # x => t.live[w] = s.live[w]
  PROVE  Keeps(s, t, x)
BY DEF Keeps

LEMMA FreeFacts ==
  ASSUME NEW s, Sane(s), NEW v \in Values, IsLive(s, v)
  PROVE  /\ Calm(s, Free(s, v))
         /\ Free(s, v).cell = s.cell
         /\ Free(s, v).live = [s.live EXCEPT ![v] = Dead]
         /\ Keeps(s, Free(s, v), v)
         /\ ~IsLive(Free(s, v), v)
         /\ Len(Free(s, v).availRegs.items) >= Len(s.availRegs.items)
<1> DEFINE gone == [s EXCEPT !.live[v] = Dead]
           n == s.live[v].num
           t == Free(s, v)
<1>0. /\ s \in States /\ Good(s) /\ Fine(s) /\ s.live \in [Values -> Places]
      /\ s.availRegs \in [items : Seq(Regs), floor : Regs]
      /\ Len(s.availRegs.items) \in Nat
  BY SaneFacts
<1>1. /\ gone.live = [s.live EXCEPT ![v] = Dead] /\ gone.used = s.used
      /\ gone.usedSpill = s.usedSpill /\ gone.panic = s.panic /\ gone.cell = s.cell
      /\ gone.availRegs = s.availRegs /\ gone.availSpills = s.availSpills /\ gone.use = s.use
      /\ gone \in States
  BY <1>0, ValuesFacts DEF States
<1>2. Good(t)
  BY <1>0, FreeGood
<1>3. Dead.place = "dead"
  BY ValuesFacts
<1> HIDE DEF gone
<1>4. /\ t.panic = s.panic /\ t.use = s.use /\ t.cell = s.cell
      /\ t.live = [s.live EXCEPT ![v] = Dead]
      /\ Apart(t)
      /\ HasItems(s.availSpills) => HasItems(t.availSpills)
      /\ Len(t.availRegs.items) >= Len(s.availRegs.items)
  <2>1. CASE s.live[v].place = "reg"
    <3>1. n \in Regs /\ s.used[n] = v /\ v # None
      <4>1. InReg(s, v) /\ RegistersAgree(s)
        BY <2>1, SaneFacts DEF InReg
      <4> QED BY <4>1, HolderFacts, ValuesFacts DEF RegistersAgree
    <3>2. t = FreeReg(gone, n)
      BY <2>1 DEF Free, gone
    <3>3. t = [gone EXCEPT !.used[n] = None, !.availRegs = Push(@, n)]
      BY <3>1, <3>2, <1>1 DEF FreeReg
    <3>4. /\ t.panic = s.panic /\ t.use = s.use /\ t.cell = s.cell
          /\ t.live = [s.live EXCEPT ![v] = Dead]
          /\ t.usedSpill = s.usedSpill /\ t.availSpills = s.availSpills
          /\ t.availRegs = Push(s.availRegs, n)
      BY <3>3, <1>1 DEF States
    <3>5. Len(t.availRegs.items) = Len(s.availRegs.items) + 1
      <4> HIDE DEF t, n
      <4>1. t.availRegs.items = Append(s.availRegs.items, n) /\ s.availRegs.items \in Seq(Regs)
        BY <3>4, <1>0 DEF Push
      <4> QED BY <4>1, <3>1, AppendProperties
    <3> HIDE DEF t
    <3>6. \A w \in Values : t.live[w].place = "spill" => t.live[w] = s.live[w]
      BY <3>4, <1>0, <1>3
    <3>7. Apart(t)
      BY <3>4, <3>6, SameSlots
    <3> QED BY <3>4, <3>5, <3>7, <1>0
  <2>2. CASE s.live[v].place = "spill"
    <3>1. n \in Spills /\ s.usedSpill[n] = v /\ v # None
      <4>1. Apart(s)
        BY SaneFacts
      <4> QED BY <4>1, <2>2, HolderFacts, ValuesFacts DEF Apart
    <3>2. t = FreeSpill(gone, n)
      BY <2>2 DEF Free, gone
    <3>3. t = [gone EXCEPT !.usedSpill[n] = None, !.availSpills = Push(@, n)]
      BY <3>1, <3>2, <1>1 DEF FreeSpill
    <3>4. /\ t.panic = s.panic /\ t.use = s.use /\ t.cell = s.cell
          /\ t.live = [s.live EXCEPT ![v] = Dead]
          /\ t.usedSpill = [s.usedSpill EXCEPT ![n] = None]
          /\ t.availSpills = Push(s.availSpills, n)
          /\ t.availRegs = s.availRegs
      <4> HIDE DEF t, n
      <4> QED BY <3>3, <1>1 DEF States
    <3> HIDE DEF t
    <3>5. t.availSpills.items = Append(s.availSpills.items, n)
      BY <3>4 DEF Push
    <3>6. t.live[v].place # "spill" /\ \A w \in Values \ {v} : t.live[w] = s.live[w]
      BY <3>4, <1>0, <1>3
    <3>7. Apart(t) /\ HasItems(t.availSpills)
      <4>1. n \in Spills /\ s.usedSpill[n] = v /\ t.usedSpill = [s.usedSpill EXCEPT ![n] = None]
        BY <3>1, <3>4
      <4> HIDE DEF n
      <4> QED BY <4>1, <3>5, <3>6, SlotBack
    <3> QED BY <3>4, <3>7, <1>0
  <2>3. CASE s.live[v].place = "callee"
    <3>1. t = gone
      BY <2>3 DEF Free, gone
    <3> HIDE DEF t
    <3>2. /\ t.live = [s.live EXCEPT ![v] = Dead] /\ t.panic = s.panic /\ t.use = s.use
          /\ t.cell = s.cell /\ t.usedSpill = s.usedSpill
          /\ t.availRegs = s.availRegs /\ t.availSpills = s.availSpills
      BY <3>1, <1>1
    <3>4. \A w \in Values : t.live[w].place = "spill" => t.live[w] = s.live[w]
      BY <3>2, <1>0, <1>3
    <3>3. Apart(t)
      BY <3>2, <3>4, SameSlots
    <3> QED BY <3>2, <3>3, <1>0
  <2> HIDE DEF t
  <2> QED BY <2>1, <2>2, <2>3, HolderFacts DEF IsLive
<1> HIDE DEF t
<1>5. \A w \in Values \ {v} : t.live[w] = s.live[w]
  BY <1>4, <1>0
<1>6. ~IsLive(t, v)
  BY <1>4, <1>0, <1>3 DEF IsLive
<1>7. Keeps(s, t, v)
  BY <1>4, <1>5, KeepsSame
<1>8. Calm(s, t)
  BY <1>0, <1>2, <1>4, SameFine DEF Calm, Sane
<1> QED BY <1>4, <1>6, <1>7, <1>8 DEF t

\* One cell is written, and no value moves.
Wrote(s, t, to, x) == t.live = s.live /\ t.cell = [s.cell EXCEPT ![to] = x]

LEMMA StoreFacts ==
  ASSUME NEW s, Sane(s), NEW from, NEW to \in Cells, Read(s, from) \in Tokens
  PROVE  LET t == Store(s, from, to)
         IN /\ Sane(t) /\ t.use = s.use /\ t.live = s.live
            /\ t.availRegs = s.availRegs /\ t.availSpills = s.availSpills
            /\ Wrote(s, t, to, Read(s, from))
<1> DEFINE t == Store(s, from, to)
<1>1. s \in States /\ Good(s) /\ Fine(s) /\ Apart(s)
  BY SaneFacts
<1>2. t = [s EXCEPT !.cell[to] = Read(s, from)]
  BY <1>1 DEF Store, Fine
<1>3. /\ t.use = s.use /\ t.live = s.live /\ t.panic = s.panic
      /\ t.availRegs = s.availRegs /\ t.availSpills = s.availSpills /\ t.usedSpill = s.usedSpill
      /\ t.cell = [s.cell EXCEPT ![to] = Read(s, from)]
  BY <1>1, <1>2 DEF States
<1>4. Good(t)
  BY <1>1, StoreGood
<1> HIDE DEF t
<1>5. Apart(t)
  BY <1>3, SameSlots
<1> QED BY <1>1, <1>3, <1>4, <1>5, SameFine DEF Sane, t, Wrote

\* Storing keeps every value whose place and home are elsewhere.
LEMMA StoreKeeps ==
  ASSUME NEW s, Sane(s), NEW t, NEW to \in Cells, NEW y, NEW x,
         Wrote(s, t, to, y),
         \A w \in Values : w # x =>
           /\ IsLive(s, w) \/ w \in Homed => HolderIn(s, w) # to
           /\ w \in Homed => Home(w) # to
  PROVE  Keeps(s, t, x)
<1>1. s.cell \in [Cells -> Tokens]
  BY SaneFacts
<1>2. \A w \in Values : /\ IsLive(s, w) \/ w \in Homed => HolderIn(s, w) \in Cells
                        /\ w \in Homed => Home(w) \in Cells
  BY HolderFacts, Classes
<1> QED BY <1>1, <1>2 DEF Keeps, Wrote

LEMMA MarkFacts ==
  ASSUME NEW s, Sane(s), NEW v \in Values, IsLive(s, v)
  PROVE  LET t == Mark(s, v)
         IN /\ Sane(t) /\ t.use = s.use /\ t.cell = s.cell
            /\ t.availRegs = s.availRegs /\ t.availSpills = s.availSpills
            /\ \A w \in Values : t.live[w].place = s.live[w].place /\ t.live[w].num = s.live[w].num
            /\ \A w \in Values \ {v} : t.live[w] = s.live[w]
            /\ v \in Temps => t = s
            /\ v \in Homed => t.live[v].mut
<1> DEFINE t == Mark(s, v)
<1>1. s \in States /\ Good(s) /\ Fine(s) /\ Apart(s) /\ s.live \in [Values -> Places]
  BY SaneFacts
<1>2. Good(t)
  BY <1>1, MarkGood
<1>3. CASE v \in Temps
  <2>1. t = s
    BY <1>3, Classes DEF Mark
  <2> QED BY <2>1, <1>3, Classes
<1>4. CASE v \in Homed
  <2>1. t = [s EXCEPT !.live[v].mut = TRUE]
    BY <1>4, Classes DEF Mark
  <2>2. /\ t.use = s.use /\ t.cell = s.cell /\ t.panic = s.panic
        /\ t.availRegs = s.availRegs /\ t.availSpills = s.availSpills /\ t.usedSpill = s.usedSpill
        /\ t.live = [s.live EXCEPT ![v] = [s.live[v] EXCEPT !.mut = TRUE]]
    BY <2>1, <1>1 DEF States
  <2>3. s.live[v] \in Places /\ DOMAIN s.live[v] = {"place", "num", "mut"}
    BY <1>1 DEF Places
  <2> HIDE DEF t
  <2>4. /\ \A w \in Values : t.live[w].place = s.live[w].place /\ t.live[w].num = s.live[w].num
        /\ \A w \in Values \ {v} : t.live[w] = s.live[w]
        /\ t.live[v].mut
    <3>1. /\ \A w \in Values \ {v} : t.live[w] = s.live[w]
          /\ t.live[v] = [s.live[v] EXCEPT !.mut = TRUE]
      BY <2>2, <1>1
    <3>2. t.live[v].place = s.live[v].place /\ t.live[v].num = s.live[v].num /\ t.live[v].mut
      BY <3>1, <2>3
    <3> QED BY <3>1, <3>2
  <2>5. Apart(t)
    <3>1. \A w \in Values : s.live[w].place = "spill" => s.usedSpill[s.live[w].num] = w
      BY <1>1 DEF Apart
    <3>2. \A w \in Values : t.live[w].place = "spill" => t.usedSpill[t.live[w].num] = w
      BY <3>1, <2>2, <2>4
    <3> QED BY <3>2, <2>2, <1>1 DEF Apart
  <2> QED BY <1>1, <1>2, <2>2, <2>4, <2>5, <1>4, SameFine, Classes DEF Sane, t
<1> QED BY <1>3, <1>4, Classes

\* v's register receives a value.
LEMMA RegWrite ==
  ASSUME NEW s, Sane(s), NEW v \in Values, InReg(s, v), NEW t, NEW x,
         NEW to, to = Reg(s.live[v].num),
         Wrote(s, t, to, x)
  PROVE  /\ Keeps(s, t, v)
         /\ HolderIn(t, v) = to
         /\ t.cell[to] = x
         /\ \A c \in Cells : c.class # "reg" => t.cell[c] = s.cell[c]
<1>1. to \in Cells /\ to.class = "reg" /\ HolderIn(s, v) = to /\ s.cell \in [Cells -> Tokens]
  BY HolderFacts, CellFacts, CellNames, SaneFacts
<1>2. HolderIn(t, v) = to
  BY <1>1 DEF HolderIn, IsLive, Wrote
<1>3. ASSUME NEW w \in Values, w # v
      PROVE  /\ IsLive(s, w) \/ w \in Homed => HolderIn(s, w) # to
             /\ w \in Homed => Home(w) # to
  <2>1. w \in Homed => Home(w) # to
    BY <1>1, Classes
  <2>2. InReg(s, w) => HolderIn(s, w) # to
    BY <1>3, OneEach, HolderFacts, CellNames
  <2>3. s.live[w].place \in {"spill", "callee"} => HolderIn(s, w).class \in {"spill", "callee"}
    BY HolderFacts, CellNames
  <2>4. ~IsLive(s, w) /\ w \in Homed => HolderIn(s, w) # to
    BY <2>1, HolderFacts
  <2>5. s.live[w].place \in {"dead", "reg", "spill", "callee"}
    BY HolderFacts
  <2> QED BY <1>1, <2>1, <2>2, <2>3, <2>4, <2>5 DEF InReg, IsLive
<1>4. Keeps(s, t, v)
  BY <1>1, <1>3, StoreKeeps
<1> QED BY <1>1, <1>2, <1>4 DEF Wrote

LEMMA AllocRegFacts ==
  ASSUME NEW s, Sane(s), NEW v \in Values, ~InReg(s, v), HasItems(s.availRegs)
  PROVE  LET t == AllocReg(s, v)
         IN /\ Calm(s, t) /\ InReg(t, v) /\ ~t.live[v].mut
            /\ t.cell = s.cell
            /\ Keeps(s, t, v)
            /\ Len(t.availRegs.items) = Len(s.availRegs.items) - 1
            /\ t.availSpills = s.availSpills
<1> DEFINE t == AllocReg(s, v)
           r == Top(s.availRegs)
<1>1. /\ s \in States /\ Good(s) /\ Fine(s) /\ s.live \in [Values -> Places]
      /\ s.availRegs \in [items : Seq(Regs), floor : Regs]
  BY SaneFacts
<1>2. Good(t)
  BY <1>1, AllocRegGood
<1>3. t = [s EXCEPT !.availRegs = Pop(@), !.used[r] = v, !.live[v] = UseInfo("reg", r, FALSE)]
  BY DEF AllocReg
<1>4. /\ t.live = [s.live EXCEPT ![v] = UseInfo("reg", r, FALSE)] /\ t.panic = s.panic
      /\ t.use = s.use /\ t.cell = s.cell /\ t.usedSpill = s.usedSpill
      /\ t.availSpills = s.availSpills /\ t.availRegs = Pop(s.availRegs)
  <2> HIDE DEF t, r
  <2> QED BY <1>1, <1>3 DEF States
<1>5. Len(Pop(s.availRegs).items) = Len(s.availRegs.items) - 1
  BY <1>1, PopType
<1> HIDE DEF t, r
<1>6. /\ t.live[v] = UseInfo("reg", r, FALSE)
      /\ \A w \in Values \ {v} : t.live[w] = s.live[w]
  BY <1>1, <1>4
<1>7. InReg(t, v) /\ ~t.live[v].mut /\ t.live[v].place # "spill"
  BY <1>6 DEF UseInfo, InReg
<1>8. \A w \in Values : t.live[w].place = "spill" => t.live[w] = s.live[w]
  BY <1>6, <1>7
<1>9. Apart(t)
  BY <1>4, <1>8, SameSlots
<1>10. Calm(s, t)
  BY <1>1, <1>2, <1>4, <1>9, SameFine DEF Calm, Sane
<1>11. Keeps(s, t, v)
  BY <1>4, <1>6, KeepsSame
<1> QED BY <1>4, <1>5, <1>7, <1>10, <1>11 DEF t

LEMMA LoadFacts ==
  ASSUME NEW s, Sane(s), NEW v \in Values, InReg(s, v), NEW from \in Cells
  PROVE  LET t == Load(s, from, v)
         IN /\ Calm(s, t) /\ Keeps(s, t, v)
            /\ t.cell[HolderIn(t, v)] = s.cell[from]
            /\ Wrote(s, t, Reg(s.live[v].num), s.cell[from])
            /\ t.availRegs = s.availRegs /\ t.availSpills = s.availSpills
<1> DEFINE t == Load(s, from, v)
<1>0. PICK to : to = Reg(s.live[v].num)
  OBVIOUS
<1>1. Read(s, from) = s.cell[from] /\ s.cell[from] \in Tokens
  BY SaneFacts, CellRead
<1>2. to \in Cells
  BY <1>0, HolderFacts, CellFacts
<1>3. t = Store(s, from, to)
  BY <1>0 DEF Load
<1>4. /\ Sane(t) /\ t.use = s.use /\ Wrote(s, t, to, s.cell[from])
      /\ t.availRegs = s.availRegs /\ t.availSpills = s.availSpills
  BY <1>1, <1>2, <1>3, StoreFacts
<1> HIDE DEF t
<1>5. /\ Keeps(s, t, v) /\ t.cell[HolderIn(t, v)] = s.cell[from]
      /\ \A c \in Cells : c.class # "reg" => t.cell[c] = s.cell[c]
  <2>1. Wrote(s, t, to, s.cell[from]) /\ to = Reg(s.live[v].num)
    BY <1>0, <1>4
  <2>2. PICK y : y = s.cell[from]
    OBVIOUS
  <2>3. Wrote(s, t, to, y)
    BY <2>1, <2>2
  <2>4. Keeps(s, t, v)
    BY <2>1, <2>3, RegWrite
  <2>5. HolderIn(t, v) = to
    BY <2>1, <2>3, RegWrite
  <2>6. t.cell[to] = y
    BY <2>1, <2>3, RegWrite
  <2>7. \A c \in Cells : c.class # "reg" => t.cell[c] = s.cell[c]
    BY <2>1, <2>3, RegWrite
  <2> QED BY <2>2, <2>4, <2>5, <2>6, <2>7
<1>6. Calm(s, t)
  BY <1>4, <1>5 DEF Calm
<1> QED BY <1>0, <1>4, <1>5, <1>6 DEF t

\* _allocReg as _loadSpill uses it: the slot is free already.
LEMMA UnspillFacts ==
  ASSUME NEW s, Sane(s), NEW v \in Values, s.live[v].place = "spill", HasItems(s.availRegs)
  PROVE  LET t == AllocReg(FreeSpill(s, s.live[v].num), v)
         IN /\ Calm(s, t) /\ InReg(t, v) /\ ~t.live[v].mut
            /\ t.cell = s.cell
            /\ Keeps(s, t, v)
            /\ Len(t.availRegs.items) = Len(s.availRegs.items) - 1
<1> DEFINE n == s.live[v].num
           f == FreeSpill(s, n)
           t == AllocReg(f, v)
           r == Top(s.availRegs)
<1>1. /\ s \in States /\ Good(s) /\ Fine(s) /\ s.live \in [Values -> Places]
      /\ s.availRegs \in [items : Seq(Regs), floor : Regs]
      /\ s.usedSpill \in [Spills -> Values \cup {None}]
  BY SaneFacts
<1>2. n \in Spills /\ s.usedSpill[n] = v /\ v # None
  <2>1. Apart(s)
    BY SaneFacts
  <2> QED BY <2>1, HolderFacts, ValuesFacts DEF Apart
<1>3. f = [s EXCEPT !.usedSpill[n] = None, !.availSpills = Push(@, n)]
  BY <1>2 DEF FreeSpill
<1>4. /\ f.live = s.live /\ f.panic = s.panic /\ f.use = s.use /\ f.cell = s.cell
      /\ f.availRegs = s.availRegs /\ f.availSpills = Push(s.availSpills, n)
      /\ f.usedSpill = [s.usedSpill EXCEPT ![n] = None]
      /\ f.used = s.used /\ Good(f)
  <2>1. Good(f)
    BY <1>1, <1>2, FreeSpillGood
  <2> HIDE DEF f
  <2> QED BY <1>1, <1>3, <2>1 DEF States
<1> HIDE DEF f
<1>5. f \in States /\ Fine(f) /\ ~InReg(f, v)
  BY <1>1, <1>4, SameFine DEF Good, InReg
<1>6. Good(t)
  BY <1>1, <1>4, AllocRegGood
<1>7. t = [f EXCEPT !.availRegs = Pop(@), !.used[r] = v, !.live[v] = UseInfo("reg", r, FALSE)]
  BY <1>4, <1>5 DEF AllocReg
<1> HIDE DEF t, r
<1>8. /\ t.live = [s.live EXCEPT ![v] = UseInfo("reg", r, FALSE)] /\ t.panic = s.panic
      /\ t.use = s.use /\ t.cell = s.cell
      /\ t.availSpills = Push(s.availSpills, n) /\ t.availRegs = Pop(s.availRegs)
  BY <1>4, <1>5, <1>7 DEF States
<1>9. t.usedSpill = [s.usedSpill EXCEPT ![n] = None]
  BY <1>4, <1>5, <1>7 DEF States
<1>10. Len(Pop(s.availRegs).items) = Len(s.availRegs.items) - 1
  BY <1>1, PopType
<1>11. /\ t.live[v] = UseInfo("reg", r, FALSE)
       /\ \A w \in Values \ {v} : t.live[w] = s.live[w]
  BY <1>1, <1>8
<1>12. InReg(t, v) /\ ~t.live[v].mut /\ t.live[v].place # "spill"
  BY <1>11 DEF UseInfo, InReg
<1>13. t.availSpills.items = Append(s.availSpills.items, n)
  BY <1>8 DEF Push
<1>14. Apart(t) /\ HasItems(t.availSpills)
  <2>1. n \in Spills /\ s.usedSpill[n] = v /\ t.usedSpill = [s.usedSpill EXCEPT ![n] = None]
    BY <1>2, <1>9
  <2>2. t.live[v].place # "spill" /\ \A w \in Values \ {v} : t.live[w] = s.live[w]
    BY <1>11, <1>12
  <2> HIDE DEF n
  <2> QED BY <2>1, <2>2, <1>13, SlotBack
<1>15. Calm(s, t)
  BY <1>1, <1>6, <1>8, <1>14, SameFine DEF Calm, Sane
<1>16. Keeps(s, t, v)
  BY <1>8, <1>11, KeepsSame
<1> QED BY <1>8, <1>10, <1>12, <1>15, <1>16 DEF t, f

\* ensureImmediate while a register is free: v gets one and keeps its value.
LEMMA EnsureFacts ==
  ASSUME NEW s, Sane(s), NEW i, NEW v \in Values, HasItems(s.availRegs),
         NEW t \in EnsureImmediate(s, i, v)
  PROVE  /\ Calm(s, t) /\ InReg(t, v) /\ Keeps(s, t, v)
         /\ InReg(s, v) => t = s
         /\ ~InReg(s, v) => ~t.live[v].mut
         /\ IsLive(s, v) \/ v \in Homed => t.cell[HolderIn(t, v)] = s.cell[HolderIn(s, v)]
         /\ v \in Temps /\ ~IsLive(s, v) => t.cell = s.cell
         /\ Len(t.availRegs.items) >= Len(s.availRegs.items) - 1
<1>0. Len(s.availRegs.items) \in Nat
  BY SaneFacts
<1>1. CASE InReg(s, v)
  <2>1. t = s
    BY <1>1 DEF EnsureImmediate
  <2> QED BY <2>1, <1>0, <1>1, CalmSelf, KeepsSelf DEF InReg, IsLive
<1>2. CASE ~InReg(s, v)
  <2> DEFINE loc == s.live[v]
  <2>0. \A u : HasItems(u.availRegs) => GrabReg(u, i, v) = {AllocReg(u, v)}
    BY DEF GrabReg
  <2>1. ASSUME NEW u, NEW from \in Cells, t = Load(u, from, v), Calm(s, u), InReg(u, v),
               ~u.live[v].mut, u.cell = s.cell, Keeps(s, u, v),
               Len(u.availRegs.items) = Len(s.availRegs.items) - 1
        PROVE  /\ Calm(s, t) /\ InReg(t, v) /\ Keeps(s, t, v) /\ ~t.live[v].mut
               /\ t.cell[HolderIn(t, v)] = s.cell[from]
               /\ Len(t.availRegs.items) >= Len(s.availRegs.items) - 1
    <3>1. Sane(u)
      BY <2>1 DEF Calm
    <3>2. /\ Calm(u, t) /\ Keeps(u, t, v)
          /\ t.cell[HolderIn(t, v)] = u.cell[from]
          /\ Wrote(u, t, Reg(u.live[v].num), u.cell[from])
          /\ t.availRegs = u.availRegs
      BY <2>1, <3>1, LoadFacts
    <3>3. Calm(s, t) /\ Keeps(s, t, v)
      BY <2>1, <3>2, CalmTwice, KeepsTwice
    <3>4. InReg(t, v) /\ ~t.live[v].mut
      BY <2>1, <3>2 DEF Wrote, InReg
    <3>5. Len(t.availRegs.items) >= Len(s.availRegs.items) - 1
      BY <2>1, <3>2, <1>0
    <3>6. t.cell[HolderIn(t, v)] = s.cell[from]
      BY <2>1, <3>2
    <3> QED BY <3>3, <3>4, <3>5, <3>6
  <2>2. CASE loc.place = "spill"
    <3>1. Slot(loc.num) \in Cells /\ HolderIn(s, v) = Slot(loc.num) /\ IsLive(s, v)
      BY <2>2, HolderFacts, CellFacts
    <3>2. FreeSpill(s, loc.num).availRegs = s.availRegs
      BY <2>2, FreeSpillGood, SaneFacts, HolderFacts
    <3>3. t = Load(AllocReg(FreeSpill(s, loc.num), v), Slot(loc.num), v)
      BY <1>2, <2>0, <2>2, <3>2 DEF EnsureImmediate
    <3> DEFINE u == AllocReg(FreeSpill(s, loc.num), v)
    <3>4. /\ Calm(s, u) /\ InReg(u, v) /\ ~u.live[v].mut /\ u.cell = s.cell /\ Keeps(s, u, v)
          /\ Len(u.availRegs.items) = Len(s.availRegs.items) - 1
      BY <2>2, UnspillFacts
    <3>5. t = Load(u, Slot(loc.num), v)
      BY <3>3
    <3> HIDE DEF u
    <3> QED BY <1>2, <3>1, <3>4, <3>5, <2>1
  <2>3. CASE loc.place = "callee"
    <3>1. Callee(loc.num) \in Cells /\ HolderIn(s, v) = Callee(loc.num) /\ IsLive(s, v)
      BY <2>3, HolderFacts, CellFacts
    <3>3. t = Load(AllocReg(s, v), Callee(loc.num), v)
      BY <1>2, <2>0, <2>3 DEF EnsureImmediate
    <3> DEFINE u == AllocReg(s, v)
    <3>4. /\ Calm(s, u) /\ InReg(u, v) /\ ~u.live[v].mut /\ u.cell = s.cell /\ Keeps(s, u, v)
          /\ Len(u.availRegs.items) = Len(s.availRegs.items) - 1
      BY <1>2, AllocRegFacts
    <3>5. t = Load(u, Callee(loc.num), v)
      BY <3>3
    <3> HIDE DEF u
    <3> QED BY <1>2, <3>1, <3>4, <3>5, <2>1
  <2>4. CASE loc.place = "dead" /\ v \in Homed
    <3>1. Home(v) \in Cells /\ HolderIn(s, v) = Home(v) /\ v.class # "temp"
      BY <2>4, HolderFacts, Classes DEF IsLive
    <3>3. t = Load(AllocReg(s, v), Home(v), v)
      BY <1>2, <2>0, <2>4, <3>1 DEF EnsureImmediate
    <3> DEFINE u == AllocReg(s, v)
    <3>4. /\ Calm(s, u) /\ InReg(u, v) /\ ~u.live[v].mut /\ u.cell = s.cell /\ Keeps(s, u, v)
          /\ Len(u.availRegs.items) = Len(s.availRegs.items) - 1
      BY <1>2, AllocRegFacts
    <3>5. t = Load(u, Home(v), v)
      BY <3>3
    <3> HIDE DEF u
    <3> QED BY <1>2, <2>4, <3>1, <3>4, <3>5, <2>1, Classes
  <2>5. CASE loc.place = "dead" /\ v \in Temps
    <3>1. t = AllocReg(s, v)
      BY <1>2, <2>0, <2>5, Classes DEF EnsureImmediate
    <3>2. v \notin Homed /\ ~IsLive(s, v)
      BY <2>5, Classes DEF IsLive
    <3>3. /\ Calm(s, t) /\ InReg(t, v) /\ ~t.live[v].mut /\ t.cell = s.cell /\ Keeps(s, t, v)
          /\ Len(t.availRegs.items) = Len(s.availRegs.items) - 1
      BY <1>2, <3>1, AllocRegFacts
    <3> QED BY <1>2, <1>0, <3>2, <3>3
  <2> QED BY <1>2, <2>2, <2>3, <2>4, <2>5, HolderFacts, Classes DEF InReg
<1> QED BY <1>1, <1>2

\* freeIfNotNeededAndNotMutated.
LEMMA ReleaseFacts ==
  ASSUME NEW s, Sane(s), NEW i \in Nat, NEW ins, NEW v
  PROVE  LET t == FreeIfUnneeded(s, i, ins, v)
         IN /\ Calm(s, t) /\ t.cell = s.cell /\ Keeps(s, t, v)
            /\ Len(t.availRegs.items) >= Len(s.availRegs.items)
            /\ \/ t = s
               \/ /\ v \in Values /\ t.live[v] = Dead
                  /\ ~ \E k \in DOMAIN ins.dest : ins.dest[k] = v
                  /\ s.use[v] <= i /\ ~s.live[v].mut /\ IsLive(s, v)
<1> DEFINE t == FreeIfUnneeded(s, i, ins, v)
<1>0. Len(s.availRegs.items) \in Nat /\ s.use \in [Values -> Nat] /\ s.live \in [Values -> Places]
  BY SaneFacts
<1>1. CASE t = s
  BY <1>0, <1>1, CalmSelf, KeepsSelf
<1>2. CASE t # s
  <2>1. /\ v \in Values /\ ~ \E k \in DOMAIN ins.dest : ins.dest[k] = v
        /\ IsLive(s, v) /\ ~IsNeeded(s, i, v) /\ ~s.live[v].mut
        /\ t = Free(s, v)
    BY <1>2 DEF FreeIfUnneeded
  <2> HIDE DEF t
  <2>2. s.use[v] <= i
    BY <1>0, <2>1 DEF IsNeeded
  <2>3. /\ Calm(s, t) /\ t.cell = s.cell /\ Keeps(s, t, v)
        /\ t.live = [s.live EXCEPT ![v] = Dead]
        /\ Len(t.availRegs.items) >= Len(s.availRegs.items)
    BY <2>1, FreeFacts
  <2>4. t.live[v] = Dead
    BY <1>0, <2>1, <2>3
  <2> QED BY <2>1, <2>2, <2>3, <2>4 DEF t
<1> QED BY <1>1, <1>2

LEMMA ItemsLeft ==
  ASSUME NEW s, Sane(s), Len(s.availRegs.items) >= 1
  PROVE  HasItems(s.availRegs)
<1>1. s.availRegs.items = <<>> => Len(s.availRegs.items) = 0
  OBVIOUS
<1> QED BY <1>1 DEF HasItems

-----------------------------------------------------------------------------
\* spillTemp, while a slot is free.

LEMMA SpillFacts ==
  ASSUME NEW s, Sane(s), NEW v \in Values, InReg(s, v), HasItems(s.availSpills)
  PROVE  LET t == SpillTemp(s, s.live[v].num)
         IN /\ Sane(t) /\ t.use = s.use /\ Keeps(s, t, v)
            /\ t.live[v].place = "spill"
            /\ t.cell[HolderIn(t, v)] = s.cell[HolderIn(s, v)]
            /\ \A c \in Cells : c.class # "spill" => t.cell[c] = s.cell[c]
<1> DEFINE r == s.live[v].num
           n == Top(s.availSpills)
           m == s.live[v].mut
           t == SpillTemp(s, r)
           f == FreeReg(s, r)
<1>1. /\ s \in States /\ Good(s) /\ Fine(s) /\ RegistersAgree(s) /\ s.live \in [Values -> Places]
      /\ s.cell \in [Cells -> Tokens] /\ r \in Regs
  BY SaneFacts, HolderFacts
<1>2. s.used[r] = v /\ v # None
  BY <1>1, ValuesFacts DEF RegistersAgree
<1>3. f = [s EXCEPT !.used[r] = None, !.availRegs = Push(@, r)]
  BY <1>2 DEF FreeReg
<1>4. /\ f.availSpills = s.availSpills /\ f.usedSpill = s.usedSpill /\ f.live = s.live
      /\ f.cell = s.cell /\ f.panic = s.panic /\ f.use = s.use /\ f \in States
  <2>1. f \in States
    BY <1>1, FreeRegType
  <2> HIDE DEF r, f
  <2> QED BY <1>1, <1>3, <2>1 DEF States
<1>5. t = [f EXCEPT !.availSpills = Pop(@),
                    !.usedSpill[n] = v,
                    !.live[v] = UseInfo("spill", n, m),
                    !.numSpills = IF n + 1 > @ THEN n + 1 ELSE @,
                    !.cell[Slot(n)] = s.cell[Reg(r)]]
  BY <1>2, <1>4 DEF SpillTemp
<1>6. Good(t)
  BY <1>1, SpillTempGood
<1> HIDE DEF t, f, n, m, r
<1>7. /\ t.availSpills = Pop(s.availSpills) /\ t.usedSpill = [s.usedSpill EXCEPT ![n] = v]
      /\ t.live = [s.live EXCEPT ![v] = UseInfo("spill", n, m)]
      /\ t.panic = s.panic /\ t.use = s.use
      /\ t.cell = [s.cell EXCEPT ![Slot(n)] = s.cell[Reg(r)]]
  <2> DEFINE u == UseInfo("spill", n, m)
             c == Slot(n)
             x == s.cell[Reg(r)]
             k == IF n + 1 > f.numSpills THEN n + 1 ELSE f.numSpills
  <2>1. t = [f EXCEPT !.availSpills = Pop(@), !.usedSpill[n] = v, !.live[v] = u,
                      !.numSpills = k, !.cell[c] = x]
    BY <1>4, <1>5
  <2> HIDE DEF u, c, x, k
  <2>2. /\ t.availSpills = Pop(s.availSpills) /\ t.usedSpill = [s.usedSpill EXCEPT ![n] = v]
        /\ t.live = [s.live EXCEPT ![v] = u]
        /\ t.panic = s.panic /\ t.use = s.use
        /\ t.cell = [s.cell EXCEPT ![c] = x]
    BY <1>4, <2>1 DEF States
  <2> QED BY <2>2 DEF u, c, x
<1>8. /\ t.live[v] = UseInfo("spill", n, m)
      /\ \A w \in Values \ {v} : t.live[w] = s.live[w]
  BY <1>1, <1>7
<1>9. /\ Apart(t) /\ n \in Spills
      /\ \A w \in Values : s.live[w].place = "spill" => s.live[w].num # n
  <2>1. t.availSpills = Pop(s.availSpills) /\ t.usedSpill = [s.usedSpill EXCEPT ![Top(s.availSpills)] = v]
        /\ t.live[v] = UseInfo("spill", Top(s.availSpills), m)
        /\ \A w \in Values \ {v} : t.live[w] = s.live[w]
    BY <1>7, <1>8 DEF n
  <2> QED BY <2>1, SlotTaken DEF n
<1>10. Sane(t)
  BY <1>1, <1>6, <1>7, <1>9, SameFine DEF Sane
<1>11. t.live[v].place = "spill" /\ HolderIn(t, v) = Slot(n) /\ HolderIn(s, v) = Reg(r)
  <2>1. t.live[v].place = "spill" /\ t.live[v].num = n
    BY <1>8 DEF UseInfo
  <2> QED BY <1>10, <2>1, HolderFacts DEF r
<1>12. Slot(n) \in Cells /\ Slot(n).class = "spill"
  BY <1>9, CellFacts, CellNames
<1>13. /\ t.cell[Slot(n)] = s.cell[Reg(r)]
       /\ \A c \in Cells : c # Slot(n) => t.cell[c] = s.cell[c]
  BY <1>1, <1>7, <1>12
<1>14. Keeps(s, t, v)
  <2> SUFFICES ASSUME NEW w \in Values, w # v
               PROVE  /\ t.live[w] = s.live[w]
                      /\ IsLive(s, w) \/ w \in Homed => t.cell[HolderIn(s, w)] = s.cell[HolderIn(s, w)]
                      /\ w \in Homed => t.cell[Home(w)] = s.cell[Home(w)]
    BY DEF Keeps
  <2>1. w \in Homed => Home(w) \in Cells /\ Home(w) # Slot(n)
    BY <1>12, Classes
  <2>2. /\ s.live[w].place = "spill" => HolderIn(s, w) # Slot(n)
        /\ InReg(s, w) => HolderIn(s, w) # Slot(n)
        /\ s.live[w].place = "callee" => HolderIn(s, w) # Slot(n)
        /\ ~IsLive(s, w) => HolderIn(s, w) = Home(w)
    BY <1>9, <1>12, HolderFacts, CellNames
  <2>3. IsLive(s, w) \/ w \in Homed => HolderIn(s, w) \in Cells /\ HolderIn(s, w) # Slot(n)
    BY <2>1, <2>2, HolderFacts DEF InReg, IsLive
  <2> QED BY <1>8, <1>13, <2>1, <2>3
<1> QED BY <1>7, <1>10, <1>11, <1>12, <1>13, <1>14 DEF t, r

-----------------------------------------------------------------------------
\* What holds of the allocator between its steps.

InCall == {"spillregs", "spillinterproc", "args", "clear", "release"}

Pending ==
  /\ phase \in InCall => idx < End /\ Ins.t = "call"
  /\ phase = "spillregs" => \A v \in todo : InReg(alloc, v)
  /\ phase = "spillinterproc" => \A v \in todo : alloc.live[v].place = "callee"
  /\ phase = "clear" => \A v \in Values : InReg(alloc, v) => v \in todo

Inv == TypeOK /\ RegisterFile /\ Pending

-----------------------------------------------------------------------------
\* What well-formedness says of the instruction at hand.

LEMMA BlockFacts ==
  ASSUME WellFormed(block)
  PROVE  /\ End \in Nat /\ Len(block.out.v) \in Nat
         /\ block.code \in Seq(Instrs)
         /\ Outs \in Seq(Operands)
         /\ \A k \in 1 .. Len(Outs) : Outs[k] \in Operands
<1>1. block.code \in Seq(Instrs) /\ block.out.v \in Seq(Operands)
  BY DEF WellFormed, WellFormedFlow
<1> QED BY <1>1, LenProperties, ElementOfSeq DEF End, Outs

LEMMA InsFacts ==
  ASSUME WellFormed(block), idx \in 0 .. End, idx < End
  PROVE  /\ Ins \in Instrs /\ Ins.dest \in Seq(Values)
         /\ \A k \in 1 .. Len(Ins.ops) : Ins.ops[k] \in Operands
         /\ \A k \in DOMAIN Ins.dest : Ins.dest[k] \in Values
         /\ Ins.t \in {"bin", "storeptr"} => Len(Ins.ops) = 2
         /\ Ins.t \in {"un", "loadptr", "copy"} => Len(Ins.ops) = 1
         /\ Ins.t \in {"bin", "un", "loadptr", "copy"} =>
              Len(Ins.dest) = 1 /\ DOMAIN Ins.dest = {1}
         /\ Ins.t = "storeptr" => DOMAIN Ins.dest = {}
         /\ Ins.t = "call" =>
              /\ Ins.ops # <<>>
              /\ Len(Ins.ops) \in 1 .. NumSlots + 1
              /\ Len(Ins.dest) \in 0 .. NumSlots
              /\ DOMAIN Ins.dest = 1 .. Len(Ins.dest)
              /\ \A k \in DOMAIN Ins.dest : Ins.dest[k] \in Temps /\ Ins.dest[k] # Ins.ops[1]
<1>1. End \in Nat /\ block.code \in Seq(Instrs)
  BY BlockFacts
<1>2. idx + 1 \in 1 .. Len(block.code) /\ idx + 1 \in DOMAIN block.code
  BY <1>1 DEF End
<1>3. /\ WellFormedInstr(Ins)
      /\ Ins.t = "call" => Len(Ins.ops) - 1 <= NumSlots /\ Len(Ins.dest) <= NumSlots
  BY <1>2 DEF WellFormed, Ins
<1>4. Ins \in Instrs /\ Ins.ops \in Seq(Operands) /\ Ins.dest \in Seq(Values)
  BY <1>3 DEF WellFormedInstr, Instrs
<1>5. /\ Len(Ins.ops) \in Nat /\ Len(Ins.dest) \in Nat
      /\ DOMAIN Ins.dest = 1 .. Len(Ins.dest)
      /\ \A k \in 1 .. Len(Ins.ops) : Ins.ops[k] \in Operands
      /\ \A k \in DOMAIN Ins.dest : Ins.dest[k] \in Values
  BY <1>4, LenProperties, ElementOfSeq
<1>6. Ins.t # "call" => <<Len(Ins.ops), Len(Ins.dest)>> = Arity[Ins.t]
  BY <1>3 DEF WellFormedInstr
<1>7. /\ Ins.t \in {"bin", "storeptr"} => Len(Ins.ops) = 2
      /\ Ins.t \in {"un", "loadptr", "copy"} => Len(Ins.ops) = 1
      /\ Ins.t \in {"bin", "un", "loadptr", "copy"} => Len(Ins.dest) = 1
      /\ Ins.t = "storeptr" => Len(Ins.dest) = 0
  <2> DEFINE n == Len(Ins.ops)
             m == Len(Ins.dest)
  <2>1. /\ Arity["bin"] = <<2, 1>> /\ Arity["un"] = <<1, 1>>
        /\ Arity["loadptr"] = <<1, 1>> /\ Arity["copy"] = <<1, 1>>
        /\ Arity["storeptr"] = <<2, 0>>
    BY DEF Arity
  <2>2. Ins.t # "call" => <<n, m>> = Arity[Ins.t]
    BY <1>6
  <2> HIDE DEF n, m
  <2>3. /\ Ins.t = "bin" => n = 2 /\ m = 1
        /\ Ins.t = "storeptr" => n = 2 /\ m = 0
        /\ Ins.t \in {"un", "loadptr", "copy"} => n = 1 /\ m = 1
    BY <2>1, <2>2
  <2> QED BY <2>3 DEF n, m
<1>8. Ins.t = "call" =>
        /\ Ins.ops # <<>>
        /\ \A k \in DOMAIN Ins.dest : Ins.dest[k] \in Temps /\ Ins.dest[k] # Ins.ops[1]
  BY <1>3 DEF WellFormedInstr
<1>9. Ins.ops # <<>> => Len(Ins.ops) # 0
  BY <1>4, EmptySeq
<1>10. Ins.t = "call" => Len(Ins.ops) \in 1 .. NumSlots + 1 /\ Len(Ins.dest) \in 0 .. NumSlots
  BY <1>3, <1>5, <1>8, <1>9, AllocSizes
<1>11. (Len(Ins.dest) = 1 => DOMAIN Ins.dest = {1}) /\ (Len(Ins.dest) = 0 => DOMAIN Ins.dest = {})
  <2> DEFINE m == Len(Ins.dest)
  <2>1. DOMAIN Ins.dest = 1 .. m
    BY <1>5
  <2>2. 1 .. 1 = {1} /\ 1 .. 0 = {}
    OBVIOUS
  <2> HIDE DEF m
  <2>3. (m = 1 => DOMAIN Ins.dest = {1}) /\ (m = 0 => DOMAIN Ins.dest = {})
    BY <2>1, <2>2
  <2> QED BY <2>3 DEF m
<1> QED BY <1>4, <1>5, <1>7, <1>8, <1>10, <1>11

-----------------------------------------------------------------------------
\* A step that leaves the code of the block where it is.

LEMMA BecomeGood ==
  ASSUME NEW t, Good(t), NEW next \in Phases \ {"panicked"}, Become(t, next)
  PROVE  /\ alloc' = t /\ alloc' \in States
         /\ phase' \in Phases
         /\ (phase' = "panicked") <=> (alloc'.panic # "")
         /\ RegisterFile'
         /\ phase' \in {next, "panicked"}
BY DEF Become, Good, RegisterFile, Phases

LEMMA EmitGood ==
  ASSUME NEW t, Good(t), idx \in Nat, NEW from, NEW to
  PROVE  Good(Emit(t, from, to)) /\ Emit(t, from, to).panic = t.panic
<1> DEFINE token == IF Reads(t, from) THEN Result(idx, 0) ELSE Junk
<1>1. token \in Tokens
  BY DEF Result, Tokens
<1>2. Emit(t, from, to) = IF to = None THEN t ELSE [t EXCEPT !.cell[to] = token]
  BY DEF Emit
<1> HIDE DEF token
<1>3. CASE to = None
  BY <1>2, <1>3
<1>4. CASE to # None
  <2> DEFINE u == [t EXCEPT !.cell[to] = token]
  <2>1. u \in States /\ u.panic = t.panic
    BY <1>1 DEF Good, States
  <2>2. u.availRegs = t.availRegs /\ u.used = t.used /\ u.live = t.live
    BY DEF Good, States
  <2>3. \A r \in Regs : t.used[r] \in Values \cup {None}
    BY DEF Good, States
  <2> HIDE DEF u
  <2>4. RegistersAgree(t) => RegistersAgree(u)
    BY <2>2, <2>3, SameRegisters DEF InReg
  <2> QED BY <1>2, <1>4, <2>1, <2>4 DEF Good, u
<1> QED BY <1>3, <1>4

LEMMA DefinedType ==
  ASSUME NEW value, env \in [Values -> Tokens],
         \A k \in DOMAIN Ins.dest : value[k] \in Tokens
  PROVE  Defined(value) \in [Values -> Tokens]
BY DEF Defined

\* The next instruction, with all the work on this one done.
LEMMA NextInv ==
  ASSUME Inv, idx < End, NEW t, Good(t), Become(t, "code"), idx' = idx + 1,
         UNCHANGED <<block, todo, pos, late>>,
         env' \in [Values -> Tokens], misread' \subseteq misread \cup {idx}
  PROVE  Inv'
<1>1. /\ alloc' \in States /\ phase' \in Phases
      /\ (phase' = "panicked") <=> (alloc'.panic # "")
      /\ RegisterFile' /\ phase' \in {"code", "panicked"}
  BY BecomeGood DEF Phases
<1>2. End' = End /\ Outs' = Outs
  BY DEF End, Outs
<1>3. idx' \in 0 .. End /\ misread' \subseteq 0 .. End - 1
  <2>1. End \in Nat /\ idx \in 0 .. End /\ misread \subseteq 0 .. End - 1
    BY BlockFacts DEF Inv, TypeOK
  <2>2. idx + 1 \in 0 .. End /\ idx \in 0 .. End - 1
    BY <2>1
  <2> QED BY <2>1, <2>2
<1>4. TypeOK'
  BY <1>1, <1>2, <1>3 DEF Inv, TypeOK, WellFormed
<1>5. Pending'
  BY <1>1 DEF Pending, InCall
<1> QED BY <1>1, <1>4, <1>5 DEF Inv

LEMMA AdvanceInv ==
  ASSUME Inv, phase = "code", idx < End, NEW t, Good(t), NEW ok, NEW value,
         \A k \in DOMAIN Ins.dest : value[k] \in Tokens,
         Advance(t, ok, value)
  PROVE  Inv'
<1>1. env' \in [Values -> Tokens]
  BY DefinedType DEF Advance, Inv, TypeOK
<1>2. misread' \subseteq misread \cup {idx}
  BY DEF Advance, Noted
<1> QED BY <1>1, <1>2, NextInv DEF Advance

-----------------------------------------------------------------------------
\* Instructions that are one step: each is a chain of methods, ended by
\* Advance.

LEMMA Typing ==
  ASSUME Inv, phase = "code", idx < End
  PROVE  /\ Good(alloc) /\ alloc.panic = "" /\ idx \in Nat
         /\ Result(idx, 0) \in Tokens
         /\ WellFormed(block) /\ idx \in 0 .. End
         /\ \A k \in DOMAIN Ins.dest : Ins.dest[k] \in Values
<1>1. /\ alloc \in States /\ alloc.panic = "" /\ RegistersAgree(alloc)
      /\ idx \in 0 .. End /\ WellFormed(block)
  BY DEF Inv, TypeOK, RegisterFile
<1>2. idx \in Nat
  <2>1. End \in Nat
    BY <1>1, BlockFacts
  <2>2. idx \in 0 .. End
    BY <1>1
  <2> QED BY <2>1, <2>2
<1> QED BY <1>1, <1>2, InsFacts DEF Good, Result, Tokens

LEMMA BinaryInv ==
  ASSUME Inv, AllocBinary
  PROVE  Inv'
<1>1. /\ phase = "code" /\ idx < End
      /\ Good(alloc) /\ idx \in Nat /\ Result(idx, 0) \in Tokens
      /\ DOMAIN Ins.dest = {1} /\ Ins.dest[1] \in Values
  BY Typing, InsFacts DEF AllocBinary, At
<1> DEFINE a == Ins.ops[1]
           b == Ins.ops[2]
           c == Ins.dest[1]
<1>2. PICK x \in EnsureImmediate(alloc, idx, a) :
      \E y \in EnsureImmediate(x, idx, b) :
      LET from == <<Immediate(x, a), Immediate(y, b)>>
          f    == FreeIfUnneeded(FreeIfUnneeded(y, idx, Ins, a), idx, Ins, b)
      IN \E z \in EnsureImmediate(f, idx, c) :
           Advance(Emit(Mark(z, c), from, Immediate(z, c)),
                   Reads(z, from), <<Result(idx, 0)>>)
  BY DEF AllocBinary
<1>3. PICK y \in EnsureImmediate(x, idx, b) :
      LET from == <<Immediate(x, a), Immediate(y, b)>>
          f    == FreeIfUnneeded(FreeIfUnneeded(y, idx, Ins, a), idx, Ins, b)
      IN \E z \in EnsureImmediate(f, idx, c) :
           Advance(Emit(Mark(z, c), from, Immediate(z, c)),
                   Reads(z, from), <<Result(idx, 0)>>)
  BY <1>2
<1> DEFINE from == <<Immediate(x, a), Immediate(y, b)>>
           e == FreeIfUnneeded(y, idx, Ins, a)
           f == FreeIfUnneeded(e, idx, Ins, b)
<1>4. PICK z \in EnsureImmediate(f, idx, c) :
           Advance(Emit(Mark(z, c), from, Immediate(z, c)),
                   Reads(z, from), <<Result(idx, 0)>>)
  BY <1>3
<1> HIDE DEF from, e, f, a, b, c
<1>5. Good(x) /\ Good(y)
  BY <1>1, <1>2, <1>3, EnsureImmediateGood DEF Took
<1>6. Good(e) /\ Good(f)
  BY <1>5, FreeIfUnneededGood DEF e, f
<1>7. Good(z)
  BY <1>4, <1>6, EnsureImmediateGood DEF Took
<1>8. Good(Mark(z, c))
  BY <1>1, <1>7, MarkGood DEF c
<1>9. Good(Emit(Mark(z, c), from, Immediate(z, c)))
  BY <1>1, <1>8, EmitGood
<1>10. \A k \in DOMAIN Ins.dest : <<Result(idx, 0)>>[k] \in Tokens
  BY <1>1
<1> QED BY <1>1, <1>4, <1>9, <1>10, AdvanceInv

LEMMA UnaryInv ==
  ASSUME Inv, AllocUnary
  PROVE  Inv'
<1>1. /\ phase = "code" /\ idx < End
      /\ Good(alloc) /\ idx \in Nat /\ Result(idx, 0) \in Tokens
      /\ DOMAIN Ins.dest = {1} /\ Ins.dest[1] \in Values
  BY Typing, InsFacts DEF AllocUnary, At
<1> DEFINE a == Ins.ops[1]
           c == Ins.dest[1]
<1>2. PICK x \in EnsureImmediate(alloc, idx, a) :
      LET from == <<Immediate(x, a)>>
          f    == FreeIfUnneeded(x, idx, Ins, a)
      IN \E z \in EnsureImmediate(f, idx, c) :
           Advance(Emit(Mark(z, c), from, Immediate(z, c)),
                   Reads(z, from), <<Result(idx, 0)>>)
  BY DEF AllocUnary
<1> DEFINE from == <<Immediate(x, a)>>
           f    == FreeIfUnneeded(x, idx, Ins, a)
<1>3. PICK z \in EnsureImmediate(f, idx, c) :
           Advance(Emit(Mark(z, c), from, Immediate(z, c)),
                   Reads(z, from), <<Result(idx, 0)>>)
  BY <1>2
<1> HIDE DEF from, f, a, c
<1>4. Good(x)
  BY <1>1, <1>2, EnsureImmediateGood DEF Took
<1>5. Good(f)
  BY <1>4, FreeIfUnneededGood DEF f
<1>6. Good(z)
  BY <1>3, <1>5, EnsureImmediateGood DEF Took
<1>7. Good(Mark(z, c))
  BY <1>1, <1>6, MarkGood DEF c
<1>8. Good(Emit(Mark(z, c), from, Immediate(z, c)))
  BY <1>1, <1>7, EmitGood
<1>9. \A k \in DOMAIN Ins.dest : <<Result(idx, 0)>>[k] \in Tokens
  BY <1>1
<1> QED BY <1>1, <1>3, <1>8, <1>9, AdvanceInv

LEMMA StorePtrInv ==
  ASSUME Inv, AllocStorePtr
  PROVE  Inv'
<1>1. /\ phase = "code" /\ idx < End
      /\ Good(alloc) /\ DOMAIN Ins.dest = {}
  BY Typing, InsFacts DEF AllocStorePtr, At
<1> DEFINE a == Ins.ops[1]
           b == Ins.ops[2]
<1>2. PICK x \in EnsureImmediate(alloc, idx, a) :
      \E y \in EnsureImmediate(x, idx, b) :
        Advance(FreeIfUnneeded(FreeIfUnneeded(y, idx, Ins, a), idx, Ins, b),
                Reads(y, <<Immediate(x, a), Immediate(y, b)>>), <<>>)
  BY DEF AllocStorePtr
<1>3. PICK y \in EnsureImmediate(x, idx, b) :
        Advance(FreeIfUnneeded(FreeIfUnneeded(y, idx, Ins, a), idx, Ins, b),
                Reads(y, <<Immediate(x, a), Immediate(y, b)>>), <<>>)
  BY <1>2
<1> DEFINE e == FreeIfUnneeded(y, idx, Ins, a)
           f == FreeIfUnneeded(e, idx, Ins, b)
<1> HIDE DEF a, b
<1>4. Good(x) /\ Good(y)
  BY <1>1, <1>2, <1>3, EnsureImmediateGood DEF Took
<1>5. Good(e)
  BY <1>4, FreeIfUnneededGood
<1> HIDE DEF e
<1>6. Good(f)
  BY <1>5, FreeIfUnneededGood
<1>7. Advance(f, Reads(y, <<Immediate(x, a), Immediate(y, b)>>), <<>>)
  BY <1>3 DEF e
<1>8. \A k \in DOMAIN Ins.dest : <<>>[k] \in Tokens
  BY <1>1
<1> HIDE DEF f
<1> QED BY <1>1, <1>6, <1>7, <1>8, AdvanceInv

\* What a copy reads: a home, a stack cell or a register.
LEMMA MemoryFacts ==
  ASSUME NEW s \in States, NEW o, IsAddressable(s, o)
  PROVE  o \in Values /\ ToMirc(s, o) \in Cells
<1>1. o \in Values
  BY DEF IsAddressable
<1>2. CASE o \in Temps
  <2>1. IsLive(s, o) /\ ~InReg(s, o)
    BY <1>1, <1>2 DEF IsAddressable
  <2>2. \/ s.live[o].place = "spill" /\ s.live[o].num \in Spills
        \/ s.live[o].place = "callee" /\ s.live[o].num \in Slots
    BY <1>1, <2>1, LiveFacts DEF IsLive, InReg
  <2>3. ToMirc(s, o) = Operand(s.live[o].place, s.live[o].num)
    <3>1. o \notin Locals \cup Args
      BY <1>2 DEF Temps, Locals, Args, Temp, Var, Arg, Operand
    <3> QED BY <1>2, <3>1 DEF ToMirc
  <2> QED BY <1>1, <2>2, <2>3, CellFacts DEF Slot, Callee
<1>3. CASE o \notin Temps
  <2>1. o.class # "temp" /\ o \in Locals \cup Args
    BY <1>1, <1>3 DEF Values, Locals, Args, Var, Arg, Operand
  <2>2. ToMirc(s, o) = Home(o)
    BY <1>3, <2>1 DEF ToMirc
  <2> QED BY <1>1, <2>1, <2>2, CellFacts
<1> QED BY <1>2, <1>3

LEMMA ImmediateFacts ==
  ASSUME NEW s \in States, NEW o \in Operands,
         o \in Values => InReg(s, o)
  PROVE  Read(s, Immediate(s, o)) \in Tokens
<1>1. CASE o \in Values
  BY <1>1, LiveFacts, CellFacts, ReadCell DEF Immediate
<1>2. CASE o \notin Values
  BY <1>2, ReadConstant DEF Immediate
<1> QED BY <1>1, <1>2

LEMMA CopiedInv ==
  ASSUME Inv, At("copy"), NEW t, Good(t), NEW to, Copied(t, to)
  PROVE  Inv'
<1> DEFINE a == Ins.ops[1]
           c == Ins.dest[1]
           e == FreeIfUnneeded(t, idx, Ins, a)
           f == FreeIfUnneeded(e, idx, Ins, c)
<1>1. /\ phase = "code" /\ idx < End /\ DOMAIN Ins.dest = {1}
      /\ a \in Operands
  <2>1. phase = "code" /\ idx < End /\ Ins.t = "copy"
    BY DEF At
  <2>2. DOMAIN Ins.dest = {1} /\ Len(Ins.ops) = 1
    BY <2>1, Typing, InsFacts
  <2>3. 1 \in 1 .. Len(Ins.ops)
    BY <2>2
  <2> QED BY <2>1, <2>2, <2>3, Typing, InsFacts
<1>2. Meaning(a) \in Tokens
  BY <1>1 DEF Meaning, Inv, TypeOK, Tokens
<1>3. Good(e)
  BY FreeIfUnneededGood
<1> HIDE DEF e
<1>4. Good(f)
  BY <1>3, FreeIfUnneededGood
<1>5. Advance(f, Read(t, to) = Meaning(a), <<Meaning(a)>>)
  BY DEF Copied, e
<1> HIDE DEF f, a
<1>6. \A k \in DOMAIN Ins.dest : <<Meaning(a)>>[k] \in Tokens
  BY <1>1, <1>2
<1> QED BY <1>1, <1>4, <1>5, <1>6, AdvanceInv

LEMMA CopyInv ==
  ASSUME Inv, AllocCopy
  PROVE  Inv'
<1> DEFINE a == Ins.ops[1]
           c == Ins.dest[1]
           fromMem == IsAddressable(alloc, a)
           toMem   == IsAddressable(alloc, c)
<1>1. /\ At("copy") /\ Good(alloc) /\ alloc \in States
      /\ a \in Operands /\ c \in Values
  <2>1. At("copy") /\ phase = "code" /\ idx < End /\ Ins.t = "copy"
    BY DEF AllocCopy, At
  <2>2. DOMAIN Ins.dest = {1} /\ Len(Ins.ops) = 1
    BY <2>1, Typing, InsFacts
  <2>3. 1 \in 1 .. Len(Ins.ops)
    BY <2>2
  <2> QED BY <2>1, <2>2, <2>3, Typing, InsFacts DEF Good
<1>2. CASE fromMem /\ toMem
  <2>1. PICK x \in GrabReg(alloc, idx, a) :
           LET l == Load(x, ToMirc(alloc, a), a)
               r == Immediate(x, a)
               d == ToMirc(l, c)
           IN Copied(Store(CorruptOldVersion(l, c), r, d), d)
    BY <1>2 DEF AllocCopy
  <2> DEFINE l == Load(x, ToMirc(alloc, a), a)
             r == Immediate(x, a)
             d == ToMirc(l, c)
             o == CorruptOldVersion(l, c)
  <2>2. a \in Values /\ ToMirc(alloc, a) \in Cells
    BY <1>1, <1>2, MemoryFacts
  <2>3. Took(alloc, x, a)
    BY <1>1, <2>1, <2>2, GrabRegGood
  <2>4. Good(l) /\ l.panic = x.panic
    BY <2>2, <2>3, LoadGood DEF Took
  <2> HIDE DEF l
  <2>5. Good(o) /\ (o.panic = "" => l.panic = "")
    BY <1>1, <2>4, CorruptOldVersionGood
  <2>6. x.panic = "" => r \in Cells
    BY <2>2, <2>3, LiveFacts, CellFacts DEF Took, Immediate, Good
  <2> HIDE DEF o
  <2>7. o.panic = "" => Read(o, r) \in Tokens
    BY <2>4, <2>5, <2>6, ReadCell DEF Good
  <2>8. Good(Store(o, r, d))
    BY <2>5, <2>7, StoreGood
  <2> QED BY <1>1, <2>1, <2>8, CopiedInv DEF l, o
<1>3. CASE fromMem /\ ~toMem
  <2>1. PICK x \in EnsureImmediate(alloc, idx, c) :
           LET r == Immediate(x, c)
           IN Copied(Store(Mark(x, c), ToMirc(alloc, a), r), r)
    BY <1>3 DEF AllocCopy
  <2> DEFINE m == Mark(x, c)
  <2>2. ToMirc(alloc, a) \in Cells
    BY <1>1, <1>3, MemoryFacts
  <2>3. Good(x)
    BY <1>1, <2>1, EnsureImmediateGood DEF Took
  <2>4. Good(m)
    BY <1>1, <2>3, MarkGood
  <2>5. Good(Store(m, ToMirc(alloc, a), Immediate(x, c)))
    BY <2>2, <2>4, ReadCell, StoreGood DEF Good
  <2> QED BY <1>1, <2>1, <2>5, CopiedInv
<1>4. CASE ~fromMem /\ toMem
  <2>1. PICK x \in EnsureImmediate(alloc, idx, a) :
           LET r == Immediate(x, a)
               d == ToMirc(x, c)
           IN Copied(Store(CorruptOldVersion(x, c), r, d), d)
    BY <1>4 DEF AllocCopy
  <2> DEFINE o == CorruptOldVersion(x, c)
             r == Immediate(x, a)
  <2>2. Took(alloc, x, a)
    BY <1>1, <2>1, EnsureImmediateGood
  <2>3. Good(o) /\ (o.panic = "" => x.panic = "")
    BY <1>1, <2>2, CorruptOldVersionGood DEF Took
  <2>4. x.panic = "" => r \in Cells \/ (r = a /\ a \in Operands \ Values)
    BY <1>1, <2>2, LiveFacts, CellFacts DEF Took, Immediate, Good
  <2> HIDE DEF o, r
  <2>5. o.panic = "" => Read(o, r) \in Tokens
    BY <2>3, <2>4, ReadCell, ReadConstant DEF Good
  <2>6. Good(Store(o, r, ToMirc(x, c)))
    BY <2>3, <2>5, StoreGood
  <2> QED BY <1>1, <2>1, <2>6, CopiedInv DEF o, r
<1>5. CASE ~fromMem /\ ~toMem
  <2>1. PICK x \in EnsureImmediate(alloc, idx, a) :
        \E y \in EnsureImmediate(x, idx, c) :
           LET r == Immediate(y, c)
           IN Copied(Store(Mark(y, c), Immediate(x, a), r), r)
    BY <1>5 DEF AllocCopy
  <2>2. PICK y \in EnsureImmediate(x, idx, c) :
           LET r == Immediate(y, c)
           IN Copied(Store(Mark(y, c), Immediate(x, a), r), r)
    BY <2>1
  <2> DEFINE r == Immediate(x, a)
             m == Mark(y, c)
  <2>3. Took(alloc, x, a)
    BY <1>1, <2>1, EnsureImmediateGood
  <2>4. Took(x, y, c)
    <3>1. Good(x)
      BY <2>3 DEF Took
    <3> QED BY <2>2, <3>1, EnsureImmediateGood
  <2>5. Good(m) /\ (m.panic = "" => y.panic = "")
    BY <1>1, <2>4, MarkGood DEF Took
  <2>6. y.panic = "" => r \in Cells \/ (r = a /\ a \in Operands \ Values)
    BY <1>1, <2>3, <2>4, LiveFacts, CellFacts DEF Took, Immediate, Good
  <2> HIDE DEF m, r
  <2>7. m.panic = "" => Read(m, r) \in Tokens
    BY <2>5, <2>6, ReadCell, ReadConstant DEF Good
  <2>8. Good(Store(m, r, Immediate(y, c)))
    BY <2>5, <2>7, StoreGood
  <2> QED BY <1>1, <2>2, <2>8, CopiedInv DEF m, r
<1> QED BY <1>2, <1>3, <1>4, <1>5

-----------------------------------------------------------------------------
\* Steps inside a call or a return: the same instruction, the same block.

LEMMA StayInv ==
  ASSUME Inv, NEW t, Good(t), NEW next \in Phases \ {"panicked"},
         Become(t, next), UNCHANGED <<block, idx>>,
         todo' \subseteq Values, pos' \in Nat, late' \in Seq(0 .. Len(Outs) - 1),
         env' \in [Values -> Tokens], misread' \subseteq 0 .. End - 1,
         phase' = next => Pending'
  PROVE  Inv'
<1>1. /\ alloc' \in States /\ phase' \in Phases
      /\ (phase' = "panicked") <=> (alloc'.panic # "")
      /\ RegisterFile' /\ phase' \in {next, "panicked"}
  BY BecomeGood
<1>2. End' = End /\ Outs' = Outs /\ WellFormed(block)'
  BY DEF End, Outs, WellFormed, Inv, TypeOK
<1>3. TypeOK'
  BY <1>1, <1>2 DEF Inv, TypeOK
<1>4. Pending'
  BY <1>1 DEF Pending, InCall
<1> QED BY <1>1, <1>3, <1>4 DEF Inv

\* The allocator's state is not touched: its type is that of now.
LEMMA Quiet ==
  ASSUME Inv, phase # "panicked", alloc' = alloc, NEW next, phase' = next
  PROVE  Good(alloc) /\ Become(alloc, next)
BY DEF Inv, TypeOK, RegisterFile, Good, Become

LEMMA Kept ==
  ASSUME Inv, Keep
  PROVE  /\ UNCHANGED <<block, idx>> /\ late' = late
         /\ late' \in Seq(0 .. Len(Outs) - 1)
         /\ env' \in [Values -> Tokens] /\ misread' \subseteq 0 .. End - 1
         /\ Ins' = Ins /\ End' = End
BY DEF Inv, TypeOK, Keep, Ins, End

LEMMA CallInv ==
  ASSUME Inv, AllocCall
  PROVE  Inv'
<1>1. /\ phase = "code" /\ idx < End /\ Ins.t = "call" /\ Keep
      /\ phase' = "spillregs" /\ pos' = pos /\ alloc' = alloc
      /\ todo' \subseteq Values /\ \A v \in todo' : InReg(alloc, v)
  BY DEF AllocCall, At
<1>2. Good(alloc) /\ Become(alloc, "spillregs")
  BY <1>1, Quiet
<1>3. Pending'
  BY <1>1, Kept DEF Pending, InReg
<1>4. pos' \in Nat /\ "spillregs" \in Phases \ {"panicked"}
  BY <1>1 DEF Inv, TypeOK, Phases
<1> QED BY <1>1, <1>2, <1>3, <1>4, Kept, StayInv

LEMMA SpillLiveRegisterInv ==
  ASSUME Inv, NEW v \in todo, SpillLiveRegister(v)
  PROVE  Inv'
<1> DEFINE r == alloc.live[v].num
           t == IF v \in Temps THEN SpillTemp(alloc, r)
                               ELSE Store(alloc, Reg(r), Home(v))
<1>1. /\ phase = "spillregs" /\ Become(t, "spillregs") /\ Keep
      /\ todo' = todo \ {v} /\ pos' = pos
  BY DEF SpillLiveRegister
<1>2. /\ Good(alloc) /\ alloc.panic = "" /\ RegistersAgree(alloc)
      /\ todo \subseteq Values /\ v \in Values
      /\ idx < End /\ Ins.t = "call"
      /\ \A w \in todo : InReg(alloc, w)
  BY <1>1 DEF Inv, TypeOK, RegisterFile, Pending, InCall, Good
<1>3. r \in Regs /\ alloc.used[r] = v
  BY <1>2, LiveFacts DEF Good, RegistersAgree
<1>4. Good(t) /\ (t.panic = "" => \A w \in todo \ {v} : InReg(t, w))
  <2> HIDE DEF r
  <2>1. CASE v \in Temps
    <3>1. /\ Good(SpillTemp(alloc, r))
          /\ SpillTemp(alloc, r).panic = "" =>
               \A w \in Values \ {v} : SpillTemp(alloc, r).live[w] = alloc.live[w]
      BY <1>2, <1>3, SpillTempGood
    <3>2. t = SpillTemp(alloc, r)
      BY <2>1
    <3> HIDE DEF t
    <3> QED BY <3>1, <3>2, <1>2 DEF InReg
  <2>2. CASE v \notin Temps
    <3>1. Read(alloc, Reg(r)) \in Tokens
      BY <1>2, <1>3, CellFacts, ReadCell DEF Good
    <3>2. t = Store(alloc, Reg(r), Home(v))
      BY <2>2
    <3> HIDE DEF t
    <3>3. Good(t) /\ t.live = alloc.live
      BY <3>1, <3>2, <1>2, StoreGood
    <3> QED BY <3>3, <1>2 DEF InReg
  <2> QED BY <2>1, <2>2
<1> HIDE DEF t
<1>5. phase' = "spillregs" => Pending'
  <2> SUFFICES ASSUME phase' = "spillregs" PROVE Pending'
    OBVIOUS
  <2>1. alloc' = t /\ t.panic = ""
    BY <1>1 DEF Become
  <2> QED BY <1>1, <1>2, <1>4, <2>1, Kept DEF Pending, InReg
<1>6. todo' \subseteq Values /\ pos' \in Nat /\ "spillregs" \in Phases \ {"panicked"}
  BY <1>1, <1>2 DEF Inv, TypeOK, Phases
<1> QED BY <1>1, <1>4, <1>5, <1>6, Kept, StayInv

LEMMA SpilledRegistersInv ==
  ASSUME Inv, SpilledRegisters
  PROVE  Inv'
<1>1. /\ phase = "spillregs" /\ Keep /\ phase' = "spillinterproc"
      /\ pos' = pos /\ alloc' = alloc /\ todo' \subseteq Values
      /\ \A v \in todo' : alloc.live[v].place = "callee"
  BY DEF SpilledRegisters
<1>2. Good(alloc) /\ Become(alloc, "spillinterproc")
  BY <1>1, Quiet
<1>3. Pending'
  BY <1>1, Kept DEF Inv, Pending, InCall
<1>4. pos' \in Nat /\ "spillinterproc" \in Phases \ {"panicked"}
  BY <1>1 DEF Inv, TypeOK, Phases
<1> QED BY <1>1, <1>2, <1>3, <1>4, Kept, StayInv

LEMMA SpillLiveInterprocInv ==
  ASSUME Inv, NEW v \in todo, SpillLiveInterproc(v)
  PROVE  Inv'
<1>1. /\ Good(alloc) /\ alloc.panic = "" /\ phase = "spillinterproc"
      /\ todo \subseteq Values /\ v \in Values
      /\ idx < End /\ Ins.t = "call"
      /\ \A w \in todo : alloc.live[w].place = "callee" /\ ~InReg(alloc, w)
      /\ Keep /\ todo' = todo \ {v} /\ pos' = pos
  BY DEF SpillLiveInterproc, Inv, TypeOK, RegisterFile, Pending, InCall, Good, InReg
<1> DEFINE from == Callee(alloc.live[v].num)
           l(x) == Load(x, from, v)
           t(x) == IF /\ l(x).panic = ""
                      /\ Len(l(x).availRegs.items) - 1 < 3 \/ l(x).use[v] > idx
                   THEN SpillTemp(l(x), l(x).live[v].num) ELSE l(x)
<1>2. PICK x \in EnsureImmediate(alloc, idx, v) : Become(t(x), "spillinterproc")
  BY DEF SpillLiveInterproc
<1>3. Took(alloc, x, v)
  BY <1>1, <1>2, EnsureImmediateGood
<1>4. from \in Cells
  BY <1>1, LiveFacts, CellFacts DEF Good
<1> HIDE DEF from
<1> DEFINE m == l(x)
<1>5. Good(m) /\ m.panic = x.panic /\ m.live = x.live
  BY <1>3, <1>4, LoadGood DEF Took
<1> HIDE DEF l
<1>6. m.panic = "" => /\ InReg(m, v) /\ m.live[v].num \in Regs
                      /\ m.used[m.live[v].num] = v
                      /\ \A w \in todo \ {v} : m.live[w] = alloc.live[w]
  <2> SUFFICES ASSUME m.panic = ""
               PROVE  /\ InReg(m, v) /\ m.live[v].num \in Regs
                      /\ m.used[m.live[v].num] = v
                      /\ \A w \in todo \ {v} : m.live[w] = alloc.live[w]
    OBVIOUS
  <2>1. InReg(m, v) /\ \A w \in todo \ {v} : m.live[w] = alloc.live[w]
    <3>1. InReg(x, v) /\ \A w \in Values \ {v} : ~InReg(alloc, w) => x.live[w] = alloc.live[w]
      <4>1. x.panic = "" /\ v \in Values
        BY <1>1, <1>5
      <4> HIDE DEF m, t
      <4>2. InReg(x, v)
        BY <4>1, <1>3, TookFacts
      <4>3. ASSUME NEW w \in Values \ {v}, ~InReg(alloc, w)
            PROVE  x.live[w] = alloc.live[w]
        <5>1. w \in Values /\ w # v
          OBVIOUS
        <5>2. ~InReg(alloc, w)
          BY <4>3
        <5>3. Took(alloc, x, v)
          BY <1>3
        <5>4. x.panic = ""
          BY <4>1
        <5>5. ~InReg(x, w) /\ x.live[w] = alloc.live[w]
          BY <5>1, <5>2, <5>3, <5>4, ZenonT(60) DEF Took
        <5> QED BY <5>5
      <4> QED BY <4>2, <4>3
    <3>2. \A w \in todo \ {v} : x.live[w] = alloc.live[w]
      BY <3>1, <1>1
    <3> HIDE DEF m
    <3> QED BY <3>1, <3>2, <1>5 DEF InReg
  <2> HIDE DEF m
  <2> QED BY <2>1, <1>1, <1>5, LiveFacts DEF Good, RegistersAgree
<1>7. /\ Good(t(x))
      /\ t(x).panic = "" => \A w \in todo \ {v} : t(x).live[w].place = "callee"
  <2> DEFINE u == SpillTemp(m, m.live[v].num)
  <2>1. CASE t(x) = m
    BY <2>1, <1>1, <1>5, <1>6
  <2>2. CASE m.panic = "" /\ t(x) = u
    <3> HIDE DEF m
    <3>1. /\ Good(u)
          /\ u.panic = "" => \A w \in Values \ {v} : u.live[w] = m.live[w]
      BY <2>2, <1>5, <1>6, SpillTempGood
    <3> HIDE DEF u, t
    <3> QED BY <2>2, <3>1, <1>1, <1>6
  <2>3. t(x) = m \/ (m.panic = "" /\ t(x) = u)
    OBVIOUS
  <2> QED BY <2>1, <2>2, <2>3
<1> HIDE DEF t
<1>8. phase' = "spillinterproc" => Pending'
  <2> SUFFICES ASSUME phase' = "spillinterproc" PROVE Pending'
    OBVIOUS
  <2>1. alloc' = t(x) /\ t(x).panic = ""
    BY <1>2 DEF Become
  <2> QED BY <1>1, <1>7, <2>1, Kept DEF Pending
<1>9. todo' \subseteq Values /\ pos' \in Nat /\ "spillinterproc" \in Phases \ {"panicked"}
  BY <1>1 DEF Inv, TypeOK, Phases
<1> QED BY <1>1, <1>2, <1>7, <1>8, <1>9, Kept, StayInv

LEMMA SpilledInterprocInv ==
  ASSUME Inv, SpilledInterproc
  PROVE  Inv'
<1>1. /\ phase = "spillinterproc" /\ Keep /\ phase' = "args"
      /\ pos' = 0 /\ alloc' = alloc /\ todo' = todo
  BY DEF SpilledInterproc
<1>2. Good(alloc) /\ Become(alloc, "args")
  BY <1>1, Quiet
<1>3. Pending'
  BY <1>1, Kept DEF Inv, Pending, InCall
<1>4. todo' \subseteq Values /\ pos' \in Nat /\ "args" \in Phases \ {"panicked"}
  BY <1>1 DEF Inv, TypeOK, Phases
<1> QED BY <1>1, <1>2, <1>3, <1>4, Kept, StayInv

\* Every argument has a slot, and every argument and the callee are operands.
LEMMA ParamsFacts ==
  ASSUME WellFormed(block), idx \in 0 .. End, idx < End, Ins.t = "call"
  PROVE  /\ Len(Params) \in 0 .. NumSlots
         /\ \A k \in 1 .. Len(Params) : Params[k] \in Operands
         /\ Callee0 \in Operands
<1>1. Ins.ops \in Seq(Operands) /\ Ins.ops # <<>> /\ Len(Ins.ops) \in 1 .. NumSlots + 1
  BY InsFacts DEF Instrs
<1>2. /\ Tail(Ins.ops) \in Seq(Operands)
      /\ Len(Tail(Ins.ops)) = Len(Ins.ops) - 1
      /\ Head(Ins.ops) \in Operands /\ Head(Ins.ops) = Ins.ops[1]
  BY <1>1, HeadTailProperties
<1>3. Len(Params) \in 0 .. NumSlots
  <2> DEFINE n == Len(Ins.ops)
             m == Len(Params)
  <2>1. n \in 1 .. NumSlots + 1 /\ m = n - 1
    BY <1>1, <1>2 DEF Params
  <2> HIDE DEF n, m
  <2>2. m \in 0 .. NumSlots
    BY <2>1, AllocSizes
  <2> QED BY <2>2 DEF m
<1>4. \A k \in 1 .. Len(Params) : Params[k] \in Operands
  BY <1>2, ElementOfSeq DEF Params
<1> QED BY <1>2, <1>3, <1>4 DEF Callee0

\* What the invariant says in the middle of a call.
LEMMA CallFacts ==
  ASSUME Inv, phase \in InCall
  PROVE  /\ Good(alloc) /\ alloc.panic = "" /\ alloc \in States
         /\ WellFormed(block) /\ idx \in 0 .. End /\ idx < End /\ Ins.t = "call"
         /\ todo \subseteq Values /\ pos \in Nat
         /\ Len(Params) \in 0 .. NumSlots
         /\ \A k \in 1 .. Len(Params) : Params[k] \in Operands
         /\ Callee0 \in Operands
<1>1. phase # "panicked"
  BY DEF InCall
<1>2. /\ Good(alloc) /\ alloc.panic = "" /\ alloc \in States
      /\ WellFormed(block) /\ idx \in 0 .. End /\ idx < End /\ Ins.t = "call"
      /\ todo \subseteq Values /\ pos \in Nat
  BY <1>1 DEF Inv, TypeOK, RegisterFile, Pending, Good
<1> QED BY <1>2, ParamsFacts

LEMMA LoadArgumentInv ==
  ASSUME Inv, LoadArgument
  PROVE  Inv'
<1> DEFINE o == Params[pos + 1]
<1>1. /\ phase = "args" /\ phase \in InCall /\ pos < Len(Params) /\ Keep
      /\ pos' = pos + 1 /\ todo' = todo
  BY DEF LoadArgument, InCall
<1>2. /\ Good(alloc) /\ todo' \subseteq Values /\ pos' \in Nat
      /\ o \in Operands /\ idx < End /\ Ins.t = "call"
  <2> DEFINE m == Len(Params)
  <2>1. /\ pos \in Nat /\ m \in 0 .. NumSlots /\ pos < m
        /\ \A k \in 1 .. m : Params[k] \in Operands
        /\ Good(alloc) /\ todo \subseteq Values /\ idx < End /\ Ins.t = "call"
    BY <1>1, CallFacts
  <2> HIDE DEF m
  <2>2. pos + 1 \in 1 .. m /\ pos + 1 \in Nat
    BY <2>1, AllocSizes
  <2>3. o \in Operands
    BY <2>1, <2>2
  <2> QED BY <1>1, <2>1, <2>2, <2>3
<1>3. phase' = "args" => Pending'
  BY <1>1, <1>2, Kept DEF Pending, InCall
<1>4. PICK t : Good(t) /\ Become(t, "args")
  <2>1. CASE phase' = phase /\ alloc' = alloc
    BY <1>1, <2>1, Quiet
  <2>2. CASE ~(phase' = phase /\ alloc' = alloc)
    <3>1. PICK x \in EnsureImmediate(alloc, idx, o) :
            Become(FreeIfUnneeded(Store(x, Immediate(x, o), Callee(pos)), idx, Ins, o), "args")
      BY <2>2 DEF LoadArgument
    <3> DEFINE s == Store(x, Immediate(x, o), Callee(pos))
               f == FreeIfUnneeded(s, idx, Ins, o)
    <3> HIDE DEF o
    <3>2. Took(alloc, x, o)
      BY <1>2, <3>1, EnsureImmediateGood
    <3>3. Good(x) /\ (x.panic = "" => (o \in Values => InReg(x, o)))
      BY <3>2 DEF Took
    <3>4. x.panic = "" => Read(x, Immediate(x, o)) \in Tokens
      BY <1>2, <3>3, ImmediateFacts DEF Good
    <3>5. Good(s)
      BY <3>3, <3>4, StoreGood
    <3> HIDE DEF s
    <3>6. Good(f)
      BY <3>5, FreeIfUnneededGood
    <3> QED BY <3>1, <3>6 DEF s
  <2> QED BY <2>1, <2>2
<1>5. "args" \in Phases \ {"panicked"}
  BY DEF Phases
<1> QED BY <1>1, <1>2, <1>3, <1>4, <1>5, Kept, StayInv

LEMMA LoadedArgumentsInv ==
  ASSUME Inv, LoadedArguments
  PROVE  Inv'
<1>1. /\ phase = "args" /\ Keep /\ phase' = "clear"
      /\ pos' = pos /\ alloc' = alloc /\ todo' \subseteq Values
      /\ \A v \in Values : InReg(alloc, v) => v \in todo'
  BY DEF LoadedArguments, InReg
<1>2. Good(alloc) /\ Become(alloc, "clear")
  BY <1>1, Quiet
<1>3. Pending'
  BY <1>1, Kept DEF Inv, Pending, InCall, InReg
<1>4. pos' \in Nat /\ "clear" \in Phases \ {"panicked"}
  BY <1>1 DEF Inv, TypeOK, Phases
<1> QED BY <1>1, <1>2, <1>3, <1>4, Kept, StayInv

LEMMA ClearVolatileInv ==
  ASSUME Inv, NEW v \in todo, ClearVolatile(v)
  PROVE  Inv'
<1> DEFINE t == Free(alloc, v)
<1>1. /\ phase = "clear" /\ phase \in InCall /\ Become(t, "clear") /\ Keep
      /\ todo' = todo \ {v} /\ pos' = pos
  BY DEF ClearVolatile, InCall
<1>2. /\ Good(alloc) /\ v \in Values /\ idx < End /\ Ins.t = "call"
      /\ todo' \subseteq Values /\ pos' \in Nat
      /\ \A w \in Values : InReg(alloc, w) => w \in todo
  BY <1>1, CallFacts DEF Inv, Pending
<1>3. /\ Good(t)
      /\ t.panic = "" => /\ ~IsLive(t, v)
                         /\ \A w \in Values \ {v} : t.live[w] = alloc.live[w]
  BY <1>2, FreeGood
<1> HIDE DEF t
<1>4. t.panic = "" => \A w \in Values : InReg(t, w) => w \in todo \ {v}
  BY <1>2, <1>3 DEF InReg, IsLive
<1>5. phase' = "clear" => Pending'
  <2> SUFFICES ASSUME phase' = "clear" PROVE Pending'
    OBVIOUS
  <2>1. alloc' = t /\ t.panic = ""
    BY <1>1 DEF Become
  <2> QED BY <1>1, <1>2, <1>4, <2>1, Kept DEF Pending, InReg
<1>6. "clear" \in Phases \ {"panicked"}
  BY DEF Phases
<1> QED BY <1>1, <1>2, <1>3, <1>5, <1>6, Kept, StayInv

\* The call changes the machine, not the tables.
LEMMA CallEffectGood ==
  ASSUME NEW t, Good(t), idx \in Nat
  PROVE  /\ Good(CallEffect(t)) /\ CallEffect(t).panic = t.panic
         /\ CallEffect(t).live = t.live
<1> DEFINE u == CallEffect(t)
           cells == [c \in Cells |->
                       CASE c.class = "reg" -> Junk
                         [] c.class = "callee" /\ c.id < Len(Ins.dest) -> Result(idx, c.id)
                         [] c.class = "callee" /\ c.id >= Len(Ins.dest)
                                               /\ c.id < Len(Params) -> Junk
                         [] OTHER -> t.cell[c]]
<1>1. u = [t EXCEPT !.cell = cells]
  BY DEF CallEffect
<1>2. ASSUME NEW c \in Cells PROVE cells[c] \in Tokens
  <2>1. Junk \in Tokens /\ t.cell[c] \in Tokens
    BY DEF Tokens, Good, States
  <2>2. c.class = "callee" => c.id \in Nat
    BY AllocSizes DEF Cells, Reg, Slot, Callee, Caller, Local, Operand, Slots
  <2>3. c.class = "callee" => Result(idx, c.id) \in Tokens
    BY <2>2 DEF Result, Tokens
  <2> QED BY <2>1, <2>3
<1>3. cells \in [Cells -> Tokens]
  BY <1>2
<1> HIDE DEF cells, u
<1>4. /\ u \in States /\ u.panic = t.panic /\ u.live = t.live
      /\ u.used = t.used /\ u.availRegs = t.availRegs
  BY <1>1, <1>3 DEF Good, States
<1>5. \A r \in Regs : t.used[r] \in Values \cup {None}
  BY DEF Good, States
<1>6. RegistersAgree(t) => RegistersAgree(u)
  BY <1>4, <1>5, SameRegisters DEF InReg
<1> QED BY <1>4, <1>6 DEF Good, u

LEMMA ResultPlace ==
  ASSUME NEW n \in 0 .. NumSlots, NEW p \in 1 .. n
  PROVE  /\ UseInfo("callee", p - 1, FALSE) \in Places
         /\ UseInfo("callee", p - 1, FALSE).place = "callee"
<1>1. p - 1 \in Slots
  BY AllocSizes DEF Slots
<1> QED BY <1>1 DEF UseInfo, Places

\* Nothing but the callee can be in a register when the results go into
\* LiveValues, and no result is the callee.
LEMMA ResultsGood ==
  ASSUME NEW t, Good(t), NEW n \in 0 .. NumSlots,
         DOMAIN Ins.dest = 1 .. n,
         \A k \in 1 .. n : t.panic = "" => ~InReg(t, Ins.dest[k])
  PROVE  Good(Results(t)) /\ Results(t).panic = t.panic
<1> DEFINE u == Results(t)
           Where(v) == CHOOSE k \in 1 .. n : Ins.dest[k] = v
           Is(v) == \E k \in 1 .. n : Ins.dest[k] = v
           live == [v \in Values |-> IF Is(v) THEN UseInfo("callee", Where(v) - 1, FALSE)
                                             ELSE t.live[v]]
<1>1. u = [t EXCEPT !.live = live]
  BY DEF Results
<1>2. ASSUME NEW v \in Values
      PROVE  /\ live[v] \in Places
             /\ ~Is(v) => live[v] = t.live[v]
             /\ Is(v) => live[v].place = "callee"
  <2>1. CASE Is(v)
    <3> DEFINE p == Where(v)
    <3>1. p \in 1 .. n
      BY <2>1
    <3>2. live[v] = UseInfo("callee", p - 1, FALSE)
      BY <2>1
    <3> HIDE DEF p, live, Where
    <3>3. live[v] \in Places /\ live[v].place = "callee"
      BY <3>1, <3>2, ResultPlace
    <3> HIDE DEF Is
    <3> QED BY <2>1, <3>3
  <2>2. CASE ~Is(v)
    BY <2>2 DEF Good, States
  <2> QED BY <2>1, <2>2
<1>3. live \in [Values -> Places]
  BY <1>2
<1>4. ASSUME NEW v \in Values, t.panic = "", Is(v)
      PROVE  ~InReg(t, v)
  BY <1>4
<1> HIDE DEF live, u, Is
<1>5. /\ u \in States /\ u.panic = t.panic /\ u.live = live
      /\ u.used = t.used /\ u.availRegs = t.availRegs
  BY <1>1, <1>3 DEF Good, States
<1>6. ASSUME t.panic = "" PROVE RegistersAgree(u)
  <2>1. \A r \in Regs : t.used[r] \in Values \cup {None}
    BY DEF Good, States
  <2>2. ASSUME NEW v \in Values
        PROVE  /\ InReg(u, v) <=> InReg(t, v)
               /\ InReg(t, v) => u.live[v].num = t.live[v].num
    <3>1. CASE Is(v)
      BY <1>2, <1>4, <1>5, <1>6, <3>1 DEF InReg
    <3>2. CASE ~Is(v)
      BY <1>2, <1>5, <3>2 DEF InReg
    <3> QED BY <3>1, <3>2
  <2>3. RegistersAgree(t)
    BY <1>6 DEF Good
  <2> QED BY <1>5, <2>1, <2>2, <2>3, SameRegisters
<1> QED BY <1>5, <1>6 DEF Good, u

LEMMA EmitCallInv ==
  ASSUME Inv, EmitCall
  PROVE  Inv'
<1>1. PICK x \in EnsureImmediate(alloc, idx, Callee0) :
        /\ Become(Results(CallEffect(x)), "release")
        /\ env' = Defined([k \in DOMAIN Ins.dest |-> Result(idx, k - 1)])
        /\ misread' = Noted(x, Passed(x) /\ Reads(x, <<Immediate(x, Callee0)>>))
  BY DEF EmitCall
<1>2. /\ phase = "clear" /\ todo = {} /\ pos' = 0
      /\ UNCHANGED <<block, idx, todo, late>> /\ phase \in InCall
  BY DEF EmitCall, InCall
<1>3. /\ Good(alloc) /\ WellFormed(block) /\ idx \in 0 .. End /\ idx < End
      /\ Ins.t = "call" /\ todo \subseteq Values
  BY <1>2, CallFacts
<1>4. /\ idx \in Nat /\ idx \in 0 .. End - 1
      /\ env \in [Values -> Tokens] /\ misread \subseteq 0 .. End - 1
      /\ late \in Seq(0 .. Len(Outs) - 1)
  <2>1. End \in Nat
    BY <1>3, BlockFacts
  <2>2. idx \in 0 .. End /\ idx < End
    BY <1>3
  <2>3. idx \in Nat /\ idx \in 0 .. End - 1
    BY <2>1, <2>2
  <2> QED BY <2>3 DEF Inv, TypeOK
<1>5. /\ Len(Ins.dest) \in 0 .. NumSlots /\ DOMAIN Ins.dest = 1 .. Len(Ins.dest)
      /\ \A k \in DOMAIN Ins.dest : Ins.dest[k] \in Values /\ Ins.dest[k] # Callee0
  BY <1>3, InsFacts DEF Callee0
<1> DEFINE n == Len(Ins.dest)
           u == CallEffect(x)
           w == Results(u)
<1>6. Good(x) /\ (x.panic = "" => \A v \in Values : v # Callee0 => ~InReg(x, v))
  <2>1. Took(alloc, x, Callee0)
    BY <1>1, <1>3, EnsureImmediateGood
  <2>2. \A v \in Values : ~InReg(alloc, v)
    BY <1>2 DEF Inv, Pending
  <2> HIDE DEF w, u, n
  <2>3. ASSUME x.panic = "" PROVE \A v \in Values : v # Callee0 => ~InReg(x, v)
    BY <2>1, <2>2, <2>3 DEF Took
  <2> QED BY <2>1, <2>3 DEF Took
<1>7. Good(u) /\ u.panic = x.panic /\ u.live = x.live
  BY <1>4, <1>6, CallEffectGood
<1> HIDE DEF u, n
<1>8. \A k \in 1 .. n : u.panic = "" => ~InReg(u, Ins.dest[k])
  BY <1>5, <1>6, <1>7 DEF InReg, n
<1>9. Good(w) /\ w.panic = u.panic
  <2>1. n \in 0 .. NumSlots /\ DOMAIN Ins.dest = 1 .. n
    BY <1>5 DEF n
  <2> QED BY <1>7, <1>8, <2>1, ResultsGood
<1> HIDE DEF w
<1>10. Become(w, "release")
  BY <1>1 DEF w, u
<1>11. env' \in [Values -> Tokens]
  <2> DEFINE value == [k \in DOMAIN Ins.dest |-> Result(idx, k - 1)]
  <2>1. \A k \in 1 .. n : k - 1 \in Nat
    BY <1>5 DEF n
  <2>2. \A k \in DOMAIN Ins.dest : value[k] \in Tokens
    BY <1>4, <1>5, <2>1 DEF Result, Tokens, n
  <2> HIDE DEF value
  <2>3. Defined(value) \in [Values -> Tokens]
    BY <1>4, <2>2, DefinedType
  <2> QED BY <1>1, <2>3 DEF value
<1>12. misread' \subseteq 0 .. End - 1
  BY <1>1, <1>4 DEF Noted
<1>13. phase' = "release" => Pending'
  BY <1>2, <1>3 DEF Pending, InCall, Ins, End
<1>14. "release" \in Phases \ {"panicked"} /\ pos' \in Nat /\ todo' \subseteq Values
  BY <1>2, <1>3 DEF Phases
<1> QED BY <1>2, <1>4, <1>9, <1>10, <1>11, <1>12, <1>13, <1>14, StayInv

LEMMA ReleaseOperandInv ==
  ASSUME Inv, ReleaseOperand
  PROVE  Inv'
<1> DEFINE t == FreeIfUnneeded(alloc, idx, Ins, Ins.ops[pos + 1])
<1>1. /\ phase = "release" /\ phase \in InCall /\ Become(t, "release") /\ Keep
      /\ pos' = pos + 1 /\ todo' = todo
  BY DEF ReleaseOperand, InCall
<1>2. /\ Good(alloc) /\ idx < End /\ Ins.t = "call" /\ todo' \subseteq Values
      /\ pos' \in Nat
  <2>1. /\ Good(alloc) /\ idx < End /\ Ins.t = "call" /\ todo \subseteq Values
        /\ pos \in Nat
    BY <1>1, CallFacts
  <2> QED BY <1>1, <2>1
<1>3. Good(t)
  BY <1>2, FreeIfUnneededGood
<1> HIDE DEF t
<1>4. phase' = "release" => Pending'
  BY <1>1, <1>2, Kept DEF Pending, InCall
<1>5. "release" \in Phases \ {"panicked"}
  BY DEF Phases
<1> QED BY <1>1, <1>2, <1>3, <1>4, <1>5, Kept, StayInv

LEMMA ReleasedInv ==
  ASSUME Inv, Released
  PROVE  Inv'
<1> DEFINE t == UpdateMaxCallee(alloc)
           S == {alloc.maxCallee, Len(Params), Len(Ins.dest)}
<1>1. /\ phase = "release" /\ phase \in InCall /\ Become(t, "code")
      /\ idx' = idx + 1 /\ UNCHANGED <<block, todo, pos, late, env, misread>>
  BY DEF Released, InCall
<1>2. /\ Good(alloc) /\ idx < End /\ WellFormed(block) /\ idx \in 0 .. End
      /\ Ins.t = "call" /\ Len(Params) \in 0 .. NumSlots
  BY <1>1, CallFacts
<1>3. Len(Ins.dest) \in 0 .. NumSlots
  BY <1>2, InsFacts
<1>4. alloc.maxCallee \in 0 .. NumSlots
  BY <1>2 DEF Good, States
<1>5. S \subseteq 0 .. NumSlots /\ S # {}
  BY <1>2, <1>3, <1>4
<1> HIDE DEF S
<1>6. Max(S) \in 0 .. NumSlots
  <2>1. S \in SUBSET Nat /\ NumSlots \in Nat /\ \A x \in S : x <= NumSlots
    BY <1>5, AllocSizes
  <2> QED BY <1>5, <2>1, MaxOfBounded
<1>7. t = [alloc EXCEPT !.maxCallee = Max(S)]
  BY DEF UpdateMaxCallee, S
<1> HIDE DEF t
<1>8. /\ t \in States /\ t.panic = alloc.panic /\ t.live = alloc.live
      /\ t.used = alloc.used /\ t.availRegs = alloc.availRegs
  BY <1>2, <1>6, <1>7 DEF Good, States
<1>9. Good(t)
  <2>1. \A r \in Regs : alloc.used[r] \in Values \cup {None}
    BY <1>2 DEF Good, States
  <2>2. RegistersAgree(alloc) => RegistersAgree(t)
    BY <1>8, <2>1, SameRegisters DEF InReg
  <2> QED BY <1>2, <1>8, <2>2 DEF Good
<1>10. env' \in [Values -> Tokens] /\ misread' \subseteq misread \cup {idx}
  BY <1>1 DEF Inv, TypeOK
<1> QED BY <1>1, <1>2, <1>9, <1>10, NextInv

-----------------------------------------------------------------------------
\* The end of the block.

LEMMA EndFacts ==
  ASSUME Inv, phase \in {"code", "return"}
  PROVE  /\ Good(alloc) /\ alloc.panic = "" /\ alloc \in States
         /\ todo \subseteq Values /\ pos \in Nat
         /\ late \in Seq(0 .. Len(Outs) - 1) /\ Len(Outs) \in Nat
         /\ \A k \in 1 .. Len(Outs) : Outs[k] \in Operands
<1>1. WellFormed(block)
  BY DEF Inv, TypeOK
<1>2. Len(Outs) \in Nat /\ \A k \in 1 .. Len(Outs) : Outs[k] \in Operands
  BY <1>1, BlockFacts DEF Outs
<1> QED BY <1>2 DEF Inv, TypeOK, RegisterFile, Good

\* A block is left, in any way, in the phase that has no loop.
LEMMA LeaveInv ==
  ASSUME Inv, phase \in {"code", "return"}, NEW t, Good(t), Keep,
         NEW next \in {"return", "done"}, Become(t, next),
         UNCHANGED todo, pos' \in Nat
  PROVE  Inv'
<1>1. next \in Phases \ {"panicked"} /\ todo' \subseteq Values
  BY EndFacts DEF Phases
<1>2. phase' = next => Pending'
  BY DEF Pending, InCall
<1> QED BY <1>1, <1>2, Kept, StayInv

LEMMA StoreLiveLocalsGood ==
  ASSUME NEW t, Good(t)
  PROVE  Good(StoreLiveLocals(t))
<1> DEFINE dirty == {v \in Locals \cup Args : InReg(t, v) /\ t.live[v].mut}
           Of(c) == CHOOSE v \in dirty : Home(v) = c
           cells == [c \in Cells |->
                       IF \E v \in dirty : Home(v) = c
                         THEN t.cell[Reg(t.live[Of(c)].num)] ELSE t.cell[c]]
           u == StoreLiveLocals(t)
<1>1. u = [t EXCEPT !.cell = cells]
  BY DEF StoreLiveLocals
<1>2. ASSUME NEW v \in dirty PROVE t.cell[Reg(t.live[v].num)] \in Tokens
  <2>1. v \in Values /\ InReg(t, v) /\ t \in States
    BY DEF Values, Good
  <2>2. Reg(t.live[v].num) \in Cells
    BY <2>1, LiveFacts, CellFacts
  <2> QED BY <2>1, <2>2 DEF States
<1>3. ASSUME NEW c \in Cells PROVE cells[c] \in Tokens
  <2>1. (\E v \in dirty : Home(v) = c) => Of(c) \in dirty
    OBVIOUS
  <2>2. t.cell[c] \in Tokens
    BY DEF Good, States
  <2> HIDE DEF dirty, Of
  <2> QED BY <1>2, <2>1, <2>2
<1>4. cells \in [Cells -> Tokens]
  BY <1>3
<1> HIDE DEF cells, u
<1>5. /\ u \in States /\ u.panic = t.panic /\ u.live = t.live
      /\ u.used = t.used /\ u.availRegs = t.availRegs
  BY <1>1, <1>4 DEF Good, States
<1>6. \A r \in Regs : t.used[r] \in Values \cup {None}
  BY DEF Good, States
<1>7. RegistersAgree(t) => RegistersAgree(u)
  BY <1>5, <1>6, SameRegisters DEF InReg
<1> QED BY <1>5, <1>7 DEF Good, u

LEMMA FlowOperandGood ==
  ASSUME NEW t, Good(t)
  PROVE  Good(FlowOperand(t))
BY FailGood DEF FlowOperand, Good, Panics

LEMMA LeaveBlockInv ==
  ASSUME Inv, LeaveBlock
  PROVE  Inv'
<1>1. /\ phase = "code" /\ Keep /\ UNCHANGED <<todo, pos>>
      /\ Become(FlowOperand(StoreLiveLocals(alloc)), "done")
  BY DEF LeaveBlock, AtEnd
<1>2. Good(alloc) /\ pos' \in Nat
  BY <1>1, EndFacts
<1>3. Good(FlowOperand(StoreLiveLocals(alloc)))
  BY <1>2, StoreLiveLocalsGood, FlowOperandGood
<1> QED BY <1>1, <1>2, <1>3, LeaveInv

LEMMA LeaveProgramInv ==
  ASSUME Inv, LeaveProgram
  PROVE  Inv'
<1>1. /\ phase = "code" /\ Keep /\ UNCHANGED <<todo, pos>>
      /\ Become(FlowOperand(alloc), "done")
  BY DEF LeaveProgram, AtEnd
<1>2. Good(alloc) /\ pos' \in Nat
  BY <1>1, EndFacts
<1>3. Good(FlowOperand(alloc))
  BY <1>2, FlowOperandGood
<1> QED BY <1>1, <1>2, <1>3, LeaveInv

LEMMA BeginReturnInv ==
  ASSUME Inv, BeginReturn
  PROVE  Inv'
<1>1. /\ phase = "code" /\ Keep /\ UNCHANGED todo /\ pos' = 0
      /\ alloc' = alloc /\ phase' = "return"
  BY DEF BeginReturn, AtEnd
<1>2. Good(alloc) /\ Become(alloc, "return")
  BY <1>1, Quiet
<1> QED BY <1>1, <1>2, LeaveInv

LEMMA MoveArgGood ==
  ASSUME NEW t, Good(t), NEW p, NEW x \in MoveArgIfNeeded(t, p)
  PROVE  Good(x)
<1>1. x = t \/ x \in EnsureImmediate(t, End, Arg(p))
  BY DEF MoveArgIfNeeded
<1> QED BY <1>1, EnsureImmediateGood DEF Took

LEMMA ReturnFromRegisterInv ==
  ASSUME Inv, ReturnFromRegister
  PROVE  Inv'
<1> DEFINE v == Outs[pos + 1]
           from == Reg(alloc.live[v].num)
<1>1. /\ phase = "return" /\ Keep /\ UNCHANGED todo /\ pos' = pos + 1
      /\ v \in Values /\ InReg(alloc, v)
  BY DEF ReturnFromRegister
<1>2. PICK x \in MoveArgIfNeeded(alloc, pos) :
        Become(Free(Store(x, from, Caller(pos)), v), "return")
  BY DEF ReturnFromRegister
<1>3. Good(alloc) /\ alloc \in States /\ pos' \in Nat
  <2>1. Good(alloc) /\ alloc \in States /\ pos \in Nat
    BY <1>1, EndFacts
  <2> QED BY <1>1, <2>1
<1> HIDE DEF v
<1>4. from \in Cells
  BY <1>1, <1>3, LiveFacts, CellFacts
<1>5. Good(x)
  BY <1>2, <1>3, MoveArgGood
<1> HIDE DEF from
<1>6. Good(Store(x, from, Caller(pos)))
  BY <1>4, <1>5, ReadCell, StoreGood DEF Good
<1>7. Good(Free(Store(x, from, Caller(pos)), v))
  BY <1>1, <1>6, FreeGood
<1> QED BY <1>1, <1>2, <1>3, <1>7, LeaveInv

LEMMA ReturnLaterInv ==
  ASSUME Inv, ReturnLater
  PROVE  Inv'
<1>1. /\ phase = "return" /\ pos < Len(Outs) /\ late' = Append(late, pos)
      /\ pos' = pos + 1
      /\ UNCHANGED <<block, phase, idx, todo, alloc, env, misread>>
  BY DEF ReturnLater
<1>2. Good(alloc) /\ Become(alloc, "return")
  BY <1>1, Quiet
<1> DEFINE n == Len(Outs)
<1>3. /\ todo' \subseteq Values /\ pos \in Nat /\ n \in Nat /\ pos < n
      /\ late \in Seq(0 .. n - 1)
  BY <1>1, EndFacts
<1> HIDE DEF n
<1>4. pos \in 0 .. n - 1 /\ pos' \in Nat
  BY <1>1, <1>3
<1>5. late' \in Seq(0 .. n - 1)
  BY <1>1, <1>3, <1>4, AppendProperties
<1>6. env' \in [Values -> Tokens] /\ misread' \subseteq 0 .. End - 1
  BY <1>1 DEF Inv, TypeOK
<1>7. phase' = "return" => Pending'
  BY DEF Pending, InCall
<1>8. "return" \in Phases \ {"panicked"}
  BY DEF Phases
<1> QED BY <1>1, <1>2, <1>3, <1>4, <1>5, <1>6, <1>7, <1>8, StayInv DEF n

LEMMA ReturnRemainingInv ==
  ASSUME Inv, ReturnRemaining
  PROVE  Inv'
<1> DEFINE p == Head(late)
           v == Outs[p + 1]
           n == Len(Outs)
<1>1. /\ phase = "return" /\ late # <<>> /\ late' = Tail(late)
      /\ UNCHANGED <<block, idx, todo, pos, env, misread>>
  BY DEF ReturnRemaining
<1>2. PICK x \in MoveArgIfNeeded(alloc, p) :
      \E y \in EnsureImmediate(x, End, v) :
        Become(Store(y, Immediate(y, v), Caller(p)), "return")
  BY DEF ReturnRemaining
<1>3. PICK y \in EnsureImmediate(x, End, v) :
        Become(Store(y, Immediate(y, v), Caller(p)), "return")
  BY <1>2
<1>4. /\ Good(alloc) /\ todo' \subseteq Values /\ pos' \in Nat /\ n \in Nat
      /\ late \in Seq(0 .. n - 1)
      /\ \A k \in 1 .. n : Outs[k] \in Operands
  BY <1>1, EndFacts
<1> HIDE DEF n
<1>5. p \in 0 .. n - 1 /\ late' \in Seq(0 .. n - 1)
  BY <1>1, <1>4, HeadTailProperties
<1>6. v \in Operands
  <2> HIDE DEF p
  <2>1. p + 1 \in 1 .. n
    BY <1>4, <1>5
  <2> QED BY <1>4, <2>1
<1> HIDE DEF p, v
<1>7. Good(x)
  BY <1>2, <1>4, MoveArgGood
<1>8. Good(y) /\ (y.panic = "" => (v \in Values => InReg(y, v)))
  BY <1>3, <1>7, EnsureImmediateGood DEF Took
<1>9. y.panic = "" => Read(y, Immediate(y, v)) \in Tokens
  BY <1>6, <1>8, ImmediateFacts DEF Good
<1>10. Good(Store(y, Immediate(y, v), Caller(p)))
  BY <1>8, <1>9, StoreGood
<1>11. env' \in [Values -> Tokens] /\ misread' \subseteq 0 .. End - 1
  BY <1>1 DEF Inv, TypeOK
<1>12. phase' = "return" => Pending'
  BY DEF Pending, InCall
<1>13. "return" \in Phases \ {"panicked"}
  BY DEF Phases
<1> QED BY <1>1, <1>3, <1>4, <1>5, <1>10, <1>11, <1>12, <1>13, StayInv DEF n

LEMMA ReturnedInv ==
  ASSUME Inv, Returned
  PROVE  Inv'
<1>1. /\ phase = "return" /\ Keep /\ UNCHANGED <<todo, pos>>
      /\ alloc' = alloc /\ phase' = "done"
  BY DEF Returned
<1>2. Good(alloc) /\ Become(alloc, "done") /\ pos' \in Nat
  BY <1>1, Quiet, EndFacts
<1> QED BY <1>1, <1>2, LeaveInv

-----------------------------------------------------------------------------
LEMMA InitInv == Init => Inv
<1> SUFFICES ASSUME Init PROVE Inv
  OBVIOUS
<1>1. /\ WellFormed(block) /\ phase = "code" /\ idx = 0 /\ todo = {} /\ pos = 0
      /\ late = <<>> /\ alloc = NewState(block) /\ misread = {}
      /\ env = [v \in Values |-> IF v \in Temps THEN Junk ELSE v]
  BY BlocksWellFormed DEF Init
<1>2. End \in Nat /\ Len(block.out.v) \in Nat
  BY <1>1, BlockFacts
<1>3. Good(alloc) /\ alloc.panic = ""
  BY <1>1, <1>2, NewStateGood DEF End
<1>4. env \in [Values -> Tokens]
  BY <1>1, ValuesFacts DEF Tokens
<1>5. idx \in 0 .. End /\ late \in Seq(0 .. Len(Outs) - 1)
  BY <1>1, <1>2, EmptySeq
<1>6. TypeOK
  BY <1>1, <1>3, <1>4, <1>5 DEF TypeOK, Phases, Good
<1>7. RegisterFile /\ Pending
  BY <1>1, <1>3 DEF RegisterFile, Good, Pending, InCall
<1> QED BY <1>6, <1>7 DEF Inv

LEMMA StutterInv ==
  ASSUME Inv, UNCHANGED vars
  PROVE  Inv'
<1>1. /\ block' = block /\ phase' = phase /\ idx' = idx /\ todo' = todo
      /\ pos' = pos /\ late' = late /\ alloc' = alloc /\ env' = env
      /\ misread' = misread
  BY DEF vars
<1>2. TypeOK'
  BY <1>1 DEF Inv, TypeOK, WellFormed, End, Outs
<1>3. RegisterFile' /\ Pending'
  BY <1>1 DEF Inv, RegisterFile, Pending, End, Ins, InReg
<1> QED BY <1>2, <1>3 DEF Inv

LEMMA Step == Inv /\ [Next]_vars => Inv'
<1> SUFFICES ASSUME Inv, [Next]_vars PROVE Inv'
  OBVIOUS
<1>1. CASE AllocBinary
  BY <1>1, BinaryInv
<1>2. CASE AllocUnary
  BY <1>2, UnaryInv
<1>3. CASE AllocStorePtr
  BY <1>3, StorePtrInv
<1>4. CASE AllocCopy
  BY <1>4, CopyInv
<1>5. CASE AllocCall
  BY <1>5, CallInv
<1>6. ASSUME NEW v \in todo, SpillLiveRegister(v) PROVE Inv'
  BY <1>6, SpillLiveRegisterInv
<1>7. CASE SpilledRegisters
  BY <1>7, SpilledRegistersInv
<1>8. ASSUME NEW v \in todo, SpillLiveInterproc(v) PROVE Inv'
  BY <1>8, SpillLiveInterprocInv
<1>9. CASE SpilledInterproc
  BY <1>9, SpilledInterprocInv
<1>10. CASE LoadArgument
  BY <1>10, LoadArgumentInv
<1>11. CASE LoadedArguments
  BY <1>11, LoadedArgumentsInv
<1>12. ASSUME NEW v \in todo, ClearVolatile(v) PROVE Inv'
  BY <1>12, ClearVolatileInv
<1>13. CASE EmitCall
  BY <1>13, EmitCallInv
<1>14. CASE ReleaseOperand
  BY <1>14, ReleaseOperandInv
<1>15. CASE Released
  BY <1>15, ReleasedInv
<1>16. CASE LeaveBlock
  BY <1>16, LeaveBlockInv
<1>17. CASE LeaveProgram
  BY <1>17, LeaveProgramInv
<1>18. CASE BeginReturn
  BY <1>18, BeginReturnInv
<1>19. CASE ReturnFromRegister
  BY <1>19, ReturnFromRegisterInv
<1>20. CASE ReturnLater
  BY <1>20, ReturnLaterInv
<1>21. CASE ReturnRemaining
  BY <1>21, ReturnRemainingInv
<1>22. CASE Returned
  BY <1>22, ReturnedInv
<1>23. CASE UNCHANGED vars
  BY <1>23, StutterInv
<1> QED BY <1>1, <1>2, <1>3, <1>4, <1>5, <1>6, <1>7, <1>8, <1>9, <1>10, <1>11,
           <1>12, <1>13, <1>14, <1>15, <1>16, <1>17, <1>18, <1>19, <1>20, <1>21,
           <1>22, <1>23 DEF Next, Finished

LEMMA Invariance == Spec => []Inv
BY InitInv, Step, PTL DEF Spec

\* Every variable of the allocator keeps its type, and the allocator stops
\* exactly when one of its own panics is recorded.
THEOREM TypeCorrect == Spec => []TypeOK
<1>1. Inv => TypeOK
  BY DEF Inv
<1> QED BY <1>1, Invariance, PTL

\* As long as the allocator has not panicked, UsedRegs and LiveValues name
\* the same value for every register, no register belongs to two values, and
\* the pool holds each unused register once.
THEOREM RegistersConsistent == Spec => []RegisterFile
<1>1. Inv => RegisterFile
  BY DEF Inv
<1> QED BY <1>1, Invariance, PTL

-----------------------------------------------------------------------------
\* Every value stays what the block has made it.

\* The blocks the allocator handles as it should.
Handled(b) == Linearized(b) /\ Sound(b)

\* v, as block b has left it after n instructions, can be read from s.
RightAt(b, s, e, n, v) ==
  IF v \in Temps
  THEN /\ IsLive(s, v) => e[v] # Junk
       /\ e[v] # Junk /\ s.use[v] >= n => TempRight(s, e, v)
  ELSE /\ VarRight(s, e, v)
       /\ s.live[v].mut => WrittenIn(b, n, v)

Right(b, s, e, n) == \A v \in Values : RightAt(b, s, e, n, v)

\* Every variable and argument is at home.
HomesRight(s, e) == \A v \in Homed : HomeRight(s, e, v)

\* The number of instructions the PIR has executed: that of a call counts once
\* it has been emitted, while its operands are released.
Now == IF phase = "release" THEN idx + 1 ELSE idx

\* Only a temporary not written yet is undefined.
EnvDefined == \A v \in Values : env[v] = Junk <=> v \in Temps /\ ~WrittenIn(block, Now, v)

\* Results are put off only while returning.
NoneLate == phase # "return" => late = <<>>

\* What is true at every step.
Common ==
  /\ phase # "panicked"
  /\ misread = {}
  /\ alloc.use = FindUses(block)
  /\ Apart(alloc)
  /\ EnvDefined
  /\ NoneLate

\* Between instructions every value can be read.
InCode == phase = "code" => Right(block, alloc, env, idx)

\* spillAllLiveRegisters: a variable it has passed is at home, and a temporary
\* the block wants after the call is on its list while it is in a register.
InSpillRegs == phase = "spillregs" =>
  /\ Right(block, alloc, env, idx)
  /\ \A v \in Homed : v \notin todo => HomeRight(alloc, env, v)
  /\ \A v \in Temps : alloc.use[v] > idx /\ InReg(alloc, v) => v \in todo

\* spillAllLiveInterproc: the same for what an earlier call left in the callee
\* area, where the arguments of this one are about to go.
InSpillInter == phase = "spillinterproc" =>
  /\ Right(block, alloc, env, idx)
  /\ HomesRight(alloc, env)
  /\ \A v \in Temps : alloc.use[v] > idx => ~InReg(alloc, v)
  /\ \A v \in Temps : alloc.use[v] >= idx /\ alloc.live[v].place = "callee" => v \in todo

\* Temporaries wanted after the call are in spill slots.
Aside == \A v \in Temps : IsLive(alloc, v) /\ alloc.use[v] > idx => alloc.live[v].place = "spill"

\* loadArguments: pos arguments have been passed, the others can be read.
InArgs == phase = "args" =>
  /\ Right(block, alloc, env, idx + 1)
  /\ HomesRight(alloc, env)
  /\ Aside
  /\ \A v \in Temps : alloc.use[v] >= idx => alloc.live[v].place # "callee"
  /\ pos <= Len(Params)
  /\ \A k \in DOMAIN Params : IF k <= pos THEN alloc.cell[Callee(k - 1)] = Meaning(Params[k])
                              ELSE Params[k] \in Temps => TempRight(alloc, env, Params[k])

\* clearVolatiles: all is passed, and todo is what the call will overwrite.
InClear == phase = "clear" =>
  /\ Right(block, alloc, env, idx + 1)
  /\ HomesRight(alloc, env)
  /\ Aside
  /\ \A v \in Values : v \in todo <=> alloc.live[v].place \in {"reg", "callee"}
  /\ Passed(alloc)

\* After the call only the variable that was called is still in a register.
InRelease == phase = "release" =>
  /\ HomesRight(alloc, env)
  /\ \A v \in Homed : IsLive(alloc, v) =>
        InReg(alloc, v) /\ ~alloc.live[v].mut /\ v = Callee0 /\ pos = 0
  /\ \A v \in Temps : RightAt(block, alloc, env, idx + 1, v)

\* Result p is still to be stored.
Later(p) == p > pos \/ \E k \in DOMAIN late : late[k] = p - 1

\* An operand of the return can be read, wherever it is.
Readable(s, e, o) == o \in Values => /\ o \in Temps => IsLive(s, o)
                                     /\ s.cell[HolderIn(s, o)] = e[o]

\* transformReturn: what has been stored stays, what is still to be stored can
\* be read.  Storing result p overwrites the home of argument p - 1.
InReturn == phase = "return" =>
  /\ pos <= Len(Outs)
  /\ block.out.t = "return" /\ idx = End
  /\ \A k \in DOMAIN late : late[k] < pos
  /\ \A j, k \in DOMAIN late : late[j] = late[k] => j = k
  /\ \A p \in DOMAIN Outs :
       IF Later(p) THEN Readable(alloc, env, Outs[p])
       ELSE alloc.cell[Caller(p - 1)] = Meaning(Outs[p])

\* The inductive invariant behind ValuesKept.
Follows == /\ Common /\ InCode /\ InSpillRegs /\ InSpillInter /\ InArgs
           /\ InClear /\ InRelease /\ InReturn /\ FlowCorrect

-----------------------------------------------------------------------------
LEMMA WrittenMore ==
  ASSUME NEW b, DOMAIN b.code \subseteq Nat, NEW n \in Nat, NEW m \in Nat, n <= m, NEW w, WrittenIn(b, n, w)
  PROVE  WrittenIn(b, m, w)
<1>1. PICK i \in DOMAIN b.code : i <= n /\ \E k \in DOMAIN b.code[i].dest : b.code[i].dest[k] = w
  BY DEF WrittenIn
<1>2. i <= m
  BY <1>1
<1> QED BY <1>1, <1>2 DEF WrittenIn

\* A value keeps what it is right about when neither its place nor a cell it
\* is in changes, whatever else the step does.
LEMMA RightKept ==
  ASSUME NEW b, DOMAIN b.code \subseteq Nat,
         NEW s, NEW t, NEW x, Keeps(s, t, x), NEW w \in Values, w # x,
         t.use = s.use, s.use[w] \in Nat, NEW e, NEW f, f[w] = e[w],
         NEW n \in Nat, NEW m \in Nat, n <= m, RightAt(b, s, e, n, w)
  PROVE  RightAt(b, t, f, m, w)
<1>1. /\ t.live[w] = s.live[w]
      /\ IsLive(t, w) <=> IsLive(s, w)
      /\ HolderIn(t, w) = HolderIn(s, w)
      /\ IsLive(s, w) \/ w \in Homed => t.cell[HolderIn(s, w)] = s.cell[HolderIn(s, w)]
      /\ w \in Homed => t.cell[Home(w)] = s.cell[Home(w)]
  BY DEF Keeps, HolderIn, IsLive
<1>2. CASE w \in Temps
  <2>1. t.use[w] >= m => s.use[w] >= n
    <3> DEFINE u == s.use[w]
    <3>1. t.use[w] = u /\ u \in Nat
      OBVIOUS
    <3> HIDE DEF u
    <3> QED BY <3>1 DEF u
  <2> QED BY <1>1, <1>2, <2>1 DEF RightAt, TempRight
<1>3. CASE w \notin Temps
  <2>1. w \in Homed
    BY <1>3, Classes
  <2>2. WrittenIn(b, n, w) => WrittenIn(b, m, w)
    BY WrittenMore
  <2> QED BY <1>1, <1>3, <2>1, <2>2 DEF RightAt, VarRight, HomeRight
<1> QED BY <1>2, <1>3

\* The same between two steps of one instruction.
LEMMA RightStays ==
  ASSUME NEW b, DOMAIN b.code \subseteq Nat,
         NEW s, NEW t, NEW x, Keeps(s, t, x), NEW w \in Values, w # x,
         t.use = s.use, s.use[w] \in Nat, NEW e, NEW n \in Nat, RightAt(b, s, e, n, w)
  PROVE  RightAt(b, t, e, n, w)
<1>1. n <= n
  OBVIOUS
<1>2. e[w] = e[w]
  OBVIOUS
<1> QED BY <1>1, <1>2, RightKept

-----------------------------------------------------------------------------
\* What these methods leave right.

\* The code of a block is numbered.
LEMMA CodeNumbered ==
  ASSUME NEW b, WellFormed(b)
  PROVE  /\ DOMAIN b.code \subseteq Nat /\ Len(b.code) \in Nat /\ DOMAIN b.code = 1 .. Len(b.code)
         /\ b.out.v \in Seq(Operands) /\ Len(b.out.v) \in Nat /\ DOMAIN b.out.v = 1 .. Len(b.out.v)
         /\ Len(b.code) < RetIndex
<1>1. b.code \in Seq(Instrs) /\ b.out.v \in Seq(Operands)
  BY DEF WellFormed, WellFormedFlow
<1> QED BY <1>1, LenProperties DEF WellFormed

\* A value is brought into a register.
LEMMA BroughtRight ==
  ASSUME NEW b, WellFormed(b), NEW s, Sane(s), NEW v \in Values, NEW t,
         Calm(s, t), InReg(t, v), Keeps(s, t, v),
         ~InReg(s, v), ~t.live[v].mut,
         t.cell[HolderIn(t, v)] = s.cell[HolderIn(s, v)],
         NEW e, NEW n \in Nat, Right(b, s, e, n), v \in Temps => IsLive(s, v)
  PROVE  Right(b, t, e, n)
<1>2. DOMAIN b.code \subseteq Nat /\ t.use = s.use /\ s.use \in [Values -> Nat]
  BY CodeNumbered, SaneFacts DEF Calm
<1>3. ASSUME NEW w \in Values, w # v PROVE RightAt(b, t, e, n, w)
  <2>1. RightAt(b, s, e, n, w) /\ s.use[w] \in Nat /\ n <= n
    BY <1>2 DEF Right
  <2> QED BY <1>2, <1>3, <2>1, RightKept
<1>5. CASE v \in Temps
  <2>1. RightAt(b, s, e, n, v) /\ IsLive(s, v) /\ IsLive(t, v)
    BY <1>5 DEF Right, InReg, IsLive
  <2>2. RightAt(b, t, e, n, v)
    BY <1>2, <1>5, <2>1 DEF RightAt, TempRight
  <2> QED BY <1>3, <2>2 DEF Right
<1>6. CASE v \notin Temps
  <2>1. v \in Homed /\ VarRight(s, e, v) /\ RightAt(b, s, e, n, v)
    BY <1>6, Classes DEF Right, RightAt
  <2>2. HolderIn(s, v) = Home(v)
    BY <2>1, HolderFacts DEF VarRight, InReg, IsLive
  <2>3. s.cell[Home(v)] = e[v] /\ t.cell[Home(v)] = s.cell[Home(v)]
    <3>1. Home(v) \in Cells /\ Home(v).class # "reg"
      BY <2>1, Classes
    <3> QED BY <2>1, <2>2, <3>1 DEF VarRight, Calm
  <2>4. VarRight(t, e, v)
    BY <2>2, <2>3 DEF VarRight, HomeRight, InReg
  <2>5. RightAt(b, t, e, n, v)
    BY <1>6, <2>4 DEF RightAt
  <2> QED BY <1>3, <2>5 DEF Right
<1> QED BY <1>5, <1>6

\* ensureImmediate, of a block whose values are right.
LEMMA EnsureRight ==
  ASSUME NEW b, WellFormed(b), NEW s, Sane(s), NEW i, NEW v \in Values, HasItems(s.availRegs),
         NEW t \in EnsureImmediate(s, i, v), NEW e, NEW n \in Nat, Right(b, s, e, n),
         v \in Temps => IsLive(s, v)
  PROVE  Right(b, t, e, n)
<1>1. /\ Calm(s, t) /\ InReg(t, v) /\ Keeps(s, t, v)
      /\ InReg(s, v) => t = s
      /\ ~InReg(s, v) => ~t.live[v].mut
      /\ t.cell[HolderIn(t, v)] = s.cell[HolderIn(s, v)]
  BY EnsureFacts, Classes
<1>2. CASE InReg(s, v)
  BY <1>1, <1>2
<1>3. CASE ~InReg(s, v)
  BY <1>1, <1>3, BroughtRight
<1> QED BY <1>2, <1>3

\* What is wanted from instruction m on is wanted from an earlier n on.
LEMMA RightLater ==
  ASSUME NEW b, WellFormed(b), NEW s, Sane(s), NEW e, NEW n \in Nat, NEW m \in Nat, n <= m,
         Right(b, s, e, n)
  PROVE  Right(b, s, e, m)
<1>1. ASSUME NEW w \in Values PROVE RightAt(b, s, e, m, w)
  <2>1. Keeps(s, s, None) /\ w # None /\ RightAt(b, s, e, n, w)
    BY KeepsSelf, ValuesFacts DEF Right
  <2>2. DOMAIN b.code \subseteq Nat /\ s.use[w] \in Nat
    BY CodeNumbered, SaneFacts
  <2> QED BY <2>1, <2>2, RightKept
<1> QED BY <1>1 DEF Right

\* Freeing a value after its last use.
LEMMA ReleaseRight ==
  ASSUME NEW b, WellFormed(b), NEW s, Sane(s), NEW i \in Nat, NEW ins, NEW v, NEW e,
         NEW n \in Nat, n = i + 1, Right(b, s, e, n)
  PROVE  Right(b, FreeIfUnneeded(s, i, ins, v), e, n)
<1> DEFINE t == FreeIfUnneeded(s, i, ins, v)
<1>1. /\ Calm(s, t) /\ t.cell = s.cell /\ Keeps(s, t, v)
      /\ \/ t = s
         \/ /\ v \in Values /\ t.live[v] = Dead
            /\ s.use[v] <= i /\ ~s.live[v].mut
  BY ReleaseFacts
<1> SUFFICES Right(b, t, e, n)
  OBVIOUS
<1> HIDE DEF t
<1>2. DOMAIN b.code \subseteq Nat /\ t.use = s.use /\ s.use \in [Values -> Nat]
  BY <1>1, CodeNumbered, SaneFacts DEF Calm
<1>3. ASSUME NEW w \in Values, w # v PROVE RightAt(b, t, e, n, w)
  <2>1. RightAt(b, s, e, n, w) /\ s.use[w] \in Nat /\ n <= n
    BY <1>2 DEF Right
  <2> QED BY <1>1, <1>2, <1>3, <2>1, RightKept
<1>4. CASE v \in Temps /\ t.live[v] = Dead /\ s.use[v] <= i
  <2>1. ~IsLive(t, v) /\ ~(t.use[v] >= n)
    BY <1>2, <1>4, ValuesFacts, Classes DEF IsLive
  <2>2. RightAt(b, t, e, n, v)
    BY <1>4, <2>1 DEF RightAt
  <2> QED BY <1>3, <2>2 DEF Right
<1>5. CASE v \in Values /\ v \notin Temps /\ t.live[v] = Dead /\ ~s.live[v].mut
  <2>1. VarRight(s, e, v) /\ s.cell[Home(v)] = e[v]
    BY <1>5 DEF Right, RightAt, VarRight, HomeRight
  <2>2. HolderIn(t, v) = Home(v) /\ t.live[v].place = "dead" /\ ~t.live[v].mut
    BY <1>5, ValuesFacts DEF HolderIn, IsLive, Dead, UseInfo
  <2>3. VarRight(t, e, v)
    BY <1>1, <2>1, <2>2 DEF VarRight, HomeRight
  <2>4. RightAt(b, t, e, n, v)
    BY <1>5, <2>2, <2>3 DEF RightAt
  <2> QED BY <1>3, <2>4 DEF Right
<1>6. CASE t = s
  BY <1>6
<1> QED BY <1>1, <1>4, <1>5, <1>6

-----------------------------------------------------------------------------
\* Last uses.

\* FindUses gives every value the last place it is named at.
LEMMA LastUseAbove ==
  ASSUME NEW n \in Nat, NEW m \in Nat,
         NEW A \in SUBSET (0 .. n - 1), NEW R \in SUBSET (0 .. m - 1)
  PROVE  LET u == Max({0} \cup A \cup {RetIndex + i : i \in R})
         IN (\A x \in A : x <= u) /\ (\A i \in R : RetIndex + i <= u)
<1> DEFINE S == {0} \cup A \cup {RetIndex + i : i \in R}
           k == RetIndex + n + m
<1>1. k \in Nat /\ \A x \in A : x \in Nat /\ x <= k
  BY RetIndexType
<1>2. \A i \in R : RetIndex + i \in Nat /\ RetIndex + i <= k
  BY RetIndexType
<1>3. S \in SUBSET Nat /\ S # {} /\ \A x \in S : x <= k
  <2> SUFFICES ASSUME NEW x \in S PROVE x \in Nat /\ x <= k
    OBVIOUS
  <2>1. CASE x = 0
    BY <2>1, <1>1
  <2>2. CASE x \in A
    BY <2>2, <1>1
  <2>3. CASE \E i \in R : x = RetIndex + i
    BY <2>3, <1>2
  <2> QED BY <2>1, <2>2, <2>3
<1> HIDE DEF S, k
<1>4. \A x \in S : x <= Max(S)
  BY <1>1, <1>3, MaxOfBounded
<1>5. (\A x \in A : x \in S) /\ (\A i \in R : RetIndex + i \in S)
  BY DEF S
<1>6. (\A x \in A : x <= Max(S)) /\ (\A i \in R : RetIndex + i <= Max(S))
  BY <1>4, <1>5
<1> QED BY <1>6 DEF S

\* A value is used at the latest where an instruction or the flow names it.
LEMMA UsesAbove ==
  ASSUME NEW b, WellFormed(b), NEW v \in Values
  PROVE  /\ FindUses(b)[v] \in Nat
         /\ \A i \in 0 .. Len(b.code) - 1 : v \in Mentions(b.code[i + 1]) => i <= FindUses(b)[v]
         /\ \A j \in 0 .. Len(b.out.v) - 1 : b.out.v[j + 1] = v => RetIndex + j <= FindUses(b)[v]
<1> DEFINE n == Len(b.code)
           m == Len(b.out.v)
           A == {i \in 0 .. n - 1 : v \in Mentions(b.code[i + 1])}
           R == {j \in 0 .. m - 1 : b.out.v[j + 1] = v}
           u == FindUses(b)[v]
<1>1. u = Max({0} \cup A \cup {RetIndex + i : i \in R})
  BY DEF FindUses
<1>2. n \in Nat /\ m \in Nat
  BY CodeNumbered
<1>3. u \in Nat
  BY <1>2, FindUsesType
<1> HIDE DEF n, m, u
<1>4. A \in SUBSET (0 .. n - 1) /\ R \in SUBSET (0 .. m - 1)
  OBVIOUS
<1>5. /\ \A i \in 0 .. n - 1 : v \in Mentions(b.code[i + 1]) => i \in A
      /\ \A j \in 0 .. m - 1 : b.out.v[j + 1] = v => j \in R
  OBVIOUS
<1> HIDE DEF A, R
<1>6. (\A x \in A : x <= u) /\ (\A i \in R : RetIndex + i <= u)
  BY <1>1, <1>2, <1>4, LastUseAbove
<1> QED BY <1>3, <1>5, <1>6 DEF n, m, u

-----------------------------------------------------------------------------
\* What the emitted code reads.

ValueOf(e, o) == IF o \in Values THEN e[o] ELSE o

\* An operand is read as the PIR means it.
LEMMA OperandRead ==
  ASSUME NEW b, NEW s, Sane(s), NEW e, NEW n, Right(b, s, e, n), NEW o \in Operands,
         o \in Values => InReg(s, o),
         o \in Temps => e[o] # Junk /\ s.use[o] >= n
  PROVE  Read(s, Immediate(s, o)) = ValueOf(e, o)
<1>1. CASE o \in Values
  <2>1. /\ Immediate(s, o) = Reg(s.live[o].num) /\ HolderIn(s, o) = Reg(s.live[o].num)
        /\ Reg(s.live[o].num) \in Cells
    BY <1>1, HolderFacts, CellFacts DEF Immediate
  <2>2. s.cell[HolderIn(s, o)] = e[o]
    BY <1>1 DEF Right, RightAt, VarRight, TempRight
  <2> QED BY <1>1, <2>1, <2>2, CellRead DEF ValueOf
<1>2. CASE o \notin Values
  <2>1. o.class \in {"lit", "global"}
    BY <1>2 DEF Operands
  <2> QED BY <1>2, <2>1 DEF Immediate, Read, ValueOf
<1> QED BY <1>1, <1>2

-----------------------------------------------------------------------------
\* Operands and destinations of the instruction at hand.

\* An operand is brought into a register: it is right there, what was in a
\* register stays, and so does all the rest.
LEMMA OperandEnsured ==
  ASSUME NEW b, WellFormed(b), NEW s, Sane(s), NEW i, NEW o \in Operands,
         Len(s.availRegs.items) >= 1, NEW t \in EnsureImmediate(s, i, o),
         NEW e, NEW n \in Nat, Right(b, s, e, n), o \in Temps => IsLive(s, o)
  PROVE  /\ Calm(s, t) /\ Right(b, t, e, n)
         /\ o \in Values => InReg(t, o)
         /\ Len(t.availRegs.items) >= Len(s.availRegs.items) - 1
         /\ \A w \in Values : InReg(s, w) => t.live[w] = s.live[w]
         /\ Keeps(s, t, o)
<1>0. Len(s.availRegs.items) \in Nat /\ HasItems(s.availRegs)
  BY SaneFacts, ItemsLeft
<1>1. CASE o \in Values
  <2>1. /\ Calm(s, t) /\ InReg(t, o) /\ Keeps(s, t, o)
        /\ InReg(s, o) => t = s
        /\ Len(t.availRegs.items) >= Len(s.availRegs.items) - 1
    BY <1>0, <1>1, EnsureFacts
  <2>2. Right(b, t, e, n)
    BY <1>0, <1>1, EnsureRight
  <2>3. \A w \in Values : InReg(s, w) => t.live[w] = s.live[w]
    BY <2>1 DEF Keeps
  <2> QED BY <2>1, <2>2, <2>3
<1>2. CASE o \notin Values
  <2>1. t = s /\ o \notin Temps
    BY <1>2, Classes DEF EnsureImmediate
  <2>2. Calm(s, t) /\ Keeps(s, t, o) /\ Right(b, t, e, n)
    BY <2>1, CalmSelf, KeepsSelf
  <2> QED BY <1>0, <1>2, <2>1, <2>2
<1> QED BY <1>1, <1>2

LEMMA OperandFacts ==
  ASSUME Inv, Common, Handled(block), idx < End, Now = idx, NEW k \in DOMAIN Ins.ops
  PROVE  /\ Ins.ops[k] \in Operands
         /\ Ins.ops[k] \in Values => alloc.use[Ins.ops[k]] >= idx
         /\ Ins.ops[k] \in Temps => /\ env[Ins.ops[k]] # Junk
                                    /\ \A l \in DOMAIN Ins.dest : Ins.dest[l] # Ins.ops[k]
<1> DEFINE o == Ins.ops[k]
           i == idx + 1
<1>1. WellFormed(block) /\ idx \in 0 .. End
  BY DEF Inv, TypeOK
<1>2. /\ DOMAIN block.code = 1 .. Len(block.code) /\ Len(block.code) \in Nat
      /\ Ins \in Instrs /\ Ins.ops \in Seq(Operands)
  BY <1>1, CodeNumbered, InsFacts DEF Instrs
<1>3. i \in DOMAIN block.code /\ i - 1 = idx /\ Ins = block.code[i] /\ idx \in 0 .. Len(block.code) - 1
  BY <1>1, <1>2 DEF End, Ins
<1>4. o \in Operands
  BY <1>2, ElementOfSeq, LenProperties
<1>5. o \in Values => alloc.use[o] >= idx
  <2> SUFFICES ASSUME o \in Values PROVE alloc.use[o] >= idx
    OBVIOUS
  <2>1. o \in Mentions(block.code[i])
    BY <1>3 DEF Mentions
  <2>2. FindUses(block)[o] \in Nat /\ idx <= FindUses(block)[o]
    BY <1>1, <1>3, <2>1, UsesAbove
  <2> QED BY <1>1, <2>2 DEF Common
<1>6. o \in Temps => env[o] # Junk /\ WrittenIn(block, idx, o)
  <2> SUFFICES ASSUME o \in Temps PROVE env[o] # Junk /\ WrittenIn(block, idx, o)
    OBVIOUS
  <2>1. WrittenIn(block, i - 1, o)
    BY <1>3 DEF Handled, Linearized
  <2>2. WrittenIn(block, idx, o) /\ o \in Values
    BY <1>3, <2>1, Classes
  <2> QED BY <2>2 DEF Common, EnvDefined
<1>7. ASSUME o \in Temps, NEW l \in DOMAIN Ins.dest, Ins.dest[l] = o
      PROVE  FALSE
  <2>1. PICK j \in DOMAIN block.code : j <= idx /\ \E m \in DOMAIN block.code[j].dest : block.code[j].dest[m] = o
    BY <1>6, <1>7 DEF WrittenIn
  <2>2. j = i
    BY <1>3, <1>7, <2>1 DEF Handled, Linearized
  <2> QED BY <1>1, <2>1, <2>2
<1> QED BY <1>4, <1>5, <1>6, <1>7

\* A result goes to a temporary not written before, or to a variable.
LEMMA DestFacts ==
  ASSUME Inv, Common, Handled(block), idx < End, Now = idx, NEW k \in DOMAIN Ins.dest
  PROVE  /\ Ins.dest[k] \in Values
         /\ Ins.dest[k] \in Temps => env[Ins.dest[k]] = Junk
<1> DEFINE c == Ins.dest[k]
           i == idx + 1
<1>1. WellFormed(block) /\ idx \in 0 .. End
  BY DEF Inv, TypeOK
<1>2. /\ DOMAIN block.code = 1 .. Len(block.code) /\ Len(block.code) \in Nat
      /\ c \in Values
  BY <1>1, CodeNumbered, InsFacts
<1>3. i \in DOMAIN block.code /\ Ins = block.code[i]
  BY <1>1, <1>2 DEF End, Ins
<1>4. ASSUME c \in Temps, WrittenIn(block, idx, c) PROVE FALSE
  <2>1. PICK j \in DOMAIN block.code : j <= idx /\ \E m \in DOMAIN block.code[j].dest : block.code[j].dest[m] = c
    BY <1>4 DEF WrittenIn
  <2>2. j = i
    BY <1>3, <1>4, <2>1 DEF Handled, Linearized
  <2> QED BY <1>1, <2>1, <2>2
<1>5. c \in Temps => env[c] = Junk
  BY <1>2, <1>4 DEF Common, EnvDefined
<1> QED BY <1>2, <1>5

LEMMA WrittenNext ==
  ASSUME WellFormed(block), idx \in 0 .. End, idx < End, NEW v
  PROVE  WrittenIn(block, idx + 1, v) <=>
           WrittenIn(block, idx, v) \/ \E k \in DOMAIN Ins.dest : Ins.dest[k] = v
<1>1. DOMAIN block.code = 1 .. Len(block.code) /\ Len(block.code) \in Nat
  BY CodeNumbered
<1>2. idx + 1 \in DOMAIN block.code /\ Ins = block.code[idx + 1]
  BY <1>1 DEF End, Ins
<1>3. \A i \in DOMAIN block.code : i <= idx + 1 <=> i <= idx \/ i = idx + 1
  BY <1>1
<1> QED BY <1>2, <1>3 DEF WrittenIn

-----------------------------------------------------------------------------
\* The homes of local variables.

LEMMA LocalHomes ==
  \A v \in Locals : /\ v \in Homed /\ v \in Values /\ v \notin Temps
                    /\ Home(v) \in Cells /\ Home(v).class = "local"
<1>1. \A v \in Locals : v \in Homed /\ v \in Values /\ Home(v) = Local(v.id)
  BY DEF Homed, Values, Locals, Var, Operand, Home
<1> QED BY <1>1, Classes DEF Local, Operand

\* From s to t the home of a local variable receives at most what the variable
\* is in e or in f.
HomesTake(s, t, e, f) ==
  \A v \in Locals : t.cell[Home(v)] # s.cell[Home(v)] => t.cell[Home(v)] \in {e[v], f[v]}

HomesStep == HomesTake(alloc, alloc', env, env')

\* Registers are no homes.
LEMMA CalmHomes ==
  ASSUME NEW s, NEW t, Calm(s, t)
  PROVE  \A v \in Locals : t.cell[Home(v)] = s.cell[Home(v)]
BY LocalHomes DEF Calm

\* No home is written at all.
LEMMA HomesAlone ==
  ASSUME NEW s, NEW t, \A v \in Locals : t.cell[Home(v)] = s.cell[Home(v)], NEW e, NEW f
  PROVE  HomesTake(s, t, e, f)
BY DEF HomesTake

-----------------------------------------------------------------------------
\* From one instruction to the next.

LEMMA DefinedFacts ==
  ASSUME NEW value, NEW v \in Values
  PROVE  /\ (\A k \in DOMAIN Ins.dest : Ins.dest[k] # v) => Defined(value)[v] = env[v]
         /\ (\E k \in DOMAIN Ins.dest : Ins.dest[k] = v) =>
              \E k \in DOMAIN Ins.dest : Ins.dest[k] = v /\ Defined(value)[v] = value[k]
         /\ DOMAIN Ins.dest = {1} /\ Ins.dest[1] = v => Defined(value)[v] = value[1]
BY DEF Defined

\* What the PIR defines when an instruction is done.
LEMMA EnvNext ==
  ASSUME WellFormed(block), idx \in 0 .. End, idx < End, Common, Now = idx,
         NEW value, \A k \in DOMAIN Ins.dest : value[k] # Junk
  PROVE  \A v \in Values : Defined(value)[v] = Junk <=> v \in Temps /\ ~WrittenIn(block, idx + 1, v)
<1> SUFFICES ASSUME NEW v \in Values
             PROVE  Defined(value)[v] = Junk <=> v \in Temps /\ ~WrittenIn(block, idx + 1, v)
  OBVIOUS
<1>1. env[v] = Junk <=> v \in Temps /\ ~WrittenIn(block, idx, v)
  BY DEF Common, EnvDefined
<1>2. WrittenIn(block, idx + 1, v) <=>
         WrittenIn(block, idx, v) \/ \E k \in DOMAIN Ins.dest : Ins.dest[k] = v
  BY WrittenNext
<1>3. CASE \E k \in DOMAIN Ins.dest : Ins.dest[k] = v
  BY <1>2, <1>3, DefinedFacts
<1>4. CASE ~ \E k \in DOMAIN Ins.dest : Ins.dest[k] = v
  BY <1>1, <1>2, <1>4, DefinedFacts
<1> QED BY <1>3, <1>4

\* An instruction of the straight kind ends with every value right.
LEMMA AdvanceFollows ==
  ASSUME Inv, Common, Handled(block), phase = "code", idx < End,
         NEW t, Sane(t), t.use = alloc.use,
         NEW value, Advance(t, TRUE, value), \A k \in DOMAIN Ins.dest : value[k] # Junk,
         Right(block, t, Defined(value), idx + 1)
  PROVE  Follows'
<1>1. WellFormed(block) /\ idx \in 0 .. End /\ Now = idx
  BY DEF Inv, TypeOK, Now
<1>2. /\ alloc' = t /\ idx' = idx + 1 /\ env' = Defined(value) /\ block' = block
      /\ misread' = misread /\ phase' = "code" /\ late' = late
  BY DEF Advance, Noted, Become, Sane, Fine
<1>3. (Now = idx)'
  BY <1>2 DEF Now
<1>4. EnvDefined'
  <2>1. \A v \in Values : Defined(value)[v] = Junk <=> v \in Temps /\ ~WrittenIn(block, idx + 1, v)
    BY <1>1, EnvNext
  <2> QED BY <1>2, <1>3, <2>1 DEF EnvDefined
<1>5. Common'
  <2>1. NoneLate
    BY DEF Common
  <2>2. late = <<>>
    BY <2>1 DEF NoneLate
  <2>3. NoneLate'
    BY <1>2, <2>2 DEF NoneLate
  <2> QED BY <1>2, <1>4, <2>3 DEF Common, Sane
<1>6. InCode'
  BY <1>2 DEF InCode
<1>7. /\ InSpillRegs' /\ InSpillInter' /\ InArgs' /\ InClear' /\ InRelease' /\ InReturn'
      /\ FlowCorrect'
  BY <1>2 DEF InSpillRegs, InSpillInter, InArgs, InClear, InRelease, InReturn, FlowCorrect
<1> QED BY <1>5, <1>6, <1>7 DEF Follows

-----------------------------------------------------------------------------
\* The destination of an instruction receives its value.

LEMMA DestRight ==
  ASSUME NEW b, WellFormed(b), NEW z, Sane(z), NEW c \in Values, InReg(z, c),
         NEW to, to = Reg(z.live[c].num), NEW x, x # Junk,
         NEW t, Wrote(Mark(z, c), t, to, x), t.use = z.use,
         NEW e, NEW f, NEW n \in Nat, f[c] = x, WrittenIn(b, n, c),
         \A w \in Values : w # c => f[w] = e[w] /\ RightAt(b, z, e, n, w)
  PROVE  Right(b, t, f, n)
<1> DEFINE q == Mark(z, c)
<1>1. /\ Sane(q) /\ q.use = z.use /\ q.cell = z.cell
      /\ \A w \in Values : q.live[w].place = z.live[w].place /\ q.live[w].num = z.live[w].num
      /\ \A w \in Values \ {c} : q.live[w] = z.live[w]
      /\ c \in Homed => q.live[c].mut
  BY MarkFacts DEF InReg, IsLive
<1>2. Wrote(q, t, to, x)
  OBVIOUS
<1> HIDE DEF q
<1>3. InReg(q, c) /\ to = Reg(q.live[c].num) /\ Keeps(z, q, c)
  <2>1. Keeps(z, q, c)
    BY <1>1, KeepsSame
  <2> QED BY <1>1, <2>1 DEF InReg
<1>4. Keeps(q, t, c)
  BY <1>1, <1>2, <1>3, RegWrite
<1>5. t.cell[HolderIn(t, c)] = x
  <2>1. HolderIn(t, c) = to
    BY <1>1, <1>2, <1>3, RegWrite
  <2>2. to \in Cells /\ q.cell \in [Cells -> Tokens]
    BY <1>1, <1>3, HolderFacts, CellFacts, SaneFacts
  <2>3. t.cell[to] = x
    BY <1>2, <2>2 DEF Wrote
  <2> QED BY <2>1, <2>3
<1>6. DOMAIN b.code \subseteq Nat /\ z.use \in [Values -> Nat]
  BY CodeNumbered, SaneFacts
<1>7. ASSUME NEW w \in Values, w # c PROVE RightAt(b, t, f, n, w)
  <2>1. Keeps(z, t, c)
    BY <1>3, <1>4, KeepsTwice
  <2>2. f[w] = e[w] /\ RightAt(b, z, e, n, w) /\ n <= n /\ z.use[w] \in Nat
    BY <1>6, <1>7
  <2> QED BY <1>6, <1>7, <2>1, <2>2, RightKept
<1>8. InReg(t, c) /\ IsLive(t, c) /\ t.live[c] = q.live[c]
  BY <1>2, <1>3 DEF Wrote, InReg, IsLive
<1>9. RightAt(b, t, f, n, c)
  <2>1. CASE c \in Temps
    BY <1>5, <1>8, <2>1 DEF RightAt, TempRight
  <2>2. CASE c \notin Temps
    <3>1. c \in Homed /\ t.live[c].mut /\ t.live[c].place = "reg"
      BY <1>1, <1>8, <2>2, Classes DEF InReg
    <3>2. VarRight(t, f, c)
      BY <1>5, <3>1 DEF VarRight
    <3> QED BY <2>2, <3>2 DEF RightAt
  <2> QED BY <2>1, <2>2
<1> QED BY <1>7, <1>9 DEF Right

\* The emitted instruction puts the result where the PIR has it.
LEMMA EmitFacts ==
  ASSUME NEW s, Sane(s), idx \in Nat, NEW from, Reads(s, from), NEW to \in Cells
  PROVE  LET t == Emit(s, from, to)
         IN Sane(t) /\ t.use = s.use /\ Wrote(s, t, to, Result(idx, 0))
<1> DEFINE t == Emit(s, from, to)
<1>1. to # None
  BY DEF Cells, Reg, Slot, Callee, Caller, Local, Operand, None
<1>2. t = [s EXCEPT !.cell[to] = Result(idx, 0)]
  BY <1>1 DEF Emit
<1>3. s \in States /\ Good(s) /\ Fine(s)
  BY SaneFacts
<1>4. Good(t) /\ t.panic = s.panic
  BY <1>3, EmitGood
<1> HIDE DEF t
<1>5. /\ t.cell = [s.cell EXCEPT ![to] = Result(idx, 0)] /\ t.live = s.live /\ t.use = s.use
      /\ t.availSpills = s.availSpills /\ t.usedSpill = s.usedSpill
  BY <1>2, <1>3 DEF States
<1>6. Apart(t)
  BY <1>5, SameSlots
<1> QED BY <1>3, <1>4, <1>5, <1>6, SameFine DEF Sane, Wrote, t

-----------------------------------------------------------------------------
\* The instructions that compute.

Coding == Inv /\ Follows /\ Roomy /\ Handled(block) /\ phase = "code" /\ idx < End

LEMMA AllocSane ==
  ASSUME Inv, Common
  PROVE  Sane(alloc)
BY DEF Inv, TypeOK, RegisterFile, Common, Sane, Good, Fine

\* What is known when an instruction is taken up.
LEMMA CodingFacts ==
  ASSUME Coding
  PROVE  /\ Inv /\ Common /\ Handled(block) /\ phase = "code" /\ idx < End
         /\ WellFormed(block) /\ idx \in 0 .. End /\ idx \in Nat /\ idx + 1 \in Nat
         /\ idx <= idx + 1 /\ Now = idx
         /\ Sane(alloc) /\ Right(block, alloc, env, idx)
         /\ Len(alloc.availRegs.items) \in Nat /\ Len(alloc.availRegs.items) >= 3
         /\ \A v \in Values : alloc.use[v] \in Nat
<1>1. Inv /\ Common /\ Handled(block) /\ phase = "code" /\ idx < End /\ InCode /\ Roomy
  BY DEF Coding, Follows
<1>2. WellFormed(block) /\ idx \in 0 .. End /\ Now = idx
  BY <1>1 DEF Inv, TypeOK, Now
<1>3. idx \in Nat
  BY <1>2
<1>4. idx + 1 \in Nat /\ idx <= idx + 1
  BY <1>3
<1>5. Sane(alloc) /\ Len(alloc.availRegs.items) \in Nat /\ \A v \in Values : alloc.use[v] \in Nat
  BY <1>1, AllocSane, SaneFacts
<1> QED BY <1>1, <1>2, <1>3, <1>4, <1>5 DEF InCode, Roomy

\* An operand of the instruction at hand that is a temporary is live.
LEMMA OperandLive ==
  ASSUME Coding, NEW k \in DOMAIN Ins.ops, NEW s, s.use = alloc.use, Right(block, s, env, idx)
  PROVE  Ins.ops[k] \in Temps => IsLive(s, Ins.ops[k])
<1>1. /\ Ins.ops[k] \in Values => alloc.use[Ins.ops[k]] >= idx
      /\ Ins.ops[k] \in Temps => env[Ins.ops[k]] # Junk
  BY CodingFacts, OperandFacts
<1> QED BY <1>1, Classes DEF Right, RightAt, TempRight

\* An operand chosen in state x is read in a state z with the cells of y.
LEMMA ReadAfter ==
  ASSUME Coding, NEW k \in DOMAIN Ins.ops, NEW y, Sane(y), y.use = alloc.use,
         Right(block, y, env, idx), Ins.ops[k] \in Values => InReg(y, Ins.ops[k]),
         NEW x, Ins.ops[k] \in Values => x.live[Ins.ops[k]] = y.live[Ins.ops[k]],
         NEW z, z.cell = y.cell
  PROVE  Read(z, Immediate(x, Ins.ops[k])) = Meaning(Ins.ops[k])
<1> DEFINE o == Ins.ops[k]
<1>1. /\ o \in Operands
      /\ o \in Values => alloc.use[o] >= idx
      /\ o \in Temps => env[o] # Junk /\ o \in Values
  BY CodingFacts, OperandFacts, Classes
<1>2. Read(y, Immediate(y, o)) = ValueOf(env, o)
  <2> HIDE DEF o
  <2> QED BY <1>1, OperandRead DEF o
<1>3. Immediate(x, o) = Immediate(y, o)
  BY DEF Immediate
<1>4. \A p : Read(z, p) = Read(y, p)
  BY DEF Read
<1> QED BY <1>2, <1>3, <1>4 DEF ValueOf, Meaning

\* Two operands in registers.
LEMMA TwoOperands ==
  ASSUME Coding, 1 \in DOMAIN Ins.ops, 2 \in DOMAIN Ins.ops,
         NEW x \in EnsureImmediate(alloc, idx, Ins.ops[1]),
         NEW y \in EnsureImmediate(x, idx, Ins.ops[2])
  PROVE  /\ Calm(alloc, y) /\ Right(block, y, env, idx)
         /\ \A k \in {1, 2} : Ins.ops[k] \in Values => InReg(y, Ins.ops[k])
         /\ Ins.ops[1] \in Values => x.live[Ins.ops[1]] = y.live[Ins.ops[1]]
         /\ Len(y.availRegs.items) \in Nat /\ Len(y.availRegs.items) >= 1
<1> DEFINE a == Ins.ops[1]
           b == Ins.ops[2]
<1>1. a \in Operands /\ b \in Operands
  BY CodingFacts, OperandFacts
<1>2. /\ Calm(alloc, x) /\ Right(block, x, env, idx) /\ (a \in Values => InReg(x, a))
      /\ Len(x.availRegs.items) >= Len(alloc.availRegs.items) - 1
  <2>1. a \in Temps => IsLive(alloc, a)
    BY CodingFacts, OperandLive
  <2>2. Len(alloc.availRegs.items) >= 1
    BY CodingFacts
  <2> HIDE DEF a
  <2>3. x \in EnsureImmediate(alloc, idx, a)
    BY DEF a
  <2> QED BY <1>1, <2>1, <2>2, <2>3, CodingFacts, OperandEnsured
<1>3. Sane(x) /\ x.use = alloc.use /\ Len(x.availRegs.items) \in Nat
  BY <1>2, SaneFacts DEF Calm
<1>4. Len(x.availRegs.items) >= 2
  BY <1>2, <1>3, CodingFacts
<1>5. /\ Calm(x, y) /\ Right(block, y, env, idx) /\ (b \in Values => InReg(y, b))
      /\ Len(y.availRegs.items) >= Len(x.availRegs.items) - 1
      /\ \A w \in Values : InReg(x, w) => y.live[w] = x.live[w]
  <2>1. b \in Temps => IsLive(x, b)
    BY <1>2, <1>3, OperandLive
  <2>2. Len(x.availRegs.items) >= 1
    BY <1>3, <1>4
  <2> HIDE DEF b
  <2>3. y \in EnsureImmediate(x, idx, b)
    BY DEF b
  <2> QED BY <1>1, <1>2, <1>3, <2>1, <2>2, <2>3, CodingFacts, OperandEnsured
<1>6. Calm(alloc, y) /\ Sane(y) /\ Len(y.availRegs.items) \in Nat
  BY <1>2, <1>5, CalmTwice, SaneFacts DEF Calm
<1>7. Len(y.availRegs.items) >= 1
  BY <1>3, <1>4, <1>5, <1>6
<1>8. a \in Values => x.live[a] = y.live[a] /\ InReg(y, a)
  BY <1>2, <1>5 DEF InReg
<1> QED BY <1>5, <1>6, <1>7, <1>8

\* An operand is released: nothing is written, no destination is freed.
LEMMA ReleaseOne ==
  ASSUME Coding, NEW s, Sane(s), NEW o, Right(block, s, env, idx + 1)
  PROVE  LET t == FreeIfUnneeded(s, idx, Ins, o)
         IN /\ Calm(s, t) /\ t.cell = s.cell /\ Right(block, t, env, idx + 1)
            /\ Len(t.availRegs.items) >= Len(s.availRegs.items)
            /\ \A k \in DOMAIN Ins.dest : t.live[Ins.dest[k]] = s.live[Ins.dest[k]]
<1> DEFINE t == FreeIfUnneeded(s, idx, Ins, o)
<1>1. /\ Calm(s, t) /\ t.cell = s.cell /\ Keeps(s, t, o)
      /\ Len(t.availRegs.items) >= Len(s.availRegs.items)
      /\ t = s \/ ~ \E k \in DOMAIN Ins.dest : Ins.dest[k] = o
  BY CodingFacts, ReleaseFacts
<1>2. Right(block, t, env, idx + 1)
  <2>1. PICK n \in Nat : n = idx + 1
    BY CodingFacts
  <2>2. Right(block, s, env, n)
    BY <2>1
  <2>3. Right(block, t, env, n)
    BY <2>1, <2>2, CodingFacts, ReleaseRight
  <2> QED BY <2>1, <2>3
<1> HIDE DEF t
<1>3. \A k \in DOMAIN Ins.dest : Ins.dest[k] \in Values
  BY CodingFacts, DestFacts
<1>4. \A k \in DOMAIN Ins.dest : t.live[Ins.dest[k]] = s.live[Ins.dest[k]]
  BY <1>1, <1>3 DEF Keeps
<1> QED BY <1>1, <1>2, <1>4 DEF t

LEMMA LaterRight ==
  ASSUME Coding, NEW s, Sane(s), Right(block, s, env, idx)
  PROVE  Right(block, s, env, idx + 1)
<1>1. PICK n \in Nat : n = idx + 1 /\ idx <= n
  BY CodingFacts
<1>2. Right(block, s, env, n)
  BY <1>1, CodingFacts, RightLater
<1> QED BY <1>1, <1>2

\* The destination gets a register.
LEMMA DestEnsured ==
  ASSUME Coding, 1 \in DOMAIN Ins.dest, NEW s, Calm(alloc, s), Right(block, s, env, idx + 1),
         Len(s.availRegs.items) >= 1, NEW z \in EnsureImmediate(s, idx, Ins.dest[1])
  PROVE  /\ Ins.dest[1] \in Values
         /\ Calm(s, z) /\ InReg(z, Ins.dest[1])
         /\ \A w \in Values : w # Ins.dest[1] => RightAt(block, z, env, idx + 1, w)
         /\ Ins.dest[1] \in Temps \/ InReg(s, Ins.dest[1]) => z.cell = s.cell
         /\ Keeps(s, z, Ins.dest[1])
<1> DEFINE c == Ins.dest[1]
<1>1. c \in Values /\ (c \in Temps => env[c] = Junk)
  BY CodingFacts, DestFacts
<1>2. Sane(s) /\ HasItems(s.availRegs) /\ DOMAIN block.code \subseteq Nat
  BY ItemsLeft, CodingFacts, CodeNumbered DEF Calm
<1>3. c \in Temps => ~IsLive(s, c)
  BY <1>1 DEF Right, RightAt
<1>4. z \in EnsureImmediate(s, idx, c)
  OBVIOUS
<1> HIDE DEF c
<1>5. /\ Calm(s, z) /\ InReg(z, c) /\ Keeps(s, z, c)
      /\ InReg(s, c) => z = s
      /\ c \in Temps /\ ~IsLive(s, c) => z.cell = s.cell
  BY <1>1, <1>2, <1>4, EnsureFacts
<1>6. PICK n \in Nat : n = idx + 1 /\ n <= n
  BY CodingFacts
<1>7. ASSUME NEW w \in Values, w # c PROVE RightAt(block, z, env, n, w)
  <2>1. RightAt(block, s, env, n, w) /\ z.use = s.use /\ s.use[w] \in Nat
    BY <1>2, <1>5, <1>6, SaneFacts DEF Right, Calm
  <2> QED BY <1>2, <1>5, <1>6, <1>7, <2>1, RightKept
<1> QED BY <1>1, <1>3, <1>5, <1>6, <1>7 DEF c

\* The instruction leaves its result in the destination's register.
LEMMA ComputedFollows ==
  ASSUME Coding, DOMAIN Ins.dest = {1}, NEW z, Calm(alloc, z),
         InReg(z, Ins.dest[1]),
         \A w \in Values : w # Ins.dest[1] => RightAt(block, z, env, idx + 1, w),
         NEW from, Reads(z, from),
         Advance(Emit(Mark(z, Ins.dest[1]), from, Immediate(z, Ins.dest[1])),
                 TRUE, <<Result(idx, 0)>>)
  PROVE  Follows' /\ HomesStep
<1> DEFINE c  == Ins.dest[1]
           q  == Mark(z, c)
           to == Reg(z.live[c].num)
           t  == Emit(q, from, to)
           x  == Result(idx, 0)
           value == <<x>>
<1>0. Sane(z) /\ z.use = alloc.use
  BY DEF Calm
<1>1. c \in Values /\ Immediate(z, c) = to
  BY CodingFacts, DestFacts DEF Immediate
<1>2. Sane(q) /\ q.use = z.use /\ q.cell = z.cell
  BY <1>0, <1>1, MarkFacts DEF InReg, IsLive
<1>3. Reads(q, from)
  BY <1>2 DEF Reads, Read
<1>4. to \in Cells
  BY <1>0, <1>1, HolderFacts, CellFacts
<1>5. Sane(t) /\ t.use = q.use /\ Wrote(q, t, to, x)
  <2> HIDE DEF q, to
  <2> QED BY <1>2, <1>3, <1>4, CodingFacts, EmitFacts
<1>6. x # Junk
  BY DEF Result, Junk
<1>7. value[1] = x /\ \A k \in DOMAIN Ins.dest : value[k] # Junk
  BY <1>6
<1>8. Advance(t, TRUE, value)
  BY <1>1
<1> HIDE DEF t, x, value
<1>9. PICK n \in Nat : n = idx + 1
  BY CodingFacts
<1>10. Defined(value)[c] = x /\ \A w \in Values : w # c => Defined(value)[w] = env[w]
  BY <1>1, <1>7, DefinedFacts
<1>11. WrittenIn(block, n, c)
  BY <1>9, CodingFacts, WrittenNext
<1>12. \A w \in Values : w # c => RightAt(block, z, env, n, w)
  BY <1>9
<1>13. Right(block, t, Defined(value), n)
  <2>1. PICK f : f = Defined(value)
    OBVIOUS
  <2>2. f[c] = x /\ \A w \in Values : w # c => f[w] = env[w] /\ RightAt(block, z, env, n, w)
    BY <1>10, <1>12, <2>1
  <2>3. Wrote(Mark(z, c), t, to, x) /\ to = Reg(z.live[c].num) /\ InReg(z, c) /\ t.use = z.use
    BY <1>2, <1>5
  <2> HIDE DEF c, q, to
  <2>4. Right(block, t, f, n)
    BY <1>0, <1>1, <1>6, <1>11, <2>2, <2>3, CodingFacts, DestRight
  <2> QED BY <2>1, <2>4
<1>14. Follows'
  BY <1>0, <1>2, <1>5, <1>7, <1>8, <1>9, <1>13, CodingFacts, AdvanceFollows
<1>15. alloc' = t
  BY <1>5, <1>8 DEF Advance, Become, Sane, Fine
<1>16. \A v \in Locals : t.cell[Home(v)] = alloc.cell[Home(v)]
  <2>1. to.class = "reg"
    BY CellNames
  <2>2. \A k \in Cells : k.class # "reg" => t.cell[k] = q.cell[k]
    BY <1>2, <1>4, <1>5, <2>1, SaneFacts DEF Wrote
  <2> QED BY <1>2, <2>2, LocalHomes DEF Calm
<1> QED BY <1>14, <1>15, <1>16, HomesAlone DEF HomesStep

\* The destination is new, or is a variable, or an operand written back.
LEMMA DestOrOperand ==
  ASSUME Coding, Ins.t \in {"bin", "un", "loadptr"}
  PROVE  Ins.dest[1] \in Temps \/ \E k \in DOMAIN Ins.ops : Ins.dest[1] = Ins.ops[k]
<1>1. WellFormed(block) /\ idx \in 0 .. End /\ idx < End
  BY CodingFacts
<1>2. DOMAIN block.code = 1 .. Len(block.code) /\ Len(block.code) \in Nat
  BY <1>1, CodeNumbered
<1>3. idx + 1 \in DOMAIN block.code /\ Ins = block.code[idx + 1]
  BY <1>1, <1>2 DEF End, Ins
<1> QED BY <1>3, CodingFacts DEF Handled, Linearized

LEMMA OpsDomain ==
  ASSUME Coding
  PROVE  /\ Ins.t \in {"bin", "storeptr"} => DOMAIN Ins.ops = {1, 2}
         /\ Ins.t \in {"un", "loadptr", "copy"} => DOMAIN Ins.ops = {1}
         /\ Ins.t \in {"bin", "un", "loadptr", "copy"} => DOMAIN Ins.dest = {1}
         /\ Ins.t = "storeptr" => DOMAIN Ins.dest = {}
<1>1. WellFormed(block) /\ idx \in 0 .. End /\ idx < End
  BY CodingFacts
<1>2. DOMAIN Ins.ops = 1 .. Len(Ins.ops)
  BY <1>1, InsFacts, LenProperties DEF Instrs
<1>3. /\ Ins.t \in {"bin", "storeptr"} => Len(Ins.ops) = 2
      /\ Ins.t \in {"un", "loadptr", "copy"} => Len(Ins.ops) = 1
      /\ Ins.t \in {"bin", "un", "loadptr", "copy"} => DOMAIN Ins.dest = {1}
      /\ Ins.t = "storeptr" => DOMAIN Ins.dest = {}
  BY <1>1, InsFacts
<1>4. 1 .. 2 = {1, 2} /\ 1 .. 1 = {1}
  OBVIOUS
<1>5. PICK n : n = Len(Ins.ops)
  OBVIOUS
<1>6. (n = 2 => DOMAIN Ins.ops = {1, 2}) /\ (n = 1 => DOMAIN Ins.ops = {1})
  BY <1>2, <1>4, <1>5
<1> QED BY <1>3, <1>5, <1>6

\* allocBinary.
LEMMA BinaryFollows ==
  ASSUME Coding, AllocBinary
  PROVE  Follows' /\ HomesStep
<1> DEFINE a == Ins.ops[1]
           b == Ins.ops[2]
           c == Ins.dest[1]
<1>1. PICK x \in EnsureImmediate(alloc, idx, a) :
      \E y \in EnsureImmediate(x, idx, b) :
        LET from == <<Immediate(x, a), Immediate(y, b)>>
            f    == FreeIfUnneeded(FreeIfUnneeded(y, idx, Ins, a), idx, Ins, b)
        IN \E z \in EnsureImmediate(f, idx, c) :
             Advance(Emit(Mark(z, c), from, Immediate(z, c)),
                     Reads(z, from), <<Result(idx, 0)>>)
  BY DEF AllocBinary
<1>2. PICK y \in EnsureImmediate(x, idx, b) :
        LET from == <<Immediate(x, a), Immediate(y, b)>>
            f    == FreeIfUnneeded(FreeIfUnneeded(y, idx, Ins, a), idx, Ins, b)
        IN \E z \in EnsureImmediate(f, idx, c) :
             Advance(Emit(Mark(z, c), from, Immediate(z, c)),
                     Reads(z, from), <<Result(idx, 0)>>)
  BY <1>1
<1> DEFINE from == <<Immediate(x, a), Immediate(y, b)>>
           g    == FreeIfUnneeded(y, idx, Ins, a)
           f    == FreeIfUnneeded(g, idx, Ins, b)
<1>3. PICK z \in EnsureImmediate(f, idx, c) :
             Advance(Emit(Mark(z, c), from, Immediate(z, c)),
                     Reads(z, from), <<Result(idx, 0)>>)
  BY <1>2
<1>4. DOMAIN Ins.ops = {1, 2} /\ DOMAIN Ins.dest = {1} /\ Ins.t = "bin"
  BY OpsDomain DEF AllocBinary, At
<1>5. /\ Calm(alloc, y) /\ Right(block, y, env, idx)
      /\ \A k \in {1, 2} : Ins.ops[k] \in Values => InReg(y, Ins.ops[k])
      /\ a \in Values => x.live[a] = y.live[a]
      /\ Len(y.availRegs.items) \in Nat /\ Len(y.availRegs.items) >= 1
  BY <1>4, TwoOperands
<1>6. Sane(y) /\ y.use = alloc.use
  BY <1>5 DEF Calm
<1>7. /\ Calm(y, g) /\ g.cell = y.cell /\ Right(block, g, env, idx + 1)
      /\ Len(g.availRegs.items) >= Len(y.availRegs.items)
      /\ g.live[c] = y.live[c]
  BY <1>4, <1>5, <1>6, LaterRight, ReleaseOne
<1>8. Sane(g) /\ Len(g.availRegs.items) \in Nat
  BY <1>7, SaneFacts DEF Calm
<1> HIDE DEF g
<1>9. /\ Calm(g, f) /\ f.cell = g.cell /\ Right(block, f, env, idx + 1)
      /\ Len(f.availRegs.items) >= Len(g.availRegs.items)
      /\ f.live[c] = g.live[c]
  BY <1>4, <1>7, <1>8, ReleaseOne
<1>10. Calm(alloc, f) /\ Sane(f) /\ Len(f.availRegs.items) \in Nat
  BY <1>5, <1>7, <1>9, CalmTwice, SaneFacts DEF Calm
<1> HIDE DEF f, from
<1>11. Len(f.availRegs.items) >= 1
  BY <1>5, <1>7, <1>8, <1>9, <1>10
<1>12. c \in Temps \/ InReg(f, c)
  <2>1. c \in Temps \/ c = a \/ c = b
    BY <1>4, DestOrOperand
  <2>2. c \in Values
    BY <1>4, CodingFacts, DestFacts
  <2> QED BY <1>5, <1>7, <1>9, <2>1, <2>2 DEF InReg
<1>13. /\ Calm(f, z) /\ InReg(z, c) /\ z.cell = f.cell
       /\ \A w \in Values : w # c => RightAt(block, z, env, idx + 1, w)
  BY <1>3, <1>4, <1>9, <1>10, <1>11, <1>12, DestEnsured
<1>14. Read(z, Immediate(x, a)) = Meaning(a) /\ Read(z, Immediate(y, b)) = Meaning(b)
  <2>1. z.cell = y.cell
    BY <1>7, <1>9, <1>13
  <2> QED BY <2>1, <1>4, <1>5, <1>6, ReadAfter
<1>15. Reads(z, from)
  <2>1. \A k \in {1, 2} : Read(z, from[k]) = Meaning(Ins.ops[k])
    BY <1>14 DEF from
  <2> QED BY <2>1 DEF Reads, from
<1>16. Calm(alloc, z)
  BY <1>10, <1>13, CalmTwice
<1>17. Advance(Emit(Mark(z, c), from, Immediate(z, c)), TRUE, <<Result(idx, 0)>>)
  BY <1>3, <1>15 DEF Advance, Noted
<1> QED BY <1>4, <1>13, <1>15, <1>16, <1>17, ComputedFollows

\* allocUnary and allocLoadPtr.
LEMMA UnaryFollows ==
  ASSUME Coding, AllocUnary
  PROVE  Follows' /\ HomesStep
<1> DEFINE a == Ins.ops[1]
           c == Ins.dest[1]
<1>1. PICK x \in EnsureImmediate(alloc, idx, a) :
        LET from == <<Immediate(x, a)>>
            f    == FreeIfUnneeded(x, idx, Ins, a)
        IN \E z \in EnsureImmediate(f, idx, c) :
             Advance(Emit(Mark(z, c), from, Immediate(z, c)),
                     Reads(z, from), <<Result(idx, 0)>>)
  BY DEF AllocUnary
<1> DEFINE from == <<Immediate(x, a)>>
           f    == FreeIfUnneeded(x, idx, Ins, a)
<1>3. PICK z \in EnsureImmediate(f, idx, c) :
             Advance(Emit(Mark(z, c), from, Immediate(z, c)),
                     Reads(z, from), <<Result(idx, 0)>>)
  BY <1>1
<1>4. DOMAIN Ins.ops = {1} /\ DOMAIN Ins.dest = {1} /\ Ins.t \in {"un", "loadptr"}
  BY OpsDomain DEF AllocUnary, At
<1>5. /\ Calm(alloc, x) /\ Right(block, x, env, idx)
      /\ a \in Values => InReg(x, a)
      /\ Len(x.availRegs.items) >= Len(alloc.availRegs.items) - 1
  <2>1. a \in Operands /\ (a \in Temps => IsLive(alloc, a))
    BY <1>4, CodingFacts, OperandFacts, OperandLive
  <2>2. Len(alloc.availRegs.items) >= 1
    BY CodingFacts
  <2> QED BY <2>1, <2>2, CodingFacts, OperandEnsured
<1>6. Sane(x) /\ x.use = alloc.use /\ Len(x.availRegs.items) \in Nat
  BY <1>5, SaneFacts DEF Calm
<1>7. Len(x.availRegs.items) >= 1
  BY <1>5, <1>6, CodingFacts
<1>9. /\ Calm(x, f) /\ f.cell = x.cell /\ Right(block, f, env, idx + 1)
      /\ Len(f.availRegs.items) >= Len(x.availRegs.items)
      /\ f.live[c] = x.live[c]
  BY <1>4, <1>5, <1>6, LaterRight, ReleaseOne
<1> HIDE DEF f, from
<1>10. Calm(alloc, f) /\ Sane(f) /\ Len(f.availRegs.items) \in Nat
  BY <1>5, <1>9, CalmTwice, SaneFacts DEF Calm
<1>11. Len(f.availRegs.items) >= 1
  BY <1>6, <1>7, <1>9, <1>10
<1>12. c \in Temps \/ InReg(f, c)
  <2>1. c \in Temps \/ c = a
    BY <1>4, DestOrOperand
  <2>2. c \in Values
    BY <1>4, CodingFacts, DestFacts
  <2> QED BY <1>5, <1>9, <2>1, <2>2 DEF InReg
<1>13. /\ Calm(f, z) /\ InReg(z, c) /\ z.cell = f.cell
       /\ \A w \in Values : w # c => RightAt(block, z, env, idx + 1, w)
  BY <1>3, <1>4, <1>9, <1>10, <1>11, <1>12, DestEnsured
<1>14. Read(z, Immediate(x, a)) = Meaning(a)
  <2>1. z.cell = x.cell
    BY <1>9, <1>13
  <2> QED BY <2>1, <1>4, <1>5, <1>6, ReadAfter
<1>15. Reads(z, from)
  BY <1>14 DEF Reads, from
<1>16. Calm(alloc, z)
  BY <1>10, <1>13, CalmTwice
<1>17. Advance(Emit(Mark(z, c), from, Immediate(z, c)), TRUE, <<Result(idx, 0)>>)
  BY <1>3, <1>15 DEF Advance, Noted
<1> QED BY <1>4, <1>13, <1>15, <1>16, <1>17, ComputedFollows

\* allocStorePtr.
LEMMA StorePtrFollows ==
  ASSUME Coding, AllocStorePtr
  PROVE  Follows' /\ HomesStep
<1> DEFINE a == Ins.ops[1]
           b == Ins.ops[2]
<1>1. PICK x \in EnsureImmediate(alloc, idx, a) :
      \E y \in EnsureImmediate(x, idx, b) :
        LET from == <<Immediate(x, a), Immediate(y, b)>>
        IN Advance(FreeIfUnneeded(FreeIfUnneeded(y, idx, Ins, a), idx, Ins, b),
                   Reads(y, from), <<>>)
  BY DEF AllocStorePtr
<1>2. PICK y \in EnsureImmediate(x, idx, b) :
        LET from == <<Immediate(x, a), Immediate(y, b)>>
        IN Advance(FreeIfUnneeded(FreeIfUnneeded(y, idx, Ins, a), idx, Ins, b),
                   Reads(y, from), <<>>)
  BY <1>1
<1> DEFINE from  == <<Immediate(x, a), Immediate(y, b)>>
           g     == FreeIfUnneeded(y, idx, Ins, a)
           f     == FreeIfUnneeded(g, idx, Ins, b)
           value == <<>>
<1>4. DOMAIN Ins.ops = {1, 2} /\ DOMAIN Ins.dest = {}
  BY OpsDomain DEF AllocStorePtr, At
<1>5. /\ Calm(alloc, y) /\ Right(block, y, env, idx)
      /\ \A k \in {1, 2} : Ins.ops[k] \in Values => InReg(y, Ins.ops[k])
      /\ a \in Values => x.live[a] = y.live[a]
  BY <1>4, TwoOperands
<1>6. Sane(y) /\ y.use = alloc.use
  BY <1>5 DEF Calm
<1>7. Calm(y, g) /\ Right(block, g, env, idx + 1)
  BY <1>5, <1>6, LaterRight, ReleaseOne
<1> HIDE DEF g
<1>8. Sane(g) /\ g.use = alloc.use
  BY <1>6, <1>7 DEF Calm
<1>9. Calm(g, f) /\ Right(block, f, env, idx + 1)
  BY <1>7, <1>8, ReleaseOne
<1>10. Sane(f) /\ f.use = alloc.use
  BY <1>8, <1>9 DEF Calm
<1>14. Read(y, Immediate(x, a)) = Meaning(a) /\ Read(y, Immediate(y, b)) = Meaning(b)
  BY <1>4, <1>5, <1>6, ReadAfter
<1> HIDE DEF from
<1>15. Reads(y, from)
  <2>1. \A k \in {1, 2} : Read(y, from[k]) = Meaning(Ins.ops[k])
    BY <1>14 DEF from
  <2> QED BY <2>1 DEF Reads, from
<1>16. Advance(f, TRUE, value)
  <2>1. Advance(f, Reads(y, from), value)
    BY <1>2 DEF g, from
  <2> HIDE DEF f, value
  <2> QED BY <2>1, <1>15 DEF Advance, Noted
<1>17. Right(block, f, Defined(value), idx + 1)
  <2>1. \A v \in Values : Defined(value)[v] = env[v]
    BY <1>4, DefinedFacts
  <2>2. PICK e : e = Defined(value)
    OBVIOUS
  <2> HIDE DEF f, value
  <2>3. Right(block, f, e, idx + 1)
    BY <1>9, <2>1, <2>2 DEF Right, RightAt, VarRight, HomeRight, TempRight
  <2> QED BY <2>2, <2>3
<1> HIDE DEF f, value
<1>18. Follows'
  BY <1>4, <1>10, <1>16, <1>17, CodingFacts, AdvanceFollows
<1>19. alloc' = f
  BY <1>10, <1>16 DEF Advance, Become, Sane, Fine
<1>20. Calm(alloc, f)
  BY <1>5, <1>7, <1>9, CalmTwice
<1> QED BY <1>18, <1>19, <1>20, CalmHomes, HomesAlone DEF HomesStep

-----------------------------------------------------------------------------
\* allocCopy.

\* A variable that is in no register receives a value at home.
LEMMA HomeWrite ==
  ASSUME NEW b, WellFormed(b), NEW q, Sane(q), NEW c \in Homed, ~IsLive(q, c),
         NEW to, to = Home(c), NEW x, NEW t, Wrote(q, t, to, x), t.use = q.use,
         NEW e, NEW f, NEW n \in Nat, f[c] = x, WrittenIn(b, n, c),
         \A w \in Values : w # c => f[w] = e[w] /\ RightAt(b, q, e, n, w)
  PROVE  Right(b, t, f, n) /\ t.cell[to] = x
<1>1. c \in Values /\ c \notin Temps /\ to \in Cells /\ to.class \in {"caller", "local"}
  BY Classes
<1>2. ASSUME NEW w \in Values, w # c
      PROVE  /\ IsLive(q, w) \/ w \in Homed => HolderIn(q, w) # to
             /\ w \in Homed => Home(w) # to
  <2>1. w \in Homed => Home(w) # to
    BY <1>2, Classes
  <2>2. q.live[w].place \in {"reg", "spill", "callee"} =>
            HolderIn(q, w).class \in {"reg", "spill", "callee"}
    BY HolderFacts, CellNames DEF InReg
  <2>3. ~IsLive(q, w) /\ w \in Homed => HolderIn(q, w) # to
    BY <2>1, HolderFacts
  <2>4. q.live[w].place \in {"dead", "reg", "spill", "callee"}
    BY HolderFacts
  <2> QED BY <1>1, <2>1, <2>2, <2>3, <2>4 DEF IsLive
<1>3. Keeps(q, t, c)
  BY <1>1, <1>2, StoreKeeps
<1>4. DOMAIN b.code \subseteq Nat /\ q.use \in [Values -> Nat] /\ q.cell \in [Cells -> Tokens]
  BY CodeNumbered, SaneFacts
<1>5. ASSUME NEW w \in Values, w # c PROVE RightAt(b, t, f, n, w)
  <2>1. f[w] = e[w] /\ RightAt(b, q, e, n, w) /\ n <= n /\ q.use[w] \in Nat
    BY <1>4, <1>5
  <2> QED BY <1>3, <1>4, <1>5, <2>1, RightKept
<1>6. t.cell[to] = x
  BY <1>1, <1>4 DEF Wrote
<1>7. VarRight(t, f, c)
  <2>1. t.live[c] = q.live[c] /\ ~IsLive(t, c) /\ HolderIn(t, c) = to
    BY DEF Wrote, IsLive, HolderIn
  <2> QED BY <1>6, <2>1 DEF VarRight, HomeRight, IsLive
<1>8. RightAt(b, t, f, n, c)
  BY <1>1, <1>7 DEF RightAt
<1> QED BY <1>1, <1>5, <1>6, <1>8 DEF Right

\* The PIR copies its operand, which is defined.
LEMMA CopyFacts ==
  ASSUME Coding, Ins.t = "copy"
  PROVE  /\ DOMAIN Ins.ops = {1} /\ DOMAIN Ins.dest = {1} /\ Ins.dest[1] \in Values
         /\ Ins.ops[1] \in Operands /\ Meaning(Ins.ops[1]) # Junk
         /\ Ins.ops[1] \in Temps => IsLive(alloc, Ins.ops[1]) /\ Ins.ops[1] # Ins.dest[1]
         /\ Ins.dest[1] \in Temps => ~IsLive(alloc, Ins.dest[1])
         /\ \A v \in Homed : InReg(alloc, v) \/ ~IsLive(alloc, v)
         /\ WrittenIn(block, idx + 1, Ins.dest[1])
<1> DEFINE a == Ins.ops[1]
           c == Ins.dest[1]
<1>1. DOMAIN Ins.ops = {1} /\ DOMAIN Ins.dest = {1}
  BY OpsDomain
<1>2. /\ c \in Values /\ a \in Operands
      /\ c \in Temps => env[c] = Junk
      /\ a \in Temps => env[a] # Junk /\ a # c
  BY <1>1, CodingFacts, DestFacts, OperandFacts
<1>3. a \in Temps => IsLive(alloc, a)
  BY <1>1, CodingFacts, OperandLive
<1>4. c \in Temps => ~IsLive(alloc, c)
  BY <1>2, CodingFacts DEF Right, RightAt
<1>5. \A v \in Homed : InReg(alloc, v) \/ ~IsLive(alloc, v)
  BY CodingFacts, Classes DEF Right, RightAt, VarRight, InReg, IsLive
<1>6. WrittenIn(block, idx + 1, c)
  BY <1>1, CodingFacts, WrittenNext
<1>7. Meaning(a) # Junk
  <2>1. CASE a \in Values
    BY <1>2, <2>1, CodingFacts DEF Meaning, Common, EnvDefined
  <2>2. CASE a \notin Values
    <3>1. a \in [class : {"lit", "global"}, id : Nat]
      BY <1>2, <2>2 DEF Operands
    <3>2. "class" \in DOMAIN a /\ "class" \notin DOMAIN Junk
      BY <3>1 DEF Junk
    <3> QED BY <2>2, <3>2 DEF Meaning
  <2> QED BY <2>1, <2>2
<1> QED BY <1>1, <1>2, <1>3, <1>4, <1>5, <1>6, <1>7

\* The copy is made: the rest of allocCopy.
LEMMA CopiedFollows ==
  ASSUME Coding, Ins.t = "copy", NEW t, Sane(t), t.use = alloc.use,
         NEW to, Read(t, to) = Meaning(Ins.ops[1]), Copied(t, to),
         NEW f, f = Defined(<<Meaning(Ins.ops[1])>>), Right(block, t, f, idx + 1),
         HomesTake(alloc, t, env, f)
  PROVE  Follows' /\ HomesStep
<1> DEFINE a == Ins.ops[1]
           c == Ins.dest[1]
           value == <<Meaning(a)>>
           g == FreeIfUnneeded(t, idx, Ins, a)
           h == FreeIfUnneeded(g, idx, Ins, c)
<1>1. PICK n \in Nat : n = idx + 1
  BY CodingFacts
<1>2. Right(block, t, f, n)
  BY <1>1
<1>3. Calm(t, g) /\ Right(block, g, f, n) /\ g.cell = t.cell
  BY <1>1, <1>2, CodingFacts, ReleaseFacts, ReleaseRight
<1>4. Sane(g) /\ g.use = alloc.use
  BY <1>3 DEF Calm
<1> HIDE DEF g
<1>5. Calm(g, h) /\ Right(block, h, f, n) /\ h.cell = g.cell
  BY <1>1, <1>3, <1>4, CodingFacts, ReleaseFacts, ReleaseRight
<1>6. Sane(h) /\ h.use = alloc.use
  BY <1>4, <1>5 DEF Calm
<1>7. Advance(h, TRUE, value)
  <2>1. Advance(h, Read(t, to) = Meaning(a), value)
    BY DEF Copied, g
  <2> HIDE DEF h, value
  <2> QED BY <2>1 DEF Advance, Noted
<1>8. \A k \in DOMAIN Ins.dest : value[k] # Junk
  BY CopyFacts
<1> HIDE DEF h, value
<1>9. Right(block, h, Defined(value), idx + 1)
  BY <1>1, <1>5 DEF value
<1>10. Follows'
  BY <1>6, <1>7, <1>8, <1>9, CodingFacts, AdvanceFollows
<1>11. alloc' = h /\ env' = f
  BY <1>6, <1>7 DEF Advance, Become, Sane, Fine, value
<1> QED BY <1>3, <1>5, <1>10, <1>11 DEF HomesStep, HomesTake

\* What a copy defines.
LEMMA CopyDefined ==
  ASSUME Coding, Ins.t = "copy", NEW f, f = Defined(<<Meaning(Ins.ops[1])>>)
  PROVE  /\ f[Ins.dest[1]] = Meaning(Ins.ops[1])
         /\ \A w \in Values : w # Ins.dest[1] => f[w] = env[w]
<1> DEFINE value == <<Meaning(Ins.ops[1])>>
<1>1. value[1] = Meaning(Ins.ops[1]) /\ f = Defined(value)
  OBVIOUS
<1>2. DOMAIN Ins.dest = {1} /\ Ins.dest[1] \in Values
  BY CopyFacts
<1> HIDE DEF value
<1> QED BY <1>1, <1>2, DefinedFacts

\* A copy into a register.
LEMMA CopyToReg ==
  ASSUME Coding, Ins.t = "copy", NEW z, Calm(alloc, z), InReg(z, Ins.dest[1]),
         \A w \in Values : w # Ins.dest[1] => RightAt(block, z, env, idx + 1, w),
         NEW from, Read(z, from) = Meaning(Ins.ops[1]),
         Copied(Store(Mark(z, Ins.dest[1]), from, Immediate(z, Ins.dest[1])),
                Immediate(z, Ins.dest[1]))
  PROVE  Follows' /\ HomesStep
<1> DEFINE c  == Ins.dest[1]
           q  == Mark(z, c)
           to == Reg(z.live[c].num)
           t  == Store(q, from, to)
<1>0. Sane(z) /\ z.use = alloc.use
  BY DEF Calm
<1>1. c \in Values /\ Immediate(z, c) = to /\ WrittenIn(block, idx + 1, c)
  BY CopyFacts DEF Immediate
<1>2. Sane(q) /\ q.use = z.use /\ q.cell = z.cell
  BY <1>0, <1>1, MarkFacts DEF InReg, IsLive
<1>3. PICK x : x = Meaning(Ins.ops[1])
  OBVIOUS
<1>4. Read(q, from) = x /\ x # Junk
  BY <1>2, <1>3, CopyFacts DEF Read
<1>5. x \in Tokens
  <2>1. env \in [Values -> Tokens]
    BY CodingFacts DEF Inv, TypeOK
  <2> QED BY <1>3, <2>1, CopyFacts DEF Meaning, Tokens
<1>6. to \in Cells
  BY <1>0, <1>1, HolderFacts, CellFacts
<1>7. Sane(t) /\ t.use = q.use /\ Wrote(q, t, to, x)
  <2> HIDE DEF q, to
  <2> QED BY <1>2, <1>4, <1>5, <1>6, StoreFacts
<1>8. Copied(t, to)
  BY <1>1
<1> HIDE DEF t
<1>9. PICK n \in Nat : n = idx + 1
  BY CodingFacts
<1>10. PICK f : f = Defined(<<Meaning(Ins.ops[1])>>)
  OBVIOUS
<1>11. f[c] = x /\ \A w \in Values : w # c => f[w] = env[w] /\ RightAt(block, z, env, n, w)
  BY <1>3, <1>9, <1>10, CopyDefined
<1>12. Right(block, t, f, n)
  <2>1. Wrote(Mark(z, c), t, to, x) /\ to = Reg(z.live[c].num) /\ InReg(z, c) /\ t.use = z.use
    BY <1>0, <1>2, <1>7
  <2>2. WrittenIn(block, n, c)
    BY <1>1, <1>9
  <2> HIDE DEF c, q, to
  <2> QED BY <1>0, <1>1, <1>4, <1>11, <2>1, <2>2, CodingFacts, DestRight
<1>13. Read(t, to) = Meaning(Ins.ops[1])
  <2>1. q.cell \in [Cells -> Tokens]
    BY <1>2, SaneFacts
  <2>2. t.cell[to] = x
    BY <1>6, <1>7, <2>1 DEF Wrote
  <2> QED BY <1>3, <1>6, <2>2, CellRead
<1> HIDE DEF to
<1>14. Right(block, t, f, idx + 1)
  BY <1>9, <1>12
<1>15. Sane(t) /\ t.use = alloc.use
  BY <1>0, <1>2, <1>7
<1>16. HomesTake(alloc, t, env, f)
  <2>1. to.class = "reg"
    BY CellNames DEF to
  <2>2. \A k \in Cells : k.class # "reg" => t.cell[k] = q.cell[k]
    BY <1>2, <1>6, <1>7, <2>1, SaneFacts DEF Wrote
  <2>3. \A v \in Locals : t.cell[Home(v)] = alloc.cell[Home(v)]
    BY <1>2, <2>2, LocalHomes DEF Calm
  <2> QED BY <2>3, HomesAlone
<1> QED BY <1>8, <1>10, <1>13, <1>14, <1>15, <1>16, CopiedFollows

\* A copy into a variable's home.
LEMMA CopyToHome ==
  ASSUME Coding, Ins.t = "copy", Ins.dest[1] \in Homed, NEW l, Calm(alloc, l),
         Right(block, l, env, idx), NEW from, Read(l, from) = Meaning(Ins.ops[1]),
         NEW to, to = Home(Ins.dest[1]),
         Copied(Store(CorruptOldVersion(l, Ins.dest[1]), from, to), to)
  PROVE  Follows' /\ HomesStep
<1> DEFINE c  == Ins.dest[1]
           q  == CorruptOldVersion(l, c)
           t  == Store(q, from, to)
<1>0. Sane(l) /\ l.use = alloc.use
  BY DEF Calm
<1>1. c \in Values /\ c \notin Temps /\ WrittenIn(block, idx + 1, c) /\ to \in Cells
  BY CopyFacts, Classes
<1>2. /\ Sane(q) /\ q.use = l.use /\ q.cell = l.cell /\ Keeps(l, q, c) /\ ~IsLive(q, c)
  <2>1. CASE InReg(l, c)
    <3>1. q = Free(l, c) /\ IsLive(l, c)
      BY <2>1 DEF CorruptOldVersion, InReg, IsLive
    <3> HIDE DEF q
    <3> QED BY <1>0, <1>1, <3>1, FreeFacts DEF Calm
  <2>2. CASE ~InReg(l, c)
    <3>1. ~IsLive(l, c)
      BY <1>1, <2>2 DEF Right, RightAt, VarRight, InReg, IsLive
    <3> QED BY <1>0, <2>2, <3>1, KeepsSelf DEF CorruptOldVersion
  <2> QED BY <2>1, <2>2
<1> HIDE DEF q
<1>3. PICK x : x = Meaning(Ins.ops[1])
  OBVIOUS
<1>4. Read(q, from) = x
  BY <1>2, <1>3 DEF Read
<1>5. x \in Tokens
  <2>1. env \in [Values -> Tokens]
    BY CodingFacts DEF Inv, TypeOK
  <2> QED BY <1>3, <2>1, CopyFacts DEF Meaning, Tokens
<1>7. Sane(t) /\ t.use = q.use /\ Wrote(q, t, to, x)
  BY <1>1, <1>2, <1>4, <1>5, StoreFacts
<1>8. Copied(t, to)
  BY DEF q
<1> HIDE DEF t
<1>9. PICK n \in Nat : n = idx + 1 /\ idx <= n
  BY CodingFacts
<1>10. PICK f : f = Defined(<<Meaning(Ins.ops[1])>>)
  OBVIOUS
<1>11. ASSUME NEW w \in Values, w # c PROVE RightAt(block, q, env, n, w)
  <2>1. RightAt(block, l, env, idx, w) /\ l.use[w] \in Nat /\ idx \in Nat /\ DOMAIN block.code \subseteq Nat
    BY <1>0, SaneFacts, CodingFacts, CodeNumbered DEF Right
  <2> QED BY <1>2, <1>9, <1>11, <2>1, RightKept
<1>12. f[c] = x /\ \A w \in Values : w # c => f[w] = env[w] /\ RightAt(block, q, env, n, w)
  BY <1>3, <1>10, <1>11, CopyDefined
<1>13. Right(block, t, f, n) /\ t.cell[to] = x
  <2>1. WrittenIn(block, n, c) /\ to = Home(c) /\ c \in Homed
    BY <1>1, <1>9
  <2>2. t.use = q.use /\ Wrote(q, t, to, x) /\ Sane(q) /\ ~IsLive(q, c) /\ WellFormed(block)
    BY <1>2, <1>7, CodingFacts
  <2> HIDE DEF c
  <2>3. Right(block, t, f, n)
    BY <1>12, <2>1, <2>2, HomeWrite
  <2>4. t.cell[to] = x
    BY <1>12, <2>1, <2>2, HomeWrite
  <2> QED BY <2>3, <2>4
<1>14. Read(t, to) = Meaning(Ins.ops[1]) /\ Right(block, t, f, idx + 1)
  BY <1>1, <1>3, <1>9, <1>13, CellRead
<1>15. Sane(t) /\ t.use = alloc.use
  BY <1>0, <1>2, <1>7
<1>16. HomesTake(alloc, t, env, f)
  <2> SUFFICES ASSUME NEW v \in Locals, t.cell[Home(v)] # alloc.cell[Home(v)]
               PROVE  t.cell[Home(v)] = f[v]
    BY DEF HomesTake
  <2>1. l.cell[Home(v)] = alloc.cell[Home(v)]
    BY CalmHomes
  <2>2. v \in Homed /\ Home(v) \in Cells
    BY LocalHomes
  <2>3. Home(v) # to => t.cell[Home(v)] = q.cell[Home(v)]
    BY <1>2, <1>7, <2>2, SaneFacts DEF Wrote
  <2>4. Home(v) = to
    BY <1>2, <2>1, <2>3
  <2>5. v = c
    BY <2>2, <2>4, Classes
  <2> QED BY <1>12, <1>13, <2>4, <2>5
<1> QED BY <1>8, <1>10, <1>14, <1>15, <1>16, CopiedFollows

\* Where the source of a copy is, when it is in memory.
LEMMA CopyFromMem ==
  ASSUME Coding, Ins.t = "copy", IsAddressable(alloc, Ins.ops[1])
  PROVE  /\ Ins.ops[1] \in Values /\ ~InReg(alloc, Ins.ops[1])
         /\ ToMirc(alloc, Ins.ops[1]) = HolderIn(alloc, Ins.ops[1])
         /\ HolderIn(alloc, Ins.ops[1]) \in Cells
         /\ alloc.cell[HolderIn(alloc, Ins.ops[1])] = Meaning(Ins.ops[1])
<1> DEFINE a == Ins.ops[1]
<1>1. a \in Values /\ ~InReg(alloc, a)
  BY DEF IsAddressable, InReg, IsLive
<1>2. a \in Temps => IsLive(alloc, a) /\ env[a] # Junk /\ alloc.use[a] >= idx
  <2>1. 1 \in DOMAIN Ins.ops /\ (a \in Temps => IsLive(alloc, a))
    BY CopyFacts
  <2> QED BY <1>1, <2>1, CodingFacts, OperandFacts
<1>3. a \in Homed => ~IsLive(alloc, a)
  BY <1>1, CopyFacts
<1>4. a \in Temps \/ a \in Homed
  BY <1>1, Classes
<1>5. HolderIn(alloc, a) \in Cells
  BY <1>1, <1>2, <1>4, CodingFacts, HolderFacts
<1>6. ToMirc(alloc, a) = HolderIn(alloc, a)
  BY <1>2, <1>3, <1>4, Classes DEF ToMirc, HolderIn, Homed
<1>7. alloc.cell[HolderIn(alloc, a)] = env[a]
  <2>1. RightAt(block, alloc, env, idx, a)
    BY <1>1, CodingFacts DEF Right
  <2> QED BY <1>2, <1>4, <2>1, Classes DEF RightAt, TempRight, VarRight
<1> QED BY <1>1, <1>5, <1>6, <1>7 DEF Meaning

\* allocCopy, case by case.
LEMMA CopyFollows ==
  ASSUME Coding, AllocCopy
  PROVE  Follows' /\ HomesStep
<1> DEFINE a == Ins.ops[1]
           c == Ins.dest[1]
           fromMem == IsAddressable(alloc, a)
           toMem   == IsAddressable(alloc, c)
<1>0. Ins.t = "copy"
  BY DEF AllocCopy, At
<1>1. /\ DOMAIN Ins.ops = {1} /\ DOMAIN Ins.dest = {1} /\ c \in Values /\ a \in Operands
      /\ a \in Temps => IsLive(alloc, a) /\ a # c
      /\ c \in Temps => ~IsLive(alloc, c)
      /\ \A v \in Homed : InReg(alloc, v) \/ ~IsLive(alloc, v)
  BY <1>0, CopyFacts
<1>2. /\ Sane(alloc) /\ Right(block, alloc, env, idx) /\ WellFormed(block) /\ idx \in Nat
      /\ Len(alloc.availRegs.items) >= 1 /\ Len(alloc.availRegs.items) \in Nat
      /\ HasItems(alloc.availRegs) /\ Right(block, alloc, env, idx + 1) /\ Calm(alloc, alloc)
  BY CodingFacts, ItemsLeft, LaterRight, CalmSelf
<1>3. toMem => c \in Homed /\ ~IsLive(alloc, c) /\ \A s : ToMirc(s, c) = Home(c)
  <2> SUFFICES ASSUME toMem PROVE c \in Homed /\ ~IsLive(alloc, c) /\ \A s : ToMirc(s, c) = Home(c)
    OBVIOUS
  <2>1. c \notin Temps
    BY <1>1 DEF IsAddressable
  <2>2. c \in Homed
    BY <1>1, <2>1, Classes
  <2>3. ~IsLive(alloc, c)
    BY <1>1, <2>2 DEF IsAddressable, IsLive
  <2> QED BY <2>1, <2>2, <2>3 DEF ToMirc, Homed
<1>4. ~toMem => c \in Temps \/ InReg(alloc, c)
  BY <1>1 DEF IsAddressable
<1>5. CASE /\ fromMem /\ toMem
           /\ \E x \in GrabReg(alloc, idx, a) :
                LET l == Load(x, ToMirc(alloc, a), a)
                    r == Immediate(x, a)
                    d == ToMirc(l, c)
                IN Copied(Store(CorruptOldVersion(l, c), r, d), d)
  <2>1. PICK x \in GrabReg(alloc, idx, a) :
          Copied(Store(CorruptOldVersion(Load(x, ToMirc(alloc, a), a), c), Immediate(x, a), Home(c)), Home(c))
    BY <1>3, <1>5
  <2> DEFINE h == HolderIn(alloc, a)
             l == Load(x, h, a)
             r == Immediate(x, a)
             to == Home(c)
  <2>2. /\ a \in Values /\ ~InReg(alloc, a) /\ ToMirc(alloc, a) = h /\ h \in Cells
        /\ alloc.cell[h] = Meaning(a)
    BY <1>0, <1>5, CopyFromMem
  <2>3. x = AllocReg(alloc, a)
    BY <1>2, <2>1 DEF GrabReg
  <2>4. Calm(alloc, x) /\ InReg(x, a) /\ ~x.live[a].mut /\ x.cell = alloc.cell /\ Keeps(alloc, x, a)
    BY <1>2, <2>2, <2>3, AllocRegFacts
  <2>5. Sane(x)
    BY <2>4 DEF Calm
  <2> HIDE DEF h
  <2>6. /\ Calm(x, l) /\ Keeps(x, l, a) /\ l.cell[HolderIn(l, a)] = x.cell[h]
        /\ Wrote(x, l, Reg(x.live[a].num), x.cell[h])
    BY <2>2, <2>4, <2>5, LoadFacts
  <2> HIDE DEF l
  <2>7. Calm(alloc, l) /\ Keeps(alloc, l, a)
    BY <2>4, <2>6, CalmTwice, KeepsTwice
  <2>8. l.live = x.live /\ InReg(l, a) /\ ~l.live[a].mut /\ Sane(l) /\ l.use = alloc.use
    BY <2>4, <2>6, <2>7 DEF Wrote, InReg, Calm
  <2>9. Right(block, l, env, idx)
    <3>1. l.cell[HolderIn(l, a)] = alloc.cell[HolderIn(alloc, a)]
      BY <2>4, <2>6 DEF h
    <3>2. a \in Temps => IsLive(alloc, a)
      BY <1>1
    <3> HIDE DEF a
    <3> QED BY <1>2, <2>2, <2>7, <2>8, <3>1, <3>2, BroughtRight
  <2>10. Read(l, r) = Meaning(a)
    <3>1. r = HolderIn(l, a) /\ r \in Cells
      BY <2>2, <2>8, HolderFacts, CellFacts DEF Immediate
    <3> QED BY <2>2, <2>4, <2>6, <3>1, CellRead
  <2>11. Copied(Store(CorruptOldVersion(l, c), r, to), to)
    BY <2>1, <2>2 DEF l
  <2> HIDE DEF r, to
  <2>12. to = Home(c) /\ c \in Homed
    BY <1>3, <1>5 DEF to
  <2> QED BY <1>0, <2>7, <2>9, <2>10, <2>11, <2>12, CopyToHome
<1>6. CASE /\ fromMem /\ ~toMem
           /\ \E x \in EnsureImmediate(alloc, idx, c) :
                LET r == Immediate(x, c)
                IN Copied(Store(Mark(x, c), ToMirc(alloc, a), r), r)
  <2>1. PICK x \in EnsureImmediate(alloc, idx, c) :
          Copied(Store(Mark(x, c), ToMirc(alloc, a), Immediate(x, c)), Immediate(x, c))
    BY <1>6
  <2>2. /\ a \in Values /\ ~InReg(alloc, a) /\ ToMirc(alloc, a) = HolderIn(alloc, a)
        /\ HolderIn(alloc, a) \in Cells
        /\ alloc.cell[HolderIn(alloc, a)] = Meaning(a)
    BY <1>0, <1>6, CopyFromMem
  <2>3. /\ Calm(alloc, x) /\ InReg(x, c)
        /\ \A w \in Values : w # c => RightAt(block, x, env, idx + 1, w)
        /\ Keeps(alloc, x, c)
        /\ c \in Temps \/ InReg(alloc, c) => x.cell = alloc.cell
    BY <1>1, <1>2, <2>1, DestEnsured
  <2>4. x.cell = alloc.cell
    BY <1>4, <1>6, <2>3
  <2>5. Read(x, ToMirc(alloc, a)) = Meaning(a)
    BY <2>2, <2>4, CellRead
  <2> QED BY <1>0, <2>1, <2>3, <2>5, CopyToReg
<1>7. CASE /\ ~fromMem /\ toMem
           /\ \E x \in EnsureImmediate(alloc, idx, a) :
                LET r == Immediate(x, a)
                    d == ToMirc(x, c)
                IN Copied(Store(CorruptOldVersion(x, c), r, d), d)
  <2>1. PICK x \in EnsureImmediate(alloc, idx, a) :
          Copied(Store(CorruptOldVersion(x, c), Immediate(x, a), Home(c)), Home(c))
    BY <1>3, <1>7
  <2>2. /\ Calm(alloc, x) /\ Right(block, x, env, idx) /\ (a \in Values => InReg(x, a))
    BY <1>1, <1>2, OperandEnsured
  <2>3. Sane(x) /\ x.use = alloc.use
    BY <2>2 DEF Calm
  <2>4. Read(x, Immediate(x, a)) = Meaning(a)
    BY <1>1, <2>2, <2>3, ReadAfter
  <2>5. PICK to : to = Home(c)
    OBVIOUS
  <2>6. Copied(Store(CorruptOldVersion(x, c), Immediate(x, a), to), to)
    BY <2>1, <2>5
  <2> QED BY <1>0, <1>3, <1>7, <2>2, <2>3, <2>4, <2>5, <2>6, CopyToHome
<1>8. CASE /\ ~fromMem /\ ~toMem
           /\ \E x \in EnsureImmediate(alloc, idx, a) :
              \E y \in EnsureImmediate(x, idx, c) :
                LET r == Immediate(y, c)
                IN Copied(Store(Mark(y, c), Immediate(x, a), r), r)
  <2>1. PICK x \in EnsureImmediate(alloc, idx, a) :
          \E y \in EnsureImmediate(x, idx, c) :
            Copied(Store(Mark(y, c), Immediate(x, a), Immediate(y, c)), Immediate(y, c))
    BY <1>8
  <2>2. PICK y \in EnsureImmediate(x, idx, c) :
          Copied(Store(Mark(y, c), Immediate(x, a), Immediate(y, c)), Immediate(y, c))
    BY <2>1
  <2>3. /\ Calm(alloc, x) /\ Right(block, x, env, idx) /\ (a \in Values => InReg(x, a))
        /\ Len(x.availRegs.items) >= Len(alloc.availRegs.items) - 1
        /\ \A w \in Values : InReg(alloc, w) => x.live[w] = alloc.live[w]
    BY <1>1, <1>2, OperandEnsured
  <2>4. Sane(x) /\ x.use = alloc.use /\ Len(x.availRegs.items) \in Nat
    BY <2>3, SaneFacts DEF Calm
  <2>5. Len(x.availRegs.items) >= 1 /\ Right(block, x, env, idx + 1)
    <3>1. Len(alloc.availRegs.items) >= 3
      BY CodingFacts
    <3>2. Len(x.availRegs.items) >= 1
      BY <1>2, <2>3, <2>4, <3>1
    <3> QED BY <2>3, <2>4, <3>2, LaterRight
  <2>6. /\ Calm(x, y) /\ InReg(y, c)
        /\ \A w \in Values : w # c => RightAt(block, y, env, idx + 1, w)
        /\ c \in Temps \/ InReg(x, c) => y.cell = x.cell
    BY <1>1, <2>2, <2>3, <2>5, DestEnsured
  <2>7. y.cell = x.cell
    BY <1>1, <1>4, <1>8, <2>3, <2>6 DEF InReg
  <2>8. Read(y, Immediate(x, a)) = Meaning(a)
    BY <1>1, <2>3, <2>4, <2>7, ReadAfter
  <2>9. Calm(alloc, y)
    BY <2>3, <2>6, CalmTwice
  <2> QED BY <1>0, <2>2, <2>6, <2>8, <2>9, CopyToReg
<1> QED BY <1>5, <1>6, <1>7, <1>8 DEF AllocCopy

\* A temporary is moved.
LEMMA MovedRight ==
  ASSUME NEW b, WellFormed(b), NEW s, Sane(s), NEW t, t.use = s.use, NEW v \in Temps,
         Keeps(s, t, v), IsLive(s, v), IsLive(t, v), t.cell[HolderIn(t, v)] = s.cell[HolderIn(s, v)],
         NEW e, NEW n \in Nat, Right(b, s, e, n)
  PROVE  Right(b, t, e, n)
<1>1. DOMAIN b.code \subseteq Nat /\ s.use \in [Values -> Nat] /\ v \in Values
  BY CodeNumbered, SaneFacts, Classes
<1>2. ASSUME NEW w \in Values, w # v PROVE RightAt(b, t, e, n, w)
  <2>1. RightAt(b, s, e, n, w) /\ s.use[w] \in Nat /\ n <= n
    BY <1>1 DEF Right
  <2> QED BY <1>1, <1>2, <2>1, RightKept
<1>3. RightAt(b, t, e, n, v)
  BY <1>1 DEF Right, RightAt, TempRight
<1> QED BY <1>2, <1>3 DEF Right

\* Homes are in the frame of the procedure or its caller's.
LEMMA HomesKept ==
  ASSUME NEW s, NEW t, NEW e, HomesRight(s, e),
         \A c \in Cells : c.class \in {"caller", "local"} => t.cell[c] = s.cell[c]
  PROVE  HomesRight(t, e)
BY Classes DEF HomesRight, HomeRight

-----------------------------------------------------------------------------
\* allocCall, one loop after the other.

Going == Inv /\ Follows /\ Roomy /\ Handled(block)

\* What is known at every step of a call.
LEMMA GoingFacts ==
  ASSUME Going
  PROVE  /\ Inv /\ Common /\ Handled(block) /\ WellFormed(block) /\ phase # "panicked"
         /\ idx \in 0 .. End /\ idx \in Nat /\ idx + 1 \in Nat /\ idx <= idx + 1
         /\ Sane(alloc) /\ Len(alloc.availRegs.items) \in Nat
         /\ Len(alloc.availRegs.items) >= 3 /\ HasItems(alloc.availRegs)
         /\ HasItems(alloc.availSpills)
         /\ alloc.use = FindUses(block) /\ \A v \in Values : alloc.use[v] \in Nat
         /\ DOMAIN block.code \subseteq Nat
<1>1. Inv /\ Common /\ Handled(block) /\ Roomy
  BY DEF Going, Follows
<1>2. WellFormed(block) /\ idx \in 0 .. End /\ phase # "panicked" /\ alloc.use = FindUses(block)
  BY <1>1 DEF Inv, TypeOK, Common
<1>3. idx \in Nat
  BY <1>2
<1>4. idx + 1 \in Nat /\ idx <= idx + 1
  BY <1>3
<1>5. /\ Sane(alloc) /\ Len(alloc.availRegs.items) \in Nat /\ \A v \in Values : alloc.use[v] \in Nat
      /\ DOMAIN block.code \subseteq Nat
  BY <1>1, <1>2, AllocSane, SaneFacts, CodeNumbered
<1>6. Len(alloc.availRegs.items) >= 3 /\ HasItems(alloc.availSpills)
  BY <1>1 DEF Roomy
<1>7. HasItems(alloc.availRegs)
  <2>1. Len(alloc.availRegs.items) >= 1
    BY <1>5, <1>6
  <2> QED BY <1>5, <2>1, ItemsLeft
<1> QED BY <1>1, <1>2, <1>3, <1>4, <1>5, <1>6, <1>7

\* Nothing but the allocator's state and a loop's counters change.
LEMMA StayCommon ==
  ASSUME Going, phase # "release", phase' # "release", phase' # "panicked",
         block' = block, idx' = idx, env' = env, misread' = misread,
         NoneLate', Apart(alloc'), alloc'.use = alloc.use
  PROVE  Common'
<1>1. Common /\ Now = idx
  BY GoingFacts DEF Now
<1>2. (Now = idx)'
  BY DEF Now
<1>3. EnvDefined'
  BY <1>1, <1>2 DEF Common, EnvDefined
<1> QED BY <1>1, <1>3 DEF Common

\* The same inside a call.
LEMMA CallCommon ==
  ASSUME Going, phase \in InCall \cup {"code"}, phase # "release",
         NEW t, Sane(t), t.use = alloc.use, NEW next, next \notin {"panicked", "release"},
         Become(t, next), Keep
  PROVE  Common' /\ alloc' = t /\ phase' = next
<1>1. alloc' = t /\ phase' = next
  BY DEF Become, Sane, Fine
<1>2. late' = late /\ block' = block /\ idx' = idx /\ env' = env /\ misread' = misread
  BY DEF Keep
<1>3. NoneLate
  BY GoingFacts DEF Common
<1>4. late = <<>>
  BY <1>3 DEF NoneLate, InCall
<1>5. NoneLate'
  BY <1>2, <1>4 DEF NoneLate
<1> QED BY <1>1, <1>2, <1>5, StayCommon DEF Sane

\* The call begins: spillAllLiveRegisters has everything on its list.
LEMMA CallFollows ==
  ASSUME Going, AllocCall
  PROVE  Follows'
<1>1. /\ phase = "code" /\ idx < End /\ Ins.t = "call" /\ Keep
      /\ phase' = "spillregs" /\ alloc' = alloc
      /\ todo' = {v \in Values : /\ InReg(alloc, v)
                                 /\ IsNeeded(alloc, idx, v) \/ alloc.live[v].mut}
  BY DEF AllocCall, At
<1>2. Sane(alloc) /\ Right(block, alloc, env, idx)
  BY <1>1, GoingFacts DEF Going, Follows, InCode
<1>3. Become(alloc, "spillregs")
  BY <1>1, <1>2 DEF Become, Sane, Fine
<1>4. Common'
  BY <1>1, <1>2, <1>3, CallCommon
<1>5. ASSUME NEW v \in Homed, v \notin todo' PROVE HomeRight(alloc, env, v)
  <2>1. VarRight(alloc, env, v)
    BY <1>2, Classes DEF Right, RightAt
  <2>2. CASE InReg(alloc, v)
    <3>1. ~alloc.live[v].mut
      BY <1>1, <1>5, <2>2, Classes
    <3> QED BY <2>1, <3>1 DEF VarRight
  <2>3. CASE ~InReg(alloc, v)
    BY <2>1, <2>3 DEF VarRight, HolderIn, IsLive, InReg, HomeRight
  <2> QED BY <2>2, <2>3
<1>6. \A v \in Temps : alloc.use[v] > idx /\ InReg(alloc, v) => v \in todo'
  BY <1>1, Classes DEF IsNeeded
<1>7. InSpillRegs'
  BY <1>1, <1>2, <1>5, <1>6 DEF InSpillRegs, Keep, InReg, HomeRight
<1> QED BY <1>1, <1>4, <1>7
        DEF Follows, InCode, InSpillInter, InArgs, InClear, InRelease, InReturn, FlowCorrect

\* A variable in a register is written to its home.
LEMMA WriteBack ==
  ASSUME NEW b, WellFormed(b), NEW s, Sane(s), NEW v \in Homed, InReg(s, v), NEW e, NEW n \in Nat,
         Right(b, s, e, n),
         NEW t, t = Store(s, Reg(s.live[v].num), Home(v))
  PROVE  /\ Sane(t) /\ t.use = s.use /\ t.live = s.live /\ Right(b, t, e, n)
         /\ HomeRight(t, e, v)
         /\ \A w \in Homed : w # v => t.cell[Home(w)] = s.cell[Home(w)]
<1> DEFINE from == Reg(s.live[v].num)
           to == Home(v)
           x == s.cell[from]
<1>1. /\ v \in Values /\ v \notin Temps /\ to \in Cells /\ from \in Cells
      /\ to.class \in {"caller", "local"} /\ from.class = "reg" /\ HolderIn(s, v) = from
      /\ s.cell \in [Cells -> Tokens] /\ s.use \in [Values -> Nat]
  BY Classes, HolderFacts, CellFacts, CellNames, SaneFacts
<1>2. Read(s, from) = x /\ x \in Tokens
  BY <1>1, CellRead
<1>3. t = Store(s, from, to)
  OBVIOUS
<1> HIDE DEF from, to
<1>4. /\ Sane(t) /\ t.use = s.use /\ t.live = s.live /\ Wrote(s, t, to, x)
  BY <1>1, <1>2, <1>3, StoreFacts
<1> HIDE DEF x
<1>5. x = e[v]
  BY <1>1 DEF Right, RightAt, VarRight, x
<1>6. ASSUME NEW w \in Values, w # v
      PROVE  /\ IsLive(s, w) \/ w \in Homed => HolderIn(s, w) # to
             /\ w \in Homed => Home(w) # to
  <2>1. w \in Homed => Home(w) # to
    BY <1>6, Classes DEF to
  <2>2. s.live[w].place \in {"reg", "spill", "callee"} =>
            HolderIn(s, w).class \in {"reg", "spill", "callee"}
    BY HolderFacts, CellNames DEF InReg
  <2>3. ~IsLive(s, w) /\ w \in Homed => HolderIn(s, w) # to
    BY <2>1, HolderFacts
  <2>4. s.live[w].place \in {"dead", "reg", "spill", "callee"}
    BY HolderFacts
  <2> QED BY <1>1, <2>1, <2>2, <2>3, <2>4 DEF IsLive
<1>7. Keeps(s, t, v)
  BY <1>1, <1>4, <1>6, StoreKeeps
<1>8. t.cell[to] = x /\ t.cell[from] = x
  BY <1>1, <1>4 DEF Wrote, x
<1>9. VarRight(t, e, v)
  <2>1. HolderIn(t, v) = from
    BY <1>1, <1>4 DEF HolderIn, IsLive
  <2> QED BY <1>4, <1>5, <1>8, <2>1 DEF VarRight, HomeRight, to, InReg
<1>10. RightAt(b, t, e, n, v)
  BY <1>1, <1>4, <1>9 DEF Right, RightAt
<1>11. ASSUME NEW w \in Values, w # v PROVE RightAt(b, t, e, n, w)
  <2>1. /\ RightAt(b, s, e, n, w) /\ s.use[w] \in Nat /\ DOMAIN b.code \subseteq Nat
        /\ t.use = s.use
    BY <1>1, <1>4, CodeNumbered DEF Right
  <2> QED BY <1>7, <1>11, <2>1, RightStays
<1>12. Right(b, t, e, n)
  BY <1>10, <1>11 DEF Right
<1>13. \A w \in Homed : w # v => t.cell[Home(w)] = s.cell[Home(w)]
  BY <1>7, Classes DEF Keeps
<1> QED BY <1>4, <1>5, <1>8, <1>12, <1>13 DEF HomeRight, to

\* A value in a register is put where the call does not reach.
LEMMA SpillLiveRegisterFollows ==
  ASSUME Going, NEW v \in todo, SpillLiveRegister(v)
  PROVE  Follows' /\ HomesStep
<1> DEFINE r == alloc.live[v].num
           t == IF v \in Temps THEN SpillTemp(alloc, r) ELSE Store(alloc, Reg(r), Home(v))
<1>1. phase = "spillregs" /\ todo' = todo \ {v} /\ Keep /\ Become(t, "spillregs")
  BY DEF SpillLiveRegister
<1>2. /\ v \in Values /\ InReg(alloc, v)
      /\ Right(block, alloc, env, idx)
      /\ \A w \in Homed : w \notin todo => HomeRight(alloc, env, w)
      /\ \A w \in Temps : alloc.use[w] > idx /\ InReg(alloc, w) => w \in todo
  <2>1. v \in Values /\ InReg(alloc, v)
    BY <1>1, GoingFacts DEF Inv, TypeOK, Pending
  <2> QED BY <1>1, <2>1 DEF Going, Follows, InSpillRegs
<1>3. Sane(alloc) /\ WellFormed(block) /\ idx \in Nat /\ HasItems(alloc.availSpills)
  BY GoingFacts
<1>4. /\ Sane(t) /\ t.use = alloc.use /\ Right(block, t, env, idx)
      /\ \A w \in Homed : w \notin todo' => HomeRight(t, env, w)
      /\ \A w \in Temps : alloc.use[w] > idx /\ InReg(t, w) => w \in todo'
      /\ HomesTake(alloc, t, env, env)
  <2>1. CASE v \in Temps
    <3>1. t = SpillTemp(alloc, alloc.live[v].num)
      BY <2>1
    <3> HIDE DEF t
    <3>2. /\ Sane(t) /\ t.use = alloc.use /\ Keeps(alloc, t, v)
          /\ t.live[v].place = "spill"
          /\ t.cell[HolderIn(t, v)] = alloc.cell[HolderIn(alloc, v)]
          /\ \A c \in Cells : c.class # "spill" => t.cell[c] = alloc.cell[c]
      BY <1>2, <1>3, <3>1, SpillFacts
    <3>3. IsLive(alloc, v) /\ IsLive(t, v) /\ ~InReg(t, v)
      BY <1>2, <3>2 DEF InReg, IsLive
    <3>4. Right(block, t, env, idx)
      BY <1>2, <1>3, <2>1, <3>2, <3>3, MovedRight
    <3>5. \A w \in Homed : w \notin todo' => HomeRight(t, env, w)
      BY <1>1, <1>2, <2>1, <3>2, Classes DEF HomeRight
    <3>6. \A w \in Temps : alloc.use[w] > idx /\ InReg(t, w) => w \in todo'
      BY <1>1, <1>2, <3>2, <3>3, Classes DEF Keeps, InReg
    <3>7. HomesTake(alloc, t, env, env)
      BY <3>2, LocalHomes, HomesAlone
    <3> QED BY <3>2, <3>4, <3>5, <3>6, <3>7
  <2>2. CASE v \notin Temps
    <3>1. t = Store(alloc, Reg(alloc.live[v].num), Home(v)) /\ v \in Homed
      BY <1>2, <2>2, Classes
    <3> HIDE DEF t
    <3>2. /\ Sane(t) /\ t.use = alloc.use /\ t.live = alloc.live /\ Right(block, t, env, idx)
          /\ HomeRight(t, env, v)
          /\ \A w \in Homed : w # v => t.cell[Home(w)] = alloc.cell[Home(w)]
      BY <1>2, <1>3, <3>1, WriteBack
    <3>3. \A w \in Homed : w \notin todo' => HomeRight(t, env, w)
      BY <1>1, <1>2, <3>2 DEF HomeRight
    <3>4. \A w \in Temps : alloc.use[w] > idx /\ InReg(t, w) => w \in todo'
      BY <1>1, <1>2, <2>2, <3>2 DEF InReg
    <3>5. HomesTake(alloc, t, env, env)
      BY <3>2, LocalHomes DEF HomesTake, HomeRight
    <3> QED BY <3>2, <3>3, <3>4, <3>5
  <2> QED BY <2>1, <2>2
<1> HIDE DEF t
<1>5. Common' /\ alloc' = t /\ phase' = "spillregs"
  <2>1. phase \in InCall \cup {"code"} /\ phase # "release"
    BY <1>1 DEF InCall
  <2>2. Become(t, "spillregs") /\ Keep /\ Sane(t) /\ t.use = alloc.use
    BY <1>1, <1>4
  <2> QED BY <2>1, <2>2, CallCommon
<1>6. InSpillRegs'
  BY <1>1, <1>4, <1>5 DEF InSpillRegs, Keep
<1>7. HomesStep
  BY <1>1, <1>4, <1>5 DEF HomesStep, Keep
<1> QED BY <1>5, <1>6, <1>7
        DEF Follows, InCode, InSpillInter, InArgs, InClear, InRelease, InReturn, FlowCorrect

\* The registers are done: the callee area is next.
LEMMA SpilledRegistersFollows ==
  ASSUME Going, SpilledRegisters
  PROVE  Follows'
<1>1. /\ phase = "spillregs" /\ todo = {} /\ Keep /\ alloc' = alloc
      /\ phase' = "spillinterproc"
      /\ todo' = {v \in Values : alloc.live[v].place = "callee" /\ alloc.use[v] >= idx}
  BY DEF SpilledRegisters
<1>2. /\ Right(block, alloc, env, idx)
      /\ \A v \in Homed : v \notin todo => HomeRight(alloc, env, v)
      /\ \A v \in Temps : alloc.use[v] > idx /\ InReg(alloc, v) => v \in todo
  BY <1>1 DEF Going, Follows, InSpillRegs
<1>3. HomesRight(alloc, env) /\ \A v \in Temps : alloc.use[v] > idx => ~InReg(alloc, v)
  BY <1>1, <1>2 DEF HomesRight
<1>4. \A v \in Temps : alloc.use[v] >= idx /\ alloc.live[v].place = "callee" => v \in todo'
  BY <1>1, Classes
<1>5. Become(alloc, "spillinterproc") /\ Sane(alloc)
  BY <1>1, GoingFacts DEF Become, Sane, Fine
<1>6. Common'
  BY <1>1, <1>5, CallCommon DEF InCall
<1>7. InSpillInter'
  BY <1>1, <1>2, <1>3, <1>4 DEF InSpillInter, Keep, HomesRight, HomeRight, InReg
<1> QED BY <1>1, <1>6, <1>7
        DEF Follows, InCode, InSpillRegs, InArgs, InClear, InRelease, InReturn, FlowCorrect

\* A temporary left in the callee area by an earlier call is brought into a
\* register, and put aside when this call's successors still want it.
LEMMA SpillLiveInterprocFollows ==
  ASSUME Going, NEW v \in todo, SpillLiveInterproc(v)
  PROVE  Follows'
<1>1. /\ phase = "spillinterproc" /\ todo' = todo \ {v} /\ Keep
      /\ v \in Values /\ alloc.live[v].place = "callee"
  BY GoingFacts DEF SpillLiveInterproc, Inv, TypeOK, Pending
<1>2. /\ Right(block, alloc, env, idx) /\ HomesRight(alloc, env)
      /\ \A w \in Temps : alloc.use[w] > idx => ~InReg(alloc, w)
      /\ \A w \in Temps : alloc.use[w] >= idx /\ alloc.live[w].place = "callee" => w \in todo
  BY <1>1 DEF Going, Follows, InSpillInter
<1>3. /\ Sane(alloc) /\ WellFormed(block) /\ idx \in Nat /\ HasItems(alloc.availSpills)
      /\ HasItems(alloc.availRegs) /\ alloc.use[v] \in Nat
  BY <1>1, GoingFacts
<1>4. v \in Temps /\ IsLive(alloc, v) /\ ~InReg(alloc, v)
  BY <1>1, <1>2, Classes DEF Right, RightAt, VarRight, IsLive, InReg
<1> DEFINE from == Callee(alloc.live[v].num)
           l(x) == Load(x, from, v)
           t(x) == IF /\ l(x).panic = ""
                      /\ Len(l(x).availRegs.items) - 1 < 3 \/ l(x).use[v] > idx
                     THEN SpillTemp(l(x), l(x).live[v].num) ELSE l(x)
<1>5. PICK x \in EnsureImmediate(alloc, idx, v) : Become(t(x), "spillinterproc")
  BY DEF SpillLiveInterproc
<1>6. from \in Cells /\ from.class = "callee" /\ HolderIn(alloc, v) = from
  BY <1>1, <1>3, HolderFacts, CellFacts, CellNames
<1> HIDE DEF from
<1>7. /\ Calm(alloc, x) /\ InReg(x, v) /\ Keeps(alloc, x, v)
      /\ x.cell[HolderIn(x, v)] = alloc.cell[from]
  BY <1>1, <1>3, <1>4, <1>6, EnsureFacts
<1>8. Sane(x)
  BY <1>7 DEF Calm
<1> DEFINE m == l(x)
<1>9. /\ Calm(x, m) /\ Keeps(x, m, v) /\ m.cell[HolderIn(m, v)] = x.cell[from]
      /\ Wrote(x, m, Reg(x.live[v].num), x.cell[from])
  BY <1>1, <1>6, <1>7, <1>8, LoadFacts
<1> HIDE DEF l
<1>10. /\ Calm(alloc, m) /\ Keeps(alloc, m, v) /\ InReg(m, v)
       /\ m.cell[HolderIn(m, v)] = alloc.cell[HolderIn(alloc, v)]
  <2>1. Calm(alloc, m)
    BY <1>7, <1>9, CalmTwice
  <2>2. Keeps(alloc, m, v)
    BY <1>7, <1>9, KeepsTwice
  <2>3. InReg(m, v)
    BY <1>7, <1>9 DEF Wrote, InReg
  <2>4. x.cell[from] = alloc.cell[from]
    BY <1>6, <1>7 DEF Calm
  <2> QED BY <1>6, <1>9, <2>1, <2>2, <2>3, <2>4
<1> HIDE DEF m
<1>11. PICK u : u = t(x)
  OBVIOUS
<1>12. \/ /\ u = m
          /\ ~(m.use[v] > idx)
       \/ u = SpillTemp(m, m.live[v].num)
  <2>1. m.panic = ""
    BY <1>10 DEF Calm, Sane, Fine
  <2> QED BY <1>11, <2>1 DEF m
<1> HIDE DEF t
<1>13. /\ Sane(m) /\ m.use = alloc.use /\ HasItems(m.availSpills) /\ IsLive(m, v)
       /\ \A c \in Cells : c.class # "reg" => m.cell[c] = alloc.cell[c]
  BY <1>3, <1>10 DEF Calm, InReg, IsLive
<1>14. Right(block, m, env, idx)
  BY <1>2, <1>3, <1>4, <1>10, <1>13, MovedRight
<1>15. HomesRight(m, env)
  BY <1>2, <1>13, HomesKept
<1>16. /\ Sane(u) /\ u.use = alloc.use /\ Right(block, u, env, idx) /\ HomesRight(u, env)
       /\ Keeps(alloc, u, v) /\ u.live[v].place # "callee"
       /\ alloc.use[v] > idx => ~InReg(u, v)
  <2>1. CASE u = m /\ ~(m.use[v] > idx)
    BY <1>10, <1>13, <1>14, <1>15, <2>1 DEF InReg
  <2>2. CASE u = SpillTemp(m, m.live[v].num)
    <3>1. /\ Sane(u) /\ u.use = m.use /\ Keeps(m, u, v) /\ u.live[v].place = "spill"
          /\ u.cell[HolderIn(u, v)] = m.cell[HolderIn(m, v)]
          /\ \A c \in Cells : c.class # "spill" => u.cell[c] = m.cell[c]
      BY <1>1, <1>10, <1>13, <2>2, SpillFacts
    <3>2. IsLive(u, v) /\ ~InReg(u, v) /\ u.live[v].place # "callee"
      BY <3>1 DEF IsLive, InReg
    <3>3. Right(block, u, env, idx)
      BY <1>3, <1>4, <1>13, <1>14, <3>1, <3>2, MovedRight
    <3>4. HomesRight(u, env)
      BY <1>15, <3>1, HomesKept
    <3>5. Keeps(alloc, u, v)
      BY <1>10, <3>1, KeepsTwice
    <3> QED BY <1>13, <3>1, <3>2, <3>3, <3>4, <3>5
  <2> QED BY <1>12, <2>1, <2>2
<1>17. Common' /\ alloc' = u /\ phase' = "spillinterproc"
  <2>1. phase \in InCall \cup {"code"} /\ phase # "release"
    BY <1>1 DEF InCall
  <2>2. Become(u, "spillinterproc") /\ Keep /\ Sane(u) /\ u.use = alloc.use
    BY <1>1, <1>5, <1>11, <1>16
  <2> QED BY <2>1, <2>2, CallCommon
<1>18. \A w \in Temps : alloc.use[w] > idx => ~InReg(u, w)
  BY <1>2, <1>16, Classes DEF Keeps, InReg
<1>19. \A w \in Temps : alloc.use[w] >= idx /\ u.live[w].place = "callee" => w \in todo'
  BY <1>1, <1>2, <1>16, Classes DEF Keeps
<1>20. InSpillInter'
  BY <1>1, <1>16, <1>17, <1>18, <1>19 DEF InSpillInter, Keep
<1> QED BY <1>17, <1>20
        DEF Follows, InCode, InSpillRegs, InArgs, InClear, InRelease, InReturn, FlowCorrect

\* An argument of the call at hand.
LEMMA ParamFacts ==
  ASSUME Going, phase \in InCall, phase # "release", NEW k \in DOMAIN Params
  PROVE  /\ Params[k] \in Operands
         /\ Params[k] \in Values => alloc.use[Params[k]] >= idx
         /\ Params[k] \in Temps =>
              /\ Params[k] \in Values
              /\ env[Params[k]] # Junk /\ alloc.use[Params[k]] = idx
              /\ \A j \in DOMAIN Params : Params[j] = Params[k] => j = k
         /\ DOMAIN Params = 1 .. Len(Params) /\ Len(Params) \in Nat
<1>1. /\ Inv /\ Common /\ Handled(block) /\ idx < End /\ Ins.t = "call" /\ Now = idx
      /\ WellFormed(block) /\ idx \in 0 .. End /\ idx \in Nat
  BY GoingFacts, CallFacts DEF Now
<1>2. /\ Ins.ops \in Seq(Operands) /\ Ins.ops # <<>>
  BY <1>1, InsFacts DEF Instrs
<1>3. /\ Params \in Seq(Operands) /\ Len(Params) = Len(Ins.ops) - 1
      /\ \A j \in 1 .. Len(Params) : Params[j] = Ins.ops[j + 1]
  BY <1>2, HeadTailProperties DEF Params
<1>4. /\ DOMAIN Params = 1 .. Len(Params) /\ Len(Params) \in Nat
      /\ DOMAIN Ins.ops = 1 .. Len(Ins.ops) /\ Len(Ins.ops) \in Nat
  BY <1>2, <1>3, LenProperties
<1>5. \A j \in DOMAIN Params : j + 1 \in DOMAIN Ins.ops /\ Params[j] = Ins.ops[j + 1]
  <2> DEFINE n == Len(Params)
             o == Len(Ins.ops)
  <2>1. DOMAIN Params = 1 .. n /\ DOMAIN Ins.ops = 1 .. o /\ n = o - 1 /\ n \in Nat /\ o \in Nat
    BY <1>3, <1>4
  <2>2. \A j \in 1 .. n : Params[j] = Ins.ops[j + 1]
    BY <1>3
  <2> HIDE DEF n, o
  <2> QED BY <2>1, <2>2
<1>6. PICK i \in DOMAIN Ins.ops : i = k + 1 /\ Params[k] = Ins.ops[i]
  BY <1>5
<1>7. /\ Params[k] \in Operands
      /\ Params[k] \in Values => alloc.use[Params[k]] >= idx
      /\ Params[k] \in Temps => env[Params[k]] # Junk
  BY <1>1, <1>6, OperandFacts
<1>8. /\ idx + 1 \in DOMAIN block.code /\ Ins = block.code[idx + 1] /\ alloc.use = FindUses(block)
  BY <1>1, CodeNumbered DEF End, Ins, Common
<1>9. \A j \in DOMAIN Ins.ops : Ins.ops[j] \in Temps =>
         /\ LastUse(block, Ins.ops[j]) = idx
         /\ \A l \in DOMAIN Ins.ops : Ins.ops[l] = Ins.ops[j] => l = j
  BY <1>1, <1>8 DEF Handled, Linearized
<1>10. Params[k] \in Temps =>
         /\ alloc.use[Params[k]] = idx
         /\ \A j \in DOMAIN Params : Params[j] = Params[k] => j = k
  <2> SUFFICES ASSUME Params[k] \in Temps
               PROVE  /\ alloc.use[Params[k]] = idx
                      /\ \A j \in DOMAIN Params : Params[j] = Params[k] => j = k
    OBVIOUS
  <2>1. alloc.use[Params[k]] = idx
    BY <1>6, <1>8, <1>9 DEF LastUse
  <2>2. ASSUME NEW j \in DOMAIN Params, Params[j] = Params[k] PROVE j = k
    <3>1. j + 1 \in DOMAIN Ins.ops /\ Ins.ops[j + 1] = Ins.ops[i]
      BY <1>5, <1>6, <2>2
    <3>2. j + 1 = i
      BY <1>6, <1>9, <3>1
    <3>3. j \in Nat /\ k \in Nat
      BY <1>4
    <3> QED BY <1>6, <3>2, <3>3
  <2> QED BY <2>1, <2>2
<1> QED BY <1>4, <1>7, <1>10, Classes

LEMMA ParamsLen ==
  ASSUME Going, phase \in InCall
  PROVE  /\ Len(Params) \in Nat /\ Len(Params) \in 0 .. NumSlots
         /\ DOMAIN Params = 1 .. Len(Params)
         /\ Len(Ins.ops) = Len(Params) + 1 /\ DOMAIN Ins.ops = 1 .. Len(Ins.ops)
         /\ Ins.ops \in Seq(Operands) /\ Callee0 \in Operands
<1>1. /\ idx < End /\ Ins.t = "call" /\ WellFormed(block) /\ idx \in 0 .. End
      /\ Len(Params) \in 0 .. NumSlots /\ Callee0 \in Operands
  BY GoingFacts, CallFacts
<1>2. Ins.ops \in Seq(Operands) /\ Ins.ops # <<>>
  BY <1>1, InsFacts DEF Instrs
<1>3. Params \in Seq(Operands) /\ Len(Params) = Len(Ins.ops) - 1 /\ Len(Ins.ops) \in Nat
  BY <1>2, HeadTailProperties, LenProperties DEF Params
<1>4. DOMAIN Params = 1 .. Len(Params) /\ DOMAIN Ins.ops = 1 .. Len(Ins.ops) /\ Len(Params) \in Nat
  BY <1>2, <1>3, LenProperties
<1>5. Len(Ins.ops) = Len(Params) + 1
  <2> DEFINE n == Len(Params)
             m == Len(Ins.ops)
  <2>1. n = m - 1 /\ m \in Nat
    BY <1>3
  <2> HIDE DEF n, m
  <2>2. m = n + 1
    BY <2>1
  <2> QED BY <2>2 DEF n, m
<1> QED BY <1>1, <1>2, <1>4, <1>5

\* Both lists are done: the arguments are next.
LEMMA SpilledInterprocFollows ==
  ASSUME Going, SpilledInterproc
  PROVE  Follows'
<1>1. /\ phase = "spillinterproc" /\ todo = {} /\ Keep /\ alloc' = alloc
      /\ phase' = "args" /\ pos' = 0
  BY DEF SpilledInterproc
<1>2. /\ Right(block, alloc, env, idx) /\ HomesRight(alloc, env)
      /\ \A w \in Temps : alloc.use[w] > idx => ~InReg(alloc, w)
      /\ \A w \in Temps : alloc.use[w] >= idx => alloc.live[w].place # "callee"
  BY <1>1 DEF Going, Follows, InSpillInter
<1>3. /\ Sane(alloc) /\ WellFormed(block) /\ idx \in Nat /\ idx + 1 \in Nat /\ idx <= idx + 1
      /\ \A v \in Values : alloc.use[v] \in Nat
  BY GoingFacts
<1>4. Right(block, alloc, env, idx + 1)
  <2>1. PICK n \in Nat : n = idx + 1 /\ idx <= n
    BY <1>3
  <2>2. Right(block, alloc, env, n)
    BY <1>2, <1>3, <2>1, RightLater
  <2> QED BY <2>1, <2>2
<1>5. Aside
  <2> SUFFICES ASSUME NEW v \in Temps, IsLive(alloc, v), alloc.use[v] > idx
               PROVE  alloc.live[v].place = "spill"
    BY DEF Aside
  <2>1. alloc.use[v] >= idx /\ v \in Values
    BY <1>3, Classes
  <2> QED BY <1>2, <1>3, <2>1, HolderFacts DEF InReg, IsLive
<1>6. phase \in InCall /\ phase # "release"
  BY <1>1 DEF InCall
<1>7. Len(Params) \in Nat
  BY <1>6, ParamsLen
<1>8. \A k \in DOMAIN Params : ~(k <= 0) /\ (Params[k] \in Temps => TempRight(alloc, env, Params[k]))
  <2> SUFFICES ASSUME NEW k \in DOMAIN Params
               PROVE  ~(k <= 0) /\ (Params[k] \in Temps => TempRight(alloc, env, Params[k]))
    OBVIOUS
  <2>1. /\ DOMAIN Params = 1 .. Len(Params) /\ Len(Params) \in Nat
        /\ Params[k] \in Temps => Params[k] \in Values /\ env[Params[k]] # Junk /\ alloc.use[Params[k]] = idx
    BY <1>6, ParamFacts
  <2>2. k \in 1 .. Len(Params)
    BY <2>1
  <2>3. ~(k <= 0)
    BY <2>2
  <2> QED BY <1>2, <1>3, <2>1, <2>3 DEF Right, RightAt
<1>9. Common'
  <2>1. Become(alloc, "args")
    BY <1>1, <1>3 DEF Become, Sane, Fine
  <2> QED BY <1>1, <1>3, <1>6, <2>1, CallCommon
<1>10. InArgs'
  <2>1. Params' = Params
    BY <1>1 DEF Params, Ins, Keep
  <2>2. 0 <= Len(Params)
    BY <1>7
  <2>3. Aside'
    BY <1>1, <1>5 DEF Aside, Keep, IsLive
  <2>4. \A k \in DOMAIN Params : IF k <= pos' THEN alloc.cell[Callee(k - 1)] = Meaning(Params[k])
                                 ELSE Params[k] \in Temps => TempRight(alloc, env, Params[k])
    BY <1>1, <1>8
  <2>5. \A k \in DOMAIN Params : IF k <= pos' THEN alloc'.cell[Callee(k - 1)] = Meaning(Params[k])'
                                 ELSE Params[k] \in Temps => TempRight(alloc', env', Params[k])
    BY <1>1, <2>1, <2>4 DEF Meaning, Keep
  <2>6. Right(block', alloc', env', idx' + 1) /\ HomesRight(alloc', env')
    BY <1>1, <1>2, <1>4 DEF Keep
  <2>7. \A w \in Temps : alloc'.use[w] >= idx' => alloc'.live[w].place # "callee"
    BY <1>1, <1>2 DEF Keep
  <2> QED BY <1>1, <2>1, <2>2, <2>3, <2>5, <2>6, <2>7 DEF InArgs
<1> QED BY <1>1, <1>9, <1>10
        DEF Follows, InCode, InSpillRegs, InSpillInter, InClear, InRelease, InReturn, FlowCorrect

\* A write to memory leaves right what is not there.
LEMMA SameRight ==
  ASSUME NEW b, NEW s, NEW t, t.live = s.live, t.use = s.use, NEW w \in Values,
         IsLive(s, w) \/ w \in Homed => t.cell[HolderIn(s, w)] = s.cell[HolderIn(s, w)],
         w \in Homed => t.cell[Home(w)] = s.cell[Home(w)],
         NEW e, NEW n, RightAt(b, s, e, n, w)
  PROVE  RightAt(b, t, e, n, w)
<1>1. IsLive(t, w) <=> IsLive(s, w)
  BY DEF IsLive
<1>2. HolderIn(t, w) = HolderIn(s, w)
  BY <1>1 DEF HolderIn
<1>3. w \notin Temps => w \in Homed
  BY Classes
<1> QED BY <1>1, <1>2, <1>3 DEF RightAt, VarRight, TempRight, HomeRight

\* One argument is passed; the ones before it stay where they are.
LEMMA LoadArgumentFollows ==
  ASSUME Going, LoadArgument
  PROVE  Follows'
<1> DEFINE o == Params[pos + 1]
           to == Callee(pos)
<1>1. /\ phase = "args" /\ pos < Len(Params) /\ Keep /\ pos' = pos + 1
      /\ pos \in Nat
  BY GoingFacts DEF LoadArgument, Inv, TypeOK
<1>2. /\ Right(block, alloc, env, idx + 1) /\ HomesRight(alloc, env) /\ Aside
      /\ \A v \in Temps : alloc.use[v] >= idx => alloc.live[v].place # "callee"
      /\ \A k \in DOMAIN Params : IF k <= pos THEN alloc.cell[Callee(k - 1)] = Meaning(Params[k])
                                  ELSE Params[k] \in Temps => TempRight(alloc, env, Params[k])
  BY <1>1 DEF Going, Follows, InArgs
<1>3. /\ Sane(alloc) /\ WellFormed(block) /\ idx \in Nat /\ idx + 1 \in Nat
      /\ HasItems(alloc.availRegs) /\ Len(alloc.availRegs.items) >= 1
      /\ \A v \in Values : alloc.use[v] \in Nat
  <2>1. Len(alloc.availRegs.items) >= 3 /\ Len(alloc.availRegs.items) \in Nat
    BY GoingFacts
  <2>2. Len(alloc.availRegs.items) >= 1
    BY <2>1
  <2> QED BY <2>2, GoingFacts
<1>4. phase \in InCall /\ phase # "release"
  BY <1>1 DEF InCall
<1>5. PICK n \in Nat : n = idx + 1
  BY <1>3
<1>6. PICK p \in DOMAIN Params : p = pos + 1 /\ p - 1 = pos
  <2>1. DOMAIN Params = 1 .. Len(Params) /\ Len(Params) \in Nat
    BY <1>4, ParamsLen
  <2>2. pos + 1 \in DOMAIN Params /\ (pos + 1) - 1 = pos
    BY <1>1, <2>1
  <2> QED BY <2>2
<1>7. /\ o = Params[p] /\ o \in Operands
      /\ o \in Values => alloc.use[o] >= idx
      /\ o \in Temps => o \in Values /\ alloc.use[o] = idx /\ TempRight(alloc, env, o) /\ IsLive(alloc, o)
  <2>1. /\ Params[p] \in Operands
        /\ Params[p] \in Values => alloc.use[Params[p]] >= idx
        /\ Params[p] \in Temps => Params[p] \in Values /\ alloc.use[Params[p]] = idx
    BY <1>4, ParamFacts
  <2>2. ~(p <= pos)
    BY <1>1, <1>6
  <2>3. Params[p] \in Temps => TempRight(alloc, env, Params[p])
    BY <1>2, <2>2
  <2> QED BY <1>6, <2>1, <2>3 DEF TempRight
<1>8. \A k \in DOMAIN Params : k # p => (Params[k] \in Temps => Params[k] # o)
  BY <1>4, <1>7, ParamFacts
<1> HIDE DEF o
<1>9. PICK x \in EnsureImmediate(alloc, idx, o) :
        Become(FreeIfUnneeded(Store(x, Immediate(x, o), Callee(pos)), idx, Ins, o), "args")
  <2>1. ~(o \in Values /\ alloc.live[o] = UseInfo("callee", pos, FALSE))
    <3> SUFFICES ASSUME o \in Values, alloc.live[o].place = "callee" PROVE FALSE
      BY DEF UseInfo
    <3>1. o \notin Temps
      BY <1>2, <1>3, <1>7
    <3>2. o \in Homed
      BY <3>1, Classes
    <3> QED BY <1>2, <3>1 DEF Right, RightAt, VarRight
  <2> QED BY <2>1 DEF LoadArgument, o
<1>10. /\ Calm(alloc, x) /\ Right(block, x, env, n) /\ (o \in Values => InReg(x, o))
       /\ Keeps(alloc, x, o)
  BY <1>2, <1>3, <1>5, <1>7, OperandEnsured
<1>11. Sane(x) /\ x.use = alloc.use /\ x.cell \in [Cells -> Tokens]
  BY <1>10, SaneFacts DEF Calm
<1> DEFINE from == Immediate(x, o)
<1>12. Read(x, from) = Meaning(o)
  <2>1. CASE o \in Values
    <3>1. from = HolderIn(x, o) /\ from \in Cells
      BY <1>10, <1>11, <2>1, HolderFacts, CellFacts DEF Immediate
    <3>2. IsLive(alloc, o) \/ o \in Homed
      BY <1>7, <2>1, Classes
    <3>3. x.cell[HolderIn(x, o)] = alloc.cell[HolderIn(alloc, o)]
      BY <1>3, <1>9, <2>1, <3>2, EnsureFacts
    <3>4. alloc.cell[HolderIn(alloc, o)] = env[o]
      <4>1. CASE o \in Temps
        BY <1>7, <4>1 DEF TempRight
      <4>2. CASE o \notin Temps
        BY <1>2, <2>1, <4>2 DEF Right, RightAt, VarRight
      <4> QED BY <4>1, <4>2
    <3> QED BY <2>1, <3>1, <3>3, <3>4, CellRead DEF Meaning
  <2>2. CASE o \notin Values
    <3>1. o.class \in {"lit", "global"}
      BY <1>7, <2>2 DEF Operands
    <3> QED BY <2>2, <3>1 DEF Meaning, Immediate, Read
  <2> QED BY <2>1, <2>2
<1>13. to \in Cells /\ to.class = "callee"
  <2>1. Len(Params) \in Nat /\ Len(Params) \in 0 .. NumSlots
    BY <1>4, ParamsLen
  <2>2. pos \in Slots
    <3> DEFINE k == Len(Params)
    <3>1. pos < k /\ k <= NumSlots /\ k \in Nat
      BY <1>1, <2>1
    <3> HIDE DEF k
    <3> QED BY <1>1, <3>1, AllocSizes DEF Slots
  <2> QED BY <2>2, CellFacts, CellNames
<1>14. Meaning(o) \in Tokens
  <2>1. env \in [Values -> Tokens]
    BY GoingFacts DEF Inv, TypeOK
  <2> QED BY <1>7, <2>1 DEF Meaning, Tokens
<1>15. PICK y : y = Meaning(o)
  OBVIOUS
<1> DEFINE m == Store(x, from, to)
           u == FreeIfUnneeded(m, idx, Ins, o)
<1> HIDE DEF from, to
<1>16. /\ Sane(m) /\ m.use = x.use /\ m.live = x.live /\ Wrote(x, m, to, y)
  BY <1>11, <1>12, <1>13, <1>14, <1>15, StoreFacts
<1>17. Become(u, "args")
  BY <1>9 DEF to, from
<1> HIDE DEF m
<1>18. /\ m.cell[to] = y
       /\ \A c \in Cells : c # to => m.cell[c] = x.cell[c]
  BY <1>11, <1>13, <1>16 DEF Wrote
<1>19. ASSUME NEW w \in Values, x.live[w].place # "callee"
       PROVE  /\ IsLive(x, w) \/ w \in Homed => m.cell[HolderIn(x, w)] = x.cell[HolderIn(x, w)]
              /\ w \in Homed => m.cell[Home(w)] = x.cell[Home(w)]
  <2>1. w \in Homed => Home(w) \in Cells /\ Home(w) # to
    BY <1>13, Classes
  <2>2. x.live[w].place \in {"reg", "spill"} => HolderIn(x, w).class \in {"reg", "spill"}
    BY <1>11, HolderFacts, CellNames DEF InReg
  <2>3. ~IsLive(x, w) /\ w \in Homed => HolderIn(x, w) # to
    BY <1>11, <2>1, HolderFacts
  <2>4. x.live[w].place \in {"dead", "reg", "spill"}
    BY <1>11, <1>19, HolderFacts
  <2>5. IsLive(x, w) \/ w \in Homed => HolderIn(x, w) \in Cells /\ HolderIn(x, w) # to
    BY <1>11, <1>13, <2>2, <2>3, <2>4, HolderFacts DEF IsLive
  <2> QED BY <1>18, <2>1, <2>5
<1>20. ASSUME NEW w \in Values, w # o PROVE x.live[w] = alloc.live[w]
  BY <1>10, <1>20 DEF Keeps
<1>21. \A w \in Temps : alloc.use[w] >= idx => x.live[w].place # "callee"
  <2> SUFFICES ASSUME NEW w \in Temps, alloc.use[w] >= idx PROVE x.live[w].place # "callee"
    OBVIOUS
  <2>1. CASE w = o
    BY <1>10, <2>1, Classes DEF InReg
  <2>2. CASE w # o
    BY <1>2, <1>20, <2>2, Classes
  <2> QED BY <2>1, <2>2
<1>22. Right(block, m, env, n)
  <2> SUFFICES ASSUME NEW w \in Values PROVE RightAt(block, m, env, n, w)
    BY DEF Right
  <2>1. RightAt(block, x, env, n, w)
    BY <1>10 DEF Right
  <2>2. CASE x.live[w].place # "callee"
    BY <1>16, <1>19, <2>1, <2>2, SameRight
  <2>3. CASE x.live[w].place = "callee" /\ w \in Temps
    <3>1. ~(alloc.use[w] >= idx)
      BY <1>21, <2>3
    <3>2. ~(m.use[w] >= n)
      <4> DEFINE k == alloc.use[w]
      <4>1. k \in Nat /\ ~(k >= idx) /\ m.use[w] = k
        BY <1>3, <1>11, <1>16, <3>1
      <4> HIDE DEF k
      <4> QED BY <4>1, <1>3, <1>5
    <3>3. IsLive(m, w) => IsLive(x, w)
      BY <1>16 DEF IsLive
    <3> QED BY <2>1, <2>3, <3>2, <3>3 DEF RightAt
  <2>4. CASE x.live[w].place = "callee" /\ w \notin Temps
    BY <2>1, <2>4 DEF RightAt, VarRight
  <2> QED BY <2>2, <2>3, <2>4
<1>23. /\ Calm(m, u) /\ u.cell = m.cell /\ Keeps(m, u, o)
       /\ u = m \/ (o \in Values /\ u.live[o] = Dead)
  BY <1>3, <1>16, ReleaseFacts
<1>24. Right(block, u, env, n)
  BY <1>3, <1>5, <1>16, <1>22, ReleaseRight
<1> HIDE DEF u
<1>25. Sane(u) /\ u.use = alloc.use
  BY <1>11, <1>16, <1>23 DEF Calm
<1>26. ASSUME NEW w \in Values, w # o PROVE u.live[w] = alloc.live[w]
  BY <1>16, <1>20, <1>23, <1>26 DEF Keeps
<1>27. HomesRight(u, env)
  <2>1. \A c \in Cells : c.class \in {"caller", "local"} => u.cell[c] = alloc.cell[c]
    BY <1>10, <1>13, <1>18, <1>23 DEF Calm
  <2> QED BY <1>2, <2>1, HomesKept
<1>28. \A w \in Temps : IsLive(u, w) /\ u.use[w] > idx => u.live[w].place = "spill"
  <2> SUFFICES ASSUME NEW w \in Temps, IsLive(u, w), u.use[w] > idx PROVE u.live[w].place = "spill"
    OBVIOUS
  <2>1. w # o
    BY <1>3, <1>7, <1>25
  <2> QED BY <1>2, <1>25, <1>26, <2>1, Classes DEF Aside, IsLive
<1>29. \A w \in Temps : u.use[w] >= idx => u.live[w].place # "callee"
  <2> SUFFICES ASSUME NEW w \in Temps, u.use[w] >= idx PROVE u.live[w].place # "callee"
    OBVIOUS
  <2>1. CASE w # o
    BY <1>2, <1>25, <1>26, <2>1, Classes
  <2>2. CASE w = o
    BY <1>16, <1>21, <1>23, <1>25, <2>2, ValuesFacts
  <2> QED BY <2>1, <2>2
<1>30. ASSUME NEW k \in DOMAIN Params
       PROVE  IF k <= pos + 1 THEN u.cell[Callee(k - 1)] = Meaning(Params[k])
              ELSE Params[k] \in Temps => TempRight(u, env, Params[k])
  <2>1. k \in Nat /\ k - 1 \in Slots
    <3>1. DOMAIN Params = 1 .. Len(Params) /\ Len(Params) \in Nat /\ Len(Params) \in 0 .. NumSlots
      BY <1>4, ParamsLen
    <3> DEFINE j == Len(Params)
    <3>2. k \in 1 .. j /\ j \in Nat /\ j <= NumSlots
      BY <3>1
    <3> HIDE DEF j
    <3> QED BY <3>2, AllocSizes DEF Slots
  <2>2. CASE k <= pos
    <3>1. alloc.cell[Callee(k - 1)] = Meaning(Params[k])
      BY <1>2, <2>2
    <3>2. Callee(k - 1) \in Cells /\ Callee(k - 1).class = "callee"
      BY <2>1, CellFacts, CellNames
    <3>3. Callee(k - 1) # to
      <4>1. k - 1 # pos
        BY <1>1, <2>1, <2>2
      <4> QED BY <4>1, CellNames DEF to
    <3>4. u.cell[Callee(k - 1)] = alloc.cell[Callee(k - 1)]
      BY <1>10, <1>18, <1>23, <3>2, <3>3 DEF Calm
    <3>5. k <= pos + 1
      BY <1>1, <2>1, <2>2
    <3> QED BY <3>1, <3>4, <3>5
  <2>3. CASE k = p
    <3>1. Callee(k - 1) = to /\ Params[k] = o /\ k <= pos + 1
      BY <1>1, <1>6, <1>7, <2>1, <2>3 DEF to
    <3> QED BY <1>15, <1>18, <1>23, <3>1
  <2>4. CASE ~(k <= pos) /\ k # p
    <3>1. ~(k <= pos + 1)
      BY <1>1, <1>6, <2>1, <2>4
    <3>2. ASSUME Params[k] \in Temps PROVE TempRight(u, env, Params[k])
      <4> DEFINE w == Params[k]
      <4>1. w # o /\ TempRight(alloc, env, w) /\ w \in Values
        BY <1>2, <1>8, <2>4, <3>2, Classes
      <4>2. alloc.use[w] >= idx
        BY <1>4, <4>1, ParamFacts
      <4> HIDE DEF w
      <4>3. w \in Temps
        BY <3>2 DEF w
      <4>4. x.live[w].place # "callee" /\ IsLive(alloc, w)
        BY <1>21, <4>1, <4>2, <4>3 DEF TempRight
      <4>5. TempRight(x, env, w)
        BY <1>10, <4>1, StillRight
      <4>6. TempRight(m, env, w)
        <5>1. IsLive(m, w) /\ HolderIn(m, w) = HolderIn(x, w) /\ IsLive(x, w)
          BY <1>16, <4>5 DEF TempRight, IsLive, HolderIn
        <5>2. m.cell[HolderIn(x, w)] = x.cell[HolderIn(x, w)]
          BY <1>19, <4>1, <4>4, <5>1
        <5> QED BY <4>5, <5>1, <5>2 DEF TempRight
      <4>7. TempRight(u, env, w)
        BY <1>23, <4>1, <4>6, StillRight
      <4> QED BY <4>7 DEF w
    <3> QED BY <3>1, <3>2
  <2> QED BY <2>2, <2>3, <2>4
<1>31. Common' /\ alloc' = u /\ phase' = "args"
  <2>1. phase \in InCall \cup {"code"}
    BY <1>4
  <2> QED BY <1>1, <1>4, <1>17, <1>25, <2>1, CallCommon
<1>32. InArgs'
  <2>1. Params' = Params /\ idx' = idx /\ env' = env /\ block' = block
    BY <1>1 DEF Params, Ins, Keep
  <2>2. pos + 1 <= Len(Params)
    <3>1. Len(Params) \in Nat
      BY <1>4, ParamsLen
    <3> DEFINE j == Len(Params)
    <3>2. j \in Nat /\ pos < j
      BY <1>1, <3>1
    <3> HIDE DEF j
    <3> QED BY <1>1, <3>2 DEF j
  <2>3. Right(block, u, env, idx + 1)
    BY <1>5, <1>24
  <2>4. Aside'
    BY <1>28, <1>31, <2>1 DEF Aside
  <2>5. \A k \in DOMAIN Params : IF k <= pos' THEN alloc'.cell[Callee(k - 1)] = Meaning(Params[k])'
                                 ELSE Params[k] \in Temps => TempRight(alloc', env', Params[k])
    BY <1>1, <1>30, <1>31, <2>1 DEF Meaning
  <2> QED BY <1>1, <1>27, <1>29, <1>31, <2>1, <2>2, <2>3, <2>4, <2>5 DEF InArgs
<1> QED BY <1>31, <1>32
        DEF Follows, InCode, InSpillRegs, InSpillInter, InClear, InRelease, InReturn, FlowCorrect

\* All arguments are passed.
LEMMA LoadedArgumentsFollows ==
  ASSUME Going, LoadedArguments
  PROVE  Follows'
<1>1. /\ phase = "args" /\ pos = Len(Params) /\ Keep /\ alloc' = alloc /\ phase' = "clear"
      /\ todo' = {v \in Values : alloc.live[v].place \in {"reg", "callee"}}
  BY DEF LoadedArguments
<1>2. /\ Right(block, alloc, env, idx + 1) /\ HomesRight(alloc, env) /\ Aside
      /\ \A k \in DOMAIN Params : IF k <= pos THEN alloc.cell[Callee(k - 1)] = Meaning(Params[k])
                                  ELSE Params[k] \in Temps => TempRight(alloc, env, Params[k])
  BY <1>1 DEF Going, Follows, InArgs
<1>3. phase \in InCall /\ phase # "release"
  BY <1>1 DEF InCall
<1>4. Passed(alloc)
  <2> SUFFICES ASSUME NEW k \in DOMAIN Params
               PROVE  alloc.cell[Callee(k - 1)] = Meaning(Params[k])
    BY DEF Passed
  <2>1. k <= pos
    <3>1. DOMAIN Params = 1 .. Len(Params) /\ Len(Params) \in Nat
      BY <1>3, ParamsLen
    <3> QED BY <1>1, <3>1
  <2> QED BY <1>2, <2>1
<1>5. Common'
  <2>1. Become(alloc, "clear") /\ Sane(alloc)
    BY <1>1, GoingFacts DEF Become, Sane, Fine
  <2> QED BY <1>1, <1>3, <2>1, CallCommon
<1>6. InClear'
  <2>1. Params' = Params /\ idx' = idx /\ env' = env /\ block' = block
    BY <1>1 DEF Params, Ins, Keep
  <2>2. Passed(alloc)'
    BY <1>1, <1>4, <2>1 DEF Passed, Meaning
  <2>3. Aside'
    BY <1>1, <1>2, <2>1 DEF Aside, IsLive
  <2>4. \A v \in Values : v \in todo' <=> alloc'.live[v].place \in {"reg", "callee"}
    BY <1>1
  <2> QED BY <1>1, <1>2, <2>1, <2>2, <2>3, <2>4 DEF InClear
<1> QED BY <1>1, <1>5, <1>6
        DEF Follows, InCode, InSpillRegs, InSpillInter, InArgs, InRelease, InReturn, FlowCorrect

\* Before the call registers and callee slots are given up: what they hold is
\* at home, in a spill slot, or no longer wanted.
LEMMA ClearVolatileFollows ==
  ASSUME Going, NEW v \in todo, ClearVolatile(v)
  PROVE  Follows'
<1> DEFINE t == Free(alloc, v)
<1>1. /\ phase = "clear" /\ todo' = todo \ {v} /\ Keep /\ Become(t, "clear")
  BY DEF ClearVolatile
<1>2. /\ Right(block, alloc, env, idx + 1) /\ HomesRight(alloc, env) /\ Aside
      /\ \A w \in Values : w \in todo <=> alloc.live[w].place \in {"reg", "callee"}
      /\ Passed(alloc)
  BY <1>1 DEF Going, Follows, InClear
<1>3. /\ v \in Values /\ Sane(alloc) /\ WellFormed(block) /\ idx \in Nat /\ idx + 1 \in Nat
      /\ \A w \in Values : alloc.use[w] \in Nat
  BY GoingFacts DEF Inv, TypeOK
<1>4. IsLive(alloc, v) /\ alloc.live[v].place # "spill"
  BY <1>2, <1>3 DEF IsLive
<1>5. /\ Calm(alloc, t) /\ t.cell = alloc.cell /\ Keeps(alloc, t, v) /\ ~IsLive(t, v)
  BY <1>3, <1>4, FreeFacts
<1> HIDE DEF t
<1>6. Sane(t) /\ t.use = alloc.use
  BY <1>5 DEF Calm
<1>7. \A w \in Values : w # v => t.live[w] = alloc.live[w]
  BY <1>5 DEF Keeps
<1>8. PICK n \in Nat : n = idx + 1
  BY <1>3
<1>9. Right(block, t, env, n)
  <2>1. ASSUME NEW w \in Values, w # v PROVE RightAt(block, t, env, n, w)
    <3>1. RightAt(block, alloc, env, n, w) /\ alloc.use[w] \in Nat /\ n <= n
          /\ DOMAIN block.code \subseteq Nat
      BY <1>2, <1>3, <1>8, CodeNumbered DEF Right
    <3> QED BY <1>5, <1>6, <2>1, <3>1, RightKept
  <2>2. RightAt(block, t, env, n, v)
    <3>1. CASE v \in Temps
      <4>1. ~(t.use[v] >= n)
        <5>1. ~(alloc.use[v] > idx)
          BY <1>2, <1>4, <3>1 DEF Aside
        <5> QED BY <1>3, <1>6, <1>8, <5>1
      <4> QED BY <1>5, <3>1, <4>1 DEF RightAt
    <3>2. CASE v \notin Temps
      <4>1. v \in Homed /\ t.live[v].place = "dead"
        BY <1>3, <1>5, <3>2, Classes DEF IsLive
      <4>2. HomeRight(t, env, v)
        BY <1>2, <1>5, <4>1 DEF HomesRight, HomeRight
      <4>3. ~t.live[v].mut
        BY <1>3, <1>6, <4>1, SaneFacts, LiveFacts DEF Places
      <4> QED BY <1>5, <3>2, <4>1, <4>2, <4>3 DEF RightAt, VarRight, HolderIn, HomeRight
    <3> QED BY <3>1, <3>2
  <2> QED BY <2>1, <2>2 DEF Right
<1>10. HomesRight(t, env)
  BY <1>2, <1>5 DEF HomesRight, HomeRight
<1>11. \A w \in Temps : IsLive(t, w) /\ t.use[w] > idx => t.live[w].place = "spill"
  BY <1>2, <1>5, <1>6, <1>7, Classes DEF Aside, IsLive
<1>12. \A w \in Values : w \in todo' <=> t.live[w].place \in {"reg", "callee"}
  BY <1>1, <1>2, <1>5, <1>7 DEF IsLive
<1>13. Passed(t)
  BY <1>2, <1>5 DEF Passed
<1>14. Common' /\ alloc' = t /\ phase' = "clear"
  <2>1. phase \in InCall \cup {"code"} /\ phase # "release"
    BY <1>1 DEF InCall
  <2> QED BY <1>1, <1>6, <2>1, CallCommon
<1>15. InClear'
  <2>1. Params' = Params /\ idx' = idx /\ env' = env /\ block' = block
    BY <1>1 DEF Params, Ins, Keep
  <2>2. Passed(alloc)'
    BY <1>13, <1>14, <2>1 DEF Passed, Meaning
  <2>3. Aside'
    BY <1>11, <1>14, <2>1 DEF Aside
  <2>4. Right(block, t, env, idx + 1)
    BY <1>8, <1>9
  <2> QED BY <1>10, <1>12, <1>14, <2>1, <2>2, <2>3, <2>4 DEF InClear
<1> QED BY <1>14, <1>15
        DEF Follows, InCode, InSpillRegs, InSpillInter, InArgs, InRelease, InReturn, FlowCorrect

-----------------------------------------------------------------------------
\* The call itself.

LEMMA CallDest ==
  ASSUME Going, phase \in InCall
  PROVE  /\ Len(Ins.dest) \in Nat /\ DOMAIN Ins.dest = 1 .. Len(Ins.dest)
         /\ \A k \in DOMAIN Ins.dest :
              /\ Ins.dest[k] \in Temps /\ Ins.dest[k] # Callee0
              /\ k \in Nat /\ k - 1 \in Slots /\ k - 1 < Len(Ins.dest)
              /\ \A j \in DOMAIN Ins.dest : Ins.dest[j] = Ins.dest[k] => j = k
         /\ Callee0 \in Operands /\ Callee0 \notin Temps
         /\ Callee0 \in Values => Callee0 \in Homed /\ alloc.use[Callee0] = idx
<1>1. /\ WellFormed(block) /\ idx \in 0 .. End /\ idx < End /\ Ins.t = "call"
      /\ Callee0 \in Operands /\ alloc.use = FindUses(block) /\ Handled(block) /\ idx \in Nat
  BY GoingFacts, CallFacts
<1>2. idx + 1 \in DOMAIN block.code /\ Ins = block.code[idx + 1]
  BY <1>1, CodeNumbered DEF End, Ins
<1>3. PICK n \in Nat : n = Len(Ins.dest) /\ n <= NumSlots /\ DOMAIN Ins.dest = 1 .. n
  BY <1>1, InsFacts, AllocSizes
<1>4. \A k \in DOMAIN Ins.dest : Ins.dest[k] \in Temps /\ Ins.dest[k] # Callee0
  BY <1>1, <1>2 DEF WellFormed, WellFormedInstr, Callee0
<1>5. \A k \in DOMAIN Ins.dest : k \in Nat /\ k - 1 \in Slots /\ k - 1 < n
  BY <1>3, AllocSizes DEF Slots
<1>6. \A k \in DOMAIN Ins.dest : \A j \in DOMAIN Ins.dest : Ins.dest[j] = Ins.dest[k] => j = k
  BY <1>1, <1>2, <1>4 DEF Handled, Linearized
<1>7. /\ Callee0 \notin Temps
      /\ Callee0 \in Values => LastUse(block, Callee0) = (idx + 1) - 1
  BY <1>1, <1>2 DEF Handled, Sound, CallsOnce, Callee0
<1>8. (idx + 1) - 1 = idx
  BY <1>1
<1> QED BY <1>1, <1>3, <1>4, <1>5, <1>6, <1>7, <1>8, Classes DEF LastUse

\* What the callee leaves of the machine.
LEMMA CallEffectFacts ==
  ASSUME NEW s, Sane(s), idx \in Nat, Len(Ins.dest) \in Nat
  PROVE  LET u == CallEffect(s)
         IN /\ Good(u) /\ u.panic = s.panic /\ u.live = s.live /\ u.use = s.use
            /\ u.availSpills = s.availSpills /\ u.usedSpill = s.usedSpill
            /\ \A c \in Cells : c.class \notin {"reg", "callee"} => u.cell[c] = s.cell[c]
            /\ \A i \in Slots : i < Len(Ins.dest) => u.cell[Callee(i)] = Result(idx, i)
<1> DEFINE u == CallEffect(s)
<1>1. Good(s) /\ s \in States
  BY SaneFacts
<1>2. Good(u) /\ u.panic = s.panic /\ u.live = s.live
  BY <1>1, CallEffectGood
<1> DEFINE cells == [c \in Cells |->
                       CASE c.class = "reg" -> Junk
                         [] c.class = "callee" /\ c.id < Len(Ins.dest) -> Result(idx, c.id)
                         [] c.class = "callee" /\ c.id >= Len(Ins.dest)
                                               /\ c.id < Len(Params) -> Junk
                         [] OTHER -> s.cell[c]]
<1>3. u = [s EXCEPT !.cell = cells]
  BY DEF CallEffect
<1>4. ASSUME NEW c \in Cells, c.class \notin {"reg", "callee"} PROVE cells[c] = s.cell[c]
  BY <1>4
<1>5. ASSUME NEW i \in Slots, i < Len(Ins.dest) PROVE cells[Callee(i)] = Result(idx, i)
  <2>1. PICK c \in Cells : c = Callee(i) /\ c.class = "callee" /\ c.id = i
    BY CellFacts DEF Callee, Operand
  <2>2. PICK n \in Nat : n = Len(Ins.dest)
    OBVIOUS
  <2>3. i \in Nat /\ i < n /\ ~(i >= n)
    BY <1>5, <2>2, AllocSizes DEF Slots
  <2>4. cells[c] = Result(idx, i)
    BY <2>1, <2>2, <2>3
  <2> QED BY <2>1, <2>4
<1> HIDE DEF cells
<1>6. /\ u.cell = cells /\ u.use = s.use
      /\ u.availSpills = s.availSpills /\ u.usedSpill = s.usedSpill
  BY <1>1, <1>3 DEF States
<1> HIDE DEF u
<1>7. \A c \in Cells : c.class \notin {"reg", "callee"} => u.cell[c] = s.cell[c]
  BY <1>4, <1>6
<1>8. \A i \in Slots : i < Len(Ins.dest) => u.cell[Callee(i)] = Result(idx, i)
  BY <1>5, <1>6
<1> QED BY <1>2, <1>6, <1>7, <1>8 DEF u

\* The results of the call are where it left them.
LEMMA ResultsFacts ==
  ASSUME Going, phase \in InCall, NEW u, Good(u),
         \A k \in DOMAIN Ins.dest : ~InReg(u, Ins.dest[k])
  PROVE  LET t == Results(u)
         IN /\ Good(t) /\ t.panic = u.panic /\ t.use = u.use /\ t.cell = u.cell
            /\ t.availSpills = u.availSpills /\ t.usedSpill = u.usedSpill
            /\ \A k \in DOMAIN Ins.dest : t.live[Ins.dest[k]] = UseInfo("callee", k - 1, FALSE)
            /\ \A v \in Values : ~(\E k \in DOMAIN Ins.dest : Ins.dest[k] = v) =>
                 t.live[v] = u.live[v]
<1> DEFINE t == Results(u)
           live == [v \in Values |->
                      IF \E k \in DOMAIN Ins.dest : Ins.dest[k] = v
                        THEN UseInfo("callee", (CHOOSE k \in DOMAIN Ins.dest :
                                                  Ins.dest[k] = v) - 1, FALSE)
                        ELSE u.live[v]]
<1>1. Good(t) /\ t.panic = u.panic
  <2>1. /\ WellFormed(block) /\ idx \in 0 .. End /\ idx < End /\ Ins.t = "call"
    BY CallFacts, GoingFacts
  <2>2. PICK n \in 0 .. NumSlots : DOMAIN Ins.dest = 1 .. n
    BY <2>1, InsFacts
  <2>3. \A k \in 1 .. n : u.panic = "" => ~InReg(u, Ins.dest[k])
    BY <2>2
  <2> HIDE DEF t
  <2> QED BY <2>2, <2>3, ResultsGood DEF t
<1>2. t = [u EXCEPT !.live = live]
  BY DEF Results
<1>3. ASSUME NEW k \in DOMAIN Ins.dest PROVE live[Ins.dest[k]] = UseInfo("callee", k - 1, FALSE)
  <2> DEFINE v == Ins.dest[k]
  <2>1. v \in Values /\ \A j \in DOMAIN Ins.dest : Ins.dest[j] = v => j = k
    BY CallDest, Classes
  <2>2. (CHOOSE j \in DOMAIN Ins.dest : Ins.dest[j] = v) = k
    BY <2>1
  <2>3. \E j \in DOMAIN Ins.dest : Ins.dest[j] = v
    OBVIOUS
  <2> HIDE DEF v
  <2>4. live[v] = UseInfo("callee", k - 1, FALSE)
    BY <2>1, <2>2, <2>3
  <2> QED BY <2>4 DEF v
<1>4. \A v \in Values : ~(\E k \in DOMAIN Ins.dest : Ins.dest[k] = v) => live[v] = u.live[v]
  OBVIOUS
<1> HIDE DEF live
<1>5. /\ t.live = live /\ t.use = u.use /\ t.cell = u.cell
      /\ t.availSpills = u.availSpills /\ t.usedSpill = u.usedSpill
  BY <1>2 DEF Good, States
<1> HIDE DEF t
<1>6. \A k \in DOMAIN Ins.dest : t.live[Ins.dest[k]] = UseInfo("callee", k - 1, FALSE)
  BY <1>3, <1>5
<1>7. \A v \in Values : ~(\E k \in DOMAIN Ins.dest : Ins.dest[k] = v) => t.live[v] = u.live[v]
  BY <1>4, <1>5
<1> QED BY <1>1, <1>5, <1>6, <1>7 DEF t

\* The results are new values, and the callee has overwritten the rest.
LEMMA EmitCallFollows ==
  ASSUME Going, EmitCall
  PROVE  Follows'
<1> DEFINE c0 == Callee0
<1>1. PICK x \in EnsureImmediate(alloc, idx, Callee0) :
        /\ Become(Results(CallEffect(x)), "release")
        /\ env' = Defined([k \in DOMAIN Ins.dest |-> Result(idx, k - 1)])
        /\ misread' = Noted(x, Passed(x) /\ Reads(x, <<Immediate(x, Callee0)>>))
  BY DEF EmitCall
<1>2. /\ phase = "clear" /\ todo = {} /\ pos' = 0 /\ phase \in InCall /\ phase # "release"
      /\ block' = block /\ idx' = idx /\ late' = late
  BY DEF EmitCall, InCall
<1>3. /\ Right(block, alloc, env, idx + 1) /\ HomesRight(alloc, env) /\ Aside
      /\ \A v \in Values : alloc.live[v].place \notin {"reg", "callee"}
      /\ Passed(alloc)
  BY <1>2 DEF Going, Follows, InClear
<1>4. /\ Sane(alloc) /\ WellFormed(block) /\ idx \in Nat /\ idx + 1 \in Nat /\ Common
      /\ idx \in 0 .. End /\ idx < End /\ Inv /\ Handled(block)
      /\ HasItems(alloc.availRegs) /\ Len(alloc.availRegs.items) >= 1
      /\ \A v \in Values : alloc.use[v] \in Nat
  <2>1. Len(alloc.availRegs.items) >= 3 /\ Len(alloc.availRegs.items) \in Nat
    BY GoingFacts
  <2>2. Len(alloc.availRegs.items) >= 1
    BY <2>1
  <2> QED BY <1>2, <2>2, GoingFacts, CallFacts
<1>5. /\ Len(Ins.dest) \in Nat /\ c0 \in Operands /\ c0 \notin Temps
      /\ \A k \in DOMAIN Ins.dest :
           /\ Ins.dest[k] \in Temps /\ Ins.dest[k] \in Values /\ Ins.dest[k] # c0
           /\ k - 1 \in Slots /\ k - 1 < Len(Ins.dest)
  BY <1>2, CallDest, Classes
<1>6. PICK n \in Nat : n = idx + 1
  BY <1>4
<1> HIDE DEF c0
<1>7. x \in EnsureImmediate(alloc, idx, c0)
  BY <1>1 DEF c0
<1>8. /\ Calm(alloc, x) /\ Right(block, x, env, n) /\ (c0 \in Values => InReg(x, c0))
      /\ Keeps(alloc, x, c0)
  BY <1>3, <1>4, <1>5, <1>6, <1>7, OperandEnsured
<1>9. c0 \in Values => InReg(x, c0) /\ ~x.live[c0].mut
  BY <1>3, <1>4, <1>7, EnsureFacts DEF InReg
<1>10. /\ Sane(x) /\ x.use = alloc.use
       /\ \A c \in Cells : c.class # "reg" => x.cell[c] = alloc.cell[c]
       /\ \A v \in Values : v # c0 => x.live[v] = alloc.live[v]
  BY <1>8 DEF Calm, Keeps
<1>11. misread' = misread
  <2>1. Passed(x)
    <3> SUFFICES ASSUME NEW k \in DOMAIN Params PROVE x.cell[Callee(k - 1)] = Meaning(Params[k])
      BY DEF Passed
    <3>1. k - 1 \in Slots
      <4>1. DOMAIN Params = 1 .. Len(Params) /\ Len(Params) \in 0 .. NumSlots
        BY <1>2, ParamsLen
      <4> DEFINE j == Len(Params)
      <4>2. k \in 1 .. j /\ j \in 0 .. NumSlots
        BY <4>1
      <4> HIDE DEF j
      <4> QED BY <4>2, AllocSizes DEF Slots
    <3>2. Callee(k - 1) \in Cells /\ Callee(k - 1).class # "reg"
      BY <3>1, CellFacts, CellNames
    <3> QED BY <1>3, <1>10, <3>2 DEF Passed
  <2>2. Read(x, Immediate(x, c0)) = ValueOf(env, c0)
    <3>1. c0 \in Operands /\ (c0 \in Temps => env[c0] # Junk /\ x.use[c0] >= n)
      BY <1>5
    <3>2. Sane(x) /\ Right(block, x, env, n) /\ (c0 \in Values => InReg(x, c0))
      BY <1>8, <1>10
    <3> QED BY <3>1, <3>2, OperandRead
  <2>3. Reads(x, <<Immediate(x, Callee0)>>)
    <3>1. Read(x, Immediate(x, Callee0)) = Meaning(Ins.ops[1])
      BY <2>2 DEF c0, Callee0, ValueOf, Meaning
    <3> QED BY <3>1 DEF Reads
  <2> QED BY <1>1, <2>1, <2>3 DEF Noted
<1> DEFINE u == CallEffect(x)
           t == Results(u)
<1>12. /\ Good(u) /\ u.panic = x.panic /\ u.live = x.live /\ u.use = x.use
       /\ u.availSpills = x.availSpills /\ u.usedSpill = x.usedSpill
       /\ \A c \in Cells : c.class \notin {"reg", "callee"} => u.cell[c] = x.cell[c]
       /\ \A i \in Slots : i < Len(Ins.dest) => u.cell[Callee(i)] = Result(idx, i)
  BY <1>4, <1>5, <1>10, CallEffectFacts
<1>13. Become(t, "release")
  BY <1>1
<1> HIDE DEF u
<1>14. \A k \in DOMAIN Ins.dest : ~InReg(u, Ins.dest[k])
  BY <1>3, <1>5, <1>10, <1>12 DEF InReg
<1>15. /\ Good(t) /\ t.panic = u.panic /\ t.use = u.use /\ t.cell = u.cell
       /\ t.availSpills = u.availSpills /\ t.usedSpill = u.usedSpill
       /\ \A k \in DOMAIN Ins.dest : t.live[Ins.dest[k]] = UseInfo("callee", k - 1, FALSE)
       /\ \A v \in Values : ~(\E k \in DOMAIN Ins.dest : Ins.dest[k] = v) =>
            t.live[v] = u.live[v]
  BY <1>2, <1>12, <1>14, ResultsFacts
<1> HIDE DEF t
<1>16. Sane(t) /\ t.use = alloc.use
  <2>1. Fine(t)
    <3>1. Fine(x) /\ t.panic = x.panic
      BY <1>10, <1>12, <1>15 DEF Sane
    <3> QED BY <3>1, SameFine
  <2>2. ASSUME NEW w \in Values, t.live[w].place = "spill" PROVE t.live[w] = x.live[w]
    <3>1. ~ \E k \in DOMAIN Ins.dest : Ins.dest[k] = w
      <4> SUFFICES ASSUME NEW k \in DOMAIN Ins.dest, Ins.dest[k] = w PROVE FALSE
        OBVIOUS
      <4>1. t.live[w] = UseInfo("callee", k - 1, FALSE)
        BY <1>15
      <4> QED BY <2>2, <4>1 DEF UseInfo
    <3> QED BY <1>12, <1>15, <3>1
  <2>3. t.availSpills = x.availSpills /\ t.usedSpill = x.usedSpill
    BY <1>12, <1>15
  <2>4. Apart(t)
    BY <1>10, <2>2, <2>3, SameSlots
  <2> QED BY <1>10, <1>12, <1>15, <2>1, <2>4 DEF Sane
<1>17. alloc' = t /\ phase' = "release"
  BY <1>13, <1>16 DEF Become, Sane, Fine
<1>18. \A c \in Cells : c.class \notin {"reg", "callee"} => t.cell[c] = alloc.cell[c]
  BY <1>10, <1>12, <1>15
<1> DEFINE value == [k \in DOMAIN Ins.dest |-> Result(idx, k - 1)]
<1>19. env' = Defined(value)
  BY <1>1
<1>20. \A k \in DOMAIN Ins.dest : value[k] = Result(idx, k - 1) /\ value[k] # Junk
  BY DEF Result, Junk
<1> HIDE DEF value
<1>21. Common'
  <2>1. Now = idx /\ (Now = idx + 1)'
    BY <1>2, <1>17 DEF Now
  <2>2. \A v \in Values : Defined(value)[v] = Junk <=> v \in Temps /\ ~WrittenIn(block, idx + 1, v)
    BY <1>4, <1>20, <2>1, EnvNext
  <2>3. EnvDefined'
    BY <1>2, <1>19, <2>1, <2>2 DEF EnvDefined
  <2>4. NoneLate
    BY <1>4 DEF Common
  <2>5. late = <<>>
    BY <1>2, <2>4 DEF NoneLate
  <2>6. NoneLate'
    BY <1>2, <2>5 DEF NoneLate
  <2> QED BY <1>2, <1>4, <1>11, <1>16, <1>17, <2>3, <2>6 DEF Common, Sane
<1>22. HomesRight(t, env')
  <2> SUFFICES ASSUME NEW v \in Homed PROVE HomeRight(t, env', v)
    BY DEF HomesRight
  <2>1. /\ v \in Values /\ v \notin Temps /\ Home(v) \in Cells /\ Home(v).class \in {"caller", "local"}
    BY Classes
  <2>2. env'[v] = env[v]
    <3>1. \A k \in DOMAIN Ins.dest : Ins.dest[k] # v
      BY <1>5, <2>1
    <3> QED BY <1>19, <2>1, <3>1, DefinedFacts
  <2>3. t.cell[Home(v)] = alloc.cell[Home(v)]
    BY <1>18, <2>1
  <2> QED BY <1>3, <2>2, <2>3 DEF HomesRight, HomeRight
<1>23. ASSUME NEW v \in Homed, IsLive(t, v)
       PROVE  InReg(t, v) /\ ~t.live[v].mut /\ v = c0
  <2>1. v \in Values /\ v \notin Temps
    BY Classes
  <2>2. t.live[v] = x.live[v]
    BY <1>5, <1>12, <1>15, <2>1
  <2>3. v = c0
    <3> SUFFICES ASSUME v # c0 PROVE FALSE
      OBVIOUS
    <3>1. IsLive(alloc, v)
      BY <1>10, <1>23, <2>1, <2>2 DEF IsLive
    <3> QED BY <1>3, <2>1, <3>1 DEF Right, RightAt, VarRight, IsLive
  <2> QED BY <1>9, <2>1, <2>2, <2>3 DEF InReg
<1>24. ASSUME NEW v \in Temps PROVE RightAt(block, t, env', n, v)
  <2>0. v \in Values /\ v # c0
    BY <1>5, Classes
  <2>1. CASE \E k \in DOMAIN Ins.dest : Ins.dest[k] = v
    <3>1. PICK k \in DOMAIN Ins.dest : Ins.dest[k] = v /\ Defined(value)[v] = value[k]
      BY <2>0, <2>1, DefinedFacts
    <3>2. env'[v] = Result(idx, k - 1) /\ env'[v] # Junk
      BY <1>19, <1>20, <3>1
    <3>3. t.live[v] = UseInfo("callee", k - 1, FALSE)
      BY <1>15, <3>1
    <3>4. IsLive(t, v) /\ HolderIn(t, v) = Callee(k - 1)
      BY <3>3 DEF UseInfo, IsLive, HolderIn, Callee
    <3>5. t.cell[Callee(k - 1)] = Result(idx, k - 1)
      BY <1>5, <1>12, <1>15
    <3> QED BY <3>2, <3>4, <3>5 DEF RightAt, TempRight
  <2>2. CASE \A k \in DOMAIN Ins.dest : Ins.dest[k] # v
    <3>1. env'[v] = env[v]
      BY <1>19, <2>0, <2>2, DefinedFacts
    <3>2. t.live[v] = alloc.live[v]
      BY <1>10, <1>12, <1>15, <2>0, <2>2
    <3>3. (IsLive(t, v) <=> IsLive(alloc, v)) /\ HolderIn(t, v) = HolderIn(alloc, v)
      BY <3>2 DEF IsLive, HolderIn
    <3>4. IsLive(alloc, v) => t.cell[HolderIn(alloc, v)] = alloc.cell[HolderIn(alloc, v)]
      <4> SUFFICES ASSUME IsLive(alloc, v)
                   PROVE  t.cell[HolderIn(alloc, v)] = alloc.cell[HolderIn(alloc, v)]
        OBVIOUS
      <4>1. alloc.live[v].place = "spill"
        BY <1>3, <1>4, <2>0, HolderFacts DEF IsLive
      <4>2. HolderIn(alloc, v) \in Cells /\ HolderIn(alloc, v).class = "spill"
        BY <1>4, <2>0, <4>1, HolderFacts, CellNames
      <4> QED BY <1>18, <4>2
    <3>5. RightAt(block, alloc, env, n, v)
      BY <1>3, <1>6, <2>0 DEF Right
    <3> QED BY <1>16, <3>1, <3>3, <3>4, <3>5 DEF RightAt, TempRight
  <2> QED BY <2>1, <2>2
<1>25. InRelease'
  <2>1. (Callee0 = c0)'
    BY <1>2 DEF Callee0, Ins, c0
  <2>2. \A v \in Homed : IsLive(alloc', v) =>
           InReg(alloc', v) /\ ~alloc'.live[v].mut /\ v = c0 /\ pos' = 0
    BY <1>2, <1>17, <1>23
  <2>3. c0' = Callee0'
    BY <1>2 DEF Callee0, Ins, c0
  <2>4. c0 = Callee0'
    BY <1>2 DEF Callee0, Ins, c0
  <2>5. \A v \in Temps : RightAt(block', alloc', env', idx' + 1, v)
    BY <1>2, <1>6, <1>17, <1>24
  <2> QED BY <1>2, <1>17, <1>22, <2>2, <2>4, <2>5 DEF InRelease
<1> QED BY <1>17, <1>21, <1>25
        DEF Follows, InCode, InSpillRegs, InSpillInter, InArgs, InClear, InReturn, FlowCorrect

\* The operands of the call are released, the variable that was called first.
LEMMA ReleaseOperandFollows ==
  ASSUME Going, ReleaseOperand
  PROVE  Follows'
<1> DEFINE o == Ins.ops[pos + 1]
           t == FreeIfUnneeded(alloc, idx, Ins, o)
<1>1. /\ phase = "release" /\ Become(t, "release") /\ Keep /\ pos' = pos + 1
      /\ phase \in InCall /\ pos \in Nat
  BY GoingFacts DEF ReleaseOperand, InCall, Inv, TypeOK
<1>2. /\ HomesRight(alloc, env)
      /\ \A v \in Homed : IsLive(alloc, v) =>
            InReg(alloc, v) /\ ~alloc.live[v].mut /\ v = Callee0 /\ pos = 0
      /\ \A v \in Temps : RightAt(block, alloc, env, idx + 1, v)
  BY <1>1 DEF Going, Follows, InRelease
<1>3. /\ Sane(alloc) /\ WellFormed(block) /\ idx \in Nat /\ idx + 1 \in Nat /\ Common
      /\ \A v \in Values : alloc.use[v] \in Nat
  BY GoingFacts
<1>4. PICK n \in Nat : n = idx + 1
  BY <1>3
<1>5. pos = 0 => o = Callee0
  BY DEF Callee0
<1>6. /\ \A k \in DOMAIN Ins.dest : Ins.dest[k] # Callee0
      /\ Callee0 \in Values => alloc.use[Callee0] = idx
  BY <1>1, CallDest
<1> HIDE DEF o
<1>7. /\ Calm(alloc, t) /\ t.cell = alloc.cell /\ Keeps(alloc, t, o)
      /\ \/ t = alloc
         \/ /\ o \in Values /\ t.live[o] = Dead
            /\ ~ \E k \in DOMAIN Ins.dest : Ins.dest[k] = o
            /\ alloc.use[o] <= idx /\ ~alloc.live[o].mut /\ IsLive(alloc, o)
  BY <1>3, ReleaseFacts
<1>8. ASSUME NEW v \in Homed PROVE ~IsLive(t, v)
  <2>1. v \in Values /\ v \notin Temps
    BY Classes
  <2>2. CASE IsLive(alloc, v)
    <3>1. ~alloc.live[v].mut /\ v = Callee0 /\ o = v
      BY <1>2, <1>5, <2>2
    <3>2. ~IsNeeded(alloc, idx, v)
      <4>1. alloc.use[v] = idx
        BY <1>6, <2>1, <3>1
      <4> QED BY <1>3, <4>1 DEF IsNeeded
    <3>3. t = Free(alloc, v)
      BY <1>6, <2>1, <2>2, <3>1, <3>2 DEF FreeIfUnneeded
    <3> HIDE DEF t
    <3> QED BY <1>3, <2>1, <2>2, <3>3, FreeFacts
  <2>3. CASE ~IsLive(alloc, v)
    <3> HIDE DEF t
    <3>1. t.live[v] = alloc.live[v] \/ t.live[v] = Dead
      BY <1>7, <2>1 DEF Keeps
    <3> QED BY <2>3, <3>1, ValuesFacts DEF IsLive
  <2> QED BY <2>2, <2>3
<1>9. Become(t, "release")
  BY <1>1
<1> HIDE DEF t
<1>10. Sane(t) /\ t.use = alloc.use
  BY <1>7 DEF Calm
<1>11. ASSUME NEW v \in Temps PROVE RightAt(block, t, env, n, v)
  <2>1. v \in Values /\ RightAt(block, alloc, env, n, v)
    BY <1>2, <1>4, Classes
  <2>2. CASE v # o
    <3>1. n <= n /\ alloc.use[v] \in Nat /\ DOMAIN block.code \subseteq Nat
      BY <1>3, <2>1, CodeNumbered
    <3> QED BY <1>7, <1>10, <2>1, <2>2, <3>1, RightKept
  <2>3. CASE v = o /\ t = alloc
    BY <2>1, <2>3
  <2>4. CASE v = o /\ t # alloc
    <3>1. t.live[v] = Dead /\ alloc.use[v] <= idx
      BY <1>7, <2>4
    <3>2. ~IsLive(t, v)
      BY <3>1, ValuesFacts DEF IsLive
    <3>3. ~(t.use[v] >= n)
      BY <1>3, <1>4, <1>10, <2>1, <3>1
    <3> QED BY <3>2, <3>3 DEF RightAt
  <2> QED BY <2>2, <2>3, <2>4
<1>12. HomesRight(t, env)
  BY <1>2, <1>7 DEF HomesRight, HomeRight
<1>13. /\ alloc' = t /\ phase' = "release" /\ block' = block /\ idx' = idx
       /\ late' = late /\ env' = env /\ misread' = misread
  BY <1>9, <1>1, <1>10 DEF Become, Keep, Sane, Fine
<1>14. Common'
  <2>1. Now' = Now
    BY <1>1, <1>13 DEF Now
  <2>2. EnvDefined'
    BY <1>3, <1>13, <2>1 DEF Common, EnvDefined
  <2>3. NoneLate
    BY <1>3 DEF Common
  <2>4. late = <<>>
    BY <1>1, <2>3 DEF NoneLate
  <2>5. NoneLate'
    BY <1>13, <2>4 DEF NoneLate
  <2> QED BY <1>3, <1>10, <1>13, <2>2, <2>5 DEF Common, Sane
<1>15. InRelease'
  <2>1. \A v \in Homed : ~IsLive(alloc', v)
    BY <1>8, <1>13
  <2>2. \A v \in Temps : RightAt(block', alloc', env', idx' + 1, v)
    BY <1>4, <1>11, <1>13
  <2> QED BY <1>12, <1>13, <2>1, <2>2 DEF InRelease
<1> QED BY <1>13, <1>14, <1>15
        DEF Follows, InCode, InSpillRegs, InSpillInter, InArgs, InClear, InReturn, FlowCorrect

\* The call is over: the next instruction finds every value right.
LEMMA ReleasedFollows ==
  ASSUME Going, Released
  PROVE  Follows'
<1> DEFINE t == UpdateMaxCallee(alloc)
<1>1. /\ phase = "release" /\ Become(t, "code") /\ pos = Len(Ins.ops) /\ idx' = idx + 1
      /\ block' = block /\ late' = late /\ env' = env /\ misread' = misread
      /\ phase \in InCall
  BY DEF Released, InCall
<1>2. /\ HomesRight(alloc, env)
      /\ \A v \in Homed : IsLive(alloc, v) => pos = 0
      /\ \A v \in Temps : RightAt(block, alloc, env, idx + 1, v)
  BY <1>1 DEF Going, Follows, InRelease
<1>3. /\ Sane(alloc) /\ Common /\ idx \in Nat /\ alloc \in States
  BY GoingFacts, SaneFacts
<1>4. pos # 0
  <2>1. Len(Ins.ops) = Len(Params) + 1 /\ Len(Params) \in Nat
    BY <1>1, ParamsLen
  <2> DEFINE k == Len(Params)
  <2>2. k \in Nat /\ Len(Ins.ops) = k + 1
    BY <2>1
  <2> HIDE DEF k
  <2> QED BY <1>1, <2>2
<1>5. /\ t.live = alloc.live /\ t.cell = alloc.cell /\ t.use = alloc.use
      /\ t.panic = alloc.panic /\ t.availSpills = alloc.availSpills /\ t.usedSpill = alloc.usedSpill
  <2> DEFINE m == Max({alloc.maxCallee, Len(Params), Len(Ins.dest)})
  <2>1. t = [alloc EXCEPT !.maxCallee = m]
    BY DEF UpdateMaxCallee
  <2> HIDE DEF m, t
  <2> QED BY <1>3, <2>1 DEF States
<1> HIDE DEF t
<1>6. Apart(t)
  <2>1. t.availSpills = alloc.availSpills /\ t.usedSpill = alloc.usedSpill
        /\ \A w \in Values : t.live[w].place = "spill" => t.live[w] = alloc.live[w]
    BY <1>5
  <2> QED BY <1>3, <2>1, SameSlots
<1>7. alloc' = t /\ phase' = "code"
  <2>1. Fine(t)
    <3>1. Fine(alloc) /\ t.panic = alloc.panic
      BY <1>3, <1>5 DEF Sane
    <3> QED BY <3>1, SameFine
  <2> QED BY <1>1, <2>1 DEF Become, Fine
<1>8. Common'
  <2>1. Now = idx + 1 /\ (Now = idx)'
    BY <1>1, <1>7 DEF Now
  <2>2. EnvDefined'
    BY <1>1, <1>3, <2>1 DEF Common, EnvDefined
  <2>3. NoneLate
    BY <1>3 DEF Common
  <2>4. late = <<>>
    BY <1>1, <2>3 DEF NoneLate
  <2>5. NoneLate'
    BY <1>1, <2>4 DEF NoneLate
  <2> QED BY <1>1, <1>3, <1>5, <1>6, <1>7, <2>2, <2>5 DEF Common
<1>9. Right(block, t, env, idx + 1)
  <2> SUFFICES ASSUME NEW v \in Values PROVE RightAt(block, t, env, idx + 1, v)
    BY DEF Right
  <2>1. CASE v \in Temps
    BY <1>2, <1>5, <2>1 DEF RightAt, TempRight, IsLive, HolderIn
  <2>2. CASE v \notin Temps
    <3>1. v \in Homed /\ ~IsLive(alloc, v)
      BY <1>2, <1>4, <2>2, Classes
    <3>2. alloc.live[v].place = "dead" /\ ~alloc.live[v].mut
      BY <1>3, <3>1, LiveFacts DEF IsLive, Places
    <3>3. HomeRight(t, env, v)
      BY <1>2, <1>5, <3>1 DEF HomesRight, HomeRight
    <3> QED BY <1>5, <2>2, <3>2, <3>3 DEF RightAt, VarRight, HolderIn, IsLive, HomeRight
  <2> QED BY <2>1, <2>2
<1>10. InCode'
  BY <1>1, <1>7, <1>9 DEF InCode
<1> QED BY <1>7, <1>8, <1>10
        DEF Follows, InSpillRegs, InSpillInter, InArgs, InClear, InRelease, InReturn, FlowCorrect

-----------------------------------------------------------------------------
\* The end of the block.

\* What the block hands on is where it can be read.
LEMMA OutFacts ==
  ASSUME Going, phase = "code", idx = End, NEW k \in DOMAIN Outs
  PROVE  /\ Outs[k] \in Operands /\ DOMAIN Outs = 1 .. Len(Outs) /\ Len(Outs) \in Nat
         /\ Outs[k] \in Temps => TempRight(alloc, env, Outs[k])
         /\ Outs[k] \in Homed => VarRight(alloc, env, Outs[k])
<1> DEFINE o == Outs[k]
<1>1. /\ WellFormed(block) /\ Common /\ Handled(block) /\ alloc.use = FindUses(block)
      /\ Right(block, alloc, env, idx) /\ idx \in Nat
  BY GoingFacts DEF Going, Follows, InCode
<1>2. PICK n \in Nat : n = Len(block.out.v)
  BY <1>1, CodeNumbered
<1>3. /\ DOMAIN Outs = 1 .. Len(Outs) /\ Len(Outs) \in Nat /\ k \in 1 .. n
      /\ Len(block.code) \in Nat /\ Len(block.code) < RetIndex /\ idx = Len(block.code)
      /\ o \in Operands
  BY <1>1, <1>2, CodeNumbered, BlockFacts DEF Outs, End
<1>4. k - 1 \in 0 .. n - 1 /\ (k - 1) + 1 = k
  BY <1>3
<1>5. ASSUME o \in Temps PROVE TempRight(alloc, env, o)
  <2>1. o \in Values
    BY <1>5, Classes
  <2>2. RetIndex + (k - 1) <= FindUses(block)[o] /\ FindUses(block)[o] \in Nat
    BY <1>1, <1>2, <1>4, <2>1, UsesAbove DEF Outs
  <2>3. alloc.use[o] >= idx
    <3> DEFINE u == FindUses(block)[o]
    <3>1. RetIndex + (k - 1) <= u /\ u \in Nat /\ alloc.use[o] = u
      BY <1>1, <2>2
    <3> HIDE DEF u
    <3> QED BY <1>1, <1>3, <1>4, <3>1 DEF RetIndex
  <2>4. WrittenIn(block, idx, o)
    BY <1>1, <1>3, <1>5 DEF Handled, Linearized, Outs
  <2>5. Now = idx
    BY DEF Now
  <2>6. env[o] # Junk
    BY <1>1, <2>1, <2>4, <2>5 DEF Common, EnvDefined
  <2> QED BY <1>1, <1>5, <2>1, <2>3, <2>6 DEF Right, RightAt
<1>6. o \in Homed => VarRight(alloc, env, o)
  BY <1>1, Classes DEF Right, RightAt
<1> QED BY <1>3, <1>5, <1>6

\* storeLiveLocals leaves every home up to date.
LEMMA StoreLiveLocalsFacts ==
  ASSUME NEW b, NEW s, Sane(s), NEW e, NEW n, Right(b, s, e, n)
  PROVE  LET t == StoreLiveLocals(s)
         IN /\ Sane(t) /\ t.use = s.use /\ t.live = s.live /\ HomesRight(t, e)
            /\ \A c \in Cells : c.class \notin {"caller", "local"} => t.cell[c] = s.cell[c]
<1> DEFINE dirty == {v \in Locals \cup Args : InReg(s, v) /\ s.live[v].mut}
           cells == [c \in Cells |->
                       IF \E v \in dirty : Home(v) = c
                         THEN s.cell[Reg(s.live[CHOOSE v \in dirty : Home(v) = c].num)]
                         ELSE s.cell[c]]
           t == StoreLiveLocals(s)
<1>1. t = [s EXCEPT !.cell = cells]
  BY DEF StoreLiveLocals
<1>2. Good(t) /\ Good(s) /\ s \in States
  BY SaneFacts, StoreLiveLocalsGood
<1>3. dirty \subseteq Homed /\ \A v \in dirty : InReg(s, v) /\ s.live[v].mut
  BY DEF Homed
<1>4. \A v \in Homed : v \notin dirty => ~(InReg(s, v) /\ s.live[v].mut)
  BY DEF Homed
<1> HIDE DEF dirty
<1>5. ASSUME NEW v \in dirty PROVE cells[Home(v)] = e[v]
  <2>1. v \in Homed /\ v \in Values /\ v \notin Temps /\ Home(v) \in Cells /\ InReg(s, v)
    BY <1>3, Classes
  <2>2. (CHOOSE w \in dirty : Home(w) = Home(v)) = v
    <3>1. \A w \in dirty : Home(w) = Home(v) => w = v
      BY <1>3, <2>1, Classes
    <3> QED BY <3>1
  <2>3. s.cell[Reg(s.live[v].num)] = e[v]
    <3>1. HolderIn(s, v) = Reg(s.live[v].num)
      BY <2>1, HolderFacts
    <3> QED BY <2>1, <3>1 DEF Right, RightAt, VarRight
  <2>4. cells[Home(v)] = s.cell[Reg(s.live[v].num)]
    <3>1. PICK c \in Cells : c = Home(v)
      BY <2>1
    <3>2. (\E w \in dirty : Home(w) = c) /\ (CHOOSE w \in dirty : Home(w) = c) = v
      BY <2>2, <3>1
    <3> QED BY <3>1, <3>2
  <2> QED BY <2>3, <2>4
<1>6. ASSUME NEW v \in Homed, v \notin dirty PROVE cells[Home(v)] = e[v]
  <2>1. v \in Values /\ v \notin Temps /\ Home(v) \in Cells
    BY Classes
  <2>2. \A w \in dirty : Home(w) # Home(v)
    BY <1>3, <1>6, Classes
  <2>3. cells[Home(v)] = s.cell[Home(v)]
    BY <2>1, <2>2
  <2>4. VarRight(s, e, v)
    BY <2>1 DEF Right, RightAt
  <2>5. CASE InReg(s, v)
    BY <1>4, <1>6, <2>3, <2>4, <2>5 DEF VarRight, HomeRight
  <2>6. CASE ~InReg(s, v)
    BY <2>3, <2>4, <2>6 DEF VarRight, InReg, HolderIn, IsLive
  <2> QED BY <2>5, <2>6
<1>7. ASSUME NEW c \in Cells, c.class \notin {"caller", "local"} PROVE cells[c] = s.cell[c]
  <2>1. \A v \in dirty : Home(v) # c
    BY <1>3, <1>7, Classes
  <2> QED BY <2>1
<1> HIDE DEF cells
<1>8. /\ t.cell = cells /\ t.use = s.use /\ t.live = s.live /\ t.panic = s.panic
      /\ t.availSpills = s.availSpills /\ t.usedSpill = s.usedSpill
  BY <1>1, <1>2 DEF States
<1> HIDE DEF t
<1>9. Sane(t)
  <2>1. Fine(t)
    <3>1. Fine(s) /\ t.panic = s.panic
      BY <1>8 DEF Sane
    <3> QED BY <3>1, SameFine
  <2>2. /\ t.availSpills = s.availSpills /\ t.usedSpill = s.usedSpill
        /\ \A w \in Values : t.live[w].place = "spill" => t.live[w] = s.live[w]
    BY <1>8
  <2>3. Apart(t)
    BY <2>2, SameSlots
  <2> QED BY <1>2, <2>1, <2>3 DEF Sane
<1>10. HomesRight(t, e)
  BY <1>5, <1>6, <1>8 DEF HomesRight, HomeRight
<1>11. \A c \in Cells : c.class \notin {"caller", "local"} => t.cell[c] = s.cell[c]
  BY <1>7, <1>8
<1> QED BY <1>8, <1>9, <1>10, <1>11 DEF t

\* toMirc names a place that holds what the block hands on.
LEMMA FlowRead ==
  ASSUME NEW s, Sane(s), NEW e, NEW o \in Operands,
         o \in Temps => TempRight(s, e, o), o \in Homed => HomeRight(s, e, o)
  PROVE  Read(s, ToMirc(s, o)) = ValueOf(e, o)
<1>1. CASE o \in Temps
  <2>1. o \in Values /\ IsLive(s, o) /\ s.cell[HolderIn(s, o)] = e[o]
    BY <1>1, Classes DEF TempRight
  <2>2. HolderIn(s, o) \in Cells
    BY <2>1, HolderFacts
  <2>3. o \notin Locals \cup Args
    BY <1>1, Classes DEF Homed
  <2>4. ToMirc(s, o) = HolderIn(s, o)
    BY <1>1, <2>1, <2>3 DEF ToMirc, HolderIn
  <2> QED BY <2>1, <2>2, <2>4, CellRead DEF ValueOf
<1>2. CASE o \in Homed
  <2>1. o \in Values /\ o \notin Temps /\ Home(o) \in Cells
    BY <1>2, Classes
  <2>2. ToMirc(s, o) = Home(o)
    BY <1>2, <2>1 DEF ToMirc, Homed
  <2> QED BY <1>2, <2>1, <2>2, CellRead DEF ValueOf, HomeRight
<1>3. CASE o \notin Values
  <2>1. o.class \in {"lit", "global"} /\ o \notin Temps /\ o \notin Locals \cup Args
    BY <1>3 DEF Operands, Values
  <2>2. ToMirc(s, o) = o
    BY <2>1 DEF ToMirc
  <2> QED BY <1>3, <2>1, <2>2 DEF ValueOf, Read
<1> QED BY <1>1, <1>2, <1>3, Classes

\* A jump or a branch leaves every home up to date.
LEMMA LeaveBlockFollows ==
  ASSUME Going, LeaveBlock
  PROVE  Follows'
<1> DEFINE u == StoreLiveLocals(alloc)
           t == FlowOperand(u)
<1>1. /\ phase = "code" /\ idx = End /\ block.out.t \in {"jmp", "if"} /\ Keep
      /\ Become(t, "done")
  BY DEF LeaveBlock, AtEnd
<1>2. /\ Sane(alloc) /\ Right(block, alloc, env, idx) /\ WellFormed(block)
  BY <1>1, GoingFacts DEF Going, Follows, InCode
<1>3. /\ Sane(u) /\ u.use = alloc.use /\ u.live = alloc.live /\ HomesRight(u, env)
      /\ \A c \in Cells : c.class \notin {"caller", "local"} => u.cell[c] = alloc.cell[c]
  BY <1>2, StoreLiveLocalsFacts
<1> HIDE DEF u
<1>4. ASSUME NEW k \in DOMAIN Outs
      PROVE  /\ Outs[k] \in Operands
             /\ Outs[k] \in Temps => TempRight(u, env, Outs[k])
  <2>1. Outs[k] \in Operands /\ (Outs[k] \in Temps => TempRight(alloc, env, Outs[k]))
    BY <1>1, OutFacts
  <2>2. ASSUME Outs[k] \in Temps PROVE TempRight(u, env, Outs[k])
    <3> DEFINE o == Outs[k]
    <3>1. /\ o \in Values /\ o \in Temps /\ IsLive(alloc, o)
          /\ alloc.cell[HolderIn(alloc, o)] = env[o]
      BY <2>1, <2>2, Classes DEF TempRight
    <3> HIDE DEF o
    <3>2. HolderIn(u, o) = HolderIn(alloc, o) /\ IsLive(u, o)
      BY <1>3, <3>1 DEF HolderIn, IsLive
    <3>3. HolderIn(alloc, o) \in Cells /\ HolderIn(alloc, o).class \notin {"caller", "local"}
      BY <1>2, <3>1, HolderFacts, CellNames DEF IsLive, InReg
    <3>4. TempRight(u, env, o)
      BY <1>3, <3>1, <3>2, <3>3 DEF TempRight
    <3> QED BY <3>4 DEF o
  <2> QED BY <2>1, <2>2
<1>5. t = u
  BY <1>4 DEF FlowOperand, TempRight
<1> HIDE DEF t
<1>6. Common' /\ alloc' = u /\ phase' = "done"
  <2>1. phase \in InCall \cup {"code"} /\ phase # "release"
    BY <1>1
  <2> QED BY <1>1, <1>3, <1>5, <2>1, CallCommon
<1>7. FlowCorrect'
  <2>1. block' = block /\ env' = env /\ Outs' = Outs
    BY <1>1 DEF Keep, Outs
  <2>2. \A v \in Locals \cup Args : u.cell[Home(v)] = env[v]
    BY <1>3 DEF HomesRight, HomeRight, Homed
  <2>3. ASSUME block.out.t = "if" PROVE Read(u, ToMirc(u, Outs[1])) = Meaning(Outs[1])
    <3>1. 1 \in DOMAIN Outs
      <4>1. Len(Outs) = 1 /\ Outs \in Seq(Operands)
        BY <1>2, <2>3 DEF WellFormed, WellFormedFlow, Outs
      <4> QED BY <4>1, LenProperties
    <3> DEFINE o == Outs[1]
    <3>2. /\ o \in Operands /\ (o \in Temps => TempRight(u, env, o))
          /\ (o \in Homed => HomeRight(u, env, o))
      BY <1>3, <1>4, <3>1 DEF HomesRight
    <3> HIDE DEF o
    <3>3. Read(u, ToMirc(u, o)) = ValueOf(env, o)
      BY <1>3, <3>2, FlowRead
    <3> QED BY <3>3 DEF o, ValueOf, Meaning
  <2>4. Meaning(Outs[1])' = Meaning(Outs[1])
    BY <2>1 DEF Meaning
  <2> QED BY <1>1, <1>6, <2>1, <2>2, <2>3, <2>4 DEF FlowCorrect
<1> QED BY <1>6, <1>7
        DEF Follows, InCode, InSpillRegs, InSpillInter, InArgs, InClear, InRelease, InReturn

\* An exit finds its code.
LEMMA LeaveProgramFollows ==
  ASSUME Going, LeaveProgram
  PROVE  Follows'
<1> DEFINE t == FlowOperand(alloc)
           o == Outs[1]
<1>1. /\ phase = "code" /\ idx = End /\ block.out.t = "exit" /\ Keep /\ Become(t, "done")
  BY DEF LeaveProgram, AtEnd
<1>2. /\ Sane(alloc) /\ Right(block, alloc, env, idx) /\ WellFormed(block) /\ Handled(block)
  BY <1>1, GoingFacts DEF Going, Follows, InCode
<1>3. \A k \in DOMAIN Outs : /\ Outs[k] \in Operands
                             /\ Outs[k] \in Temps => TempRight(alloc, env, Outs[k])
  BY <1>1, OutFacts
<1>4. t = alloc
  BY <1>3 DEF FlowOperand, TempRight
<1> HIDE DEF t
<1>5. Common' /\ alloc' = alloc /\ phase' = "done"
  <2>1. phase \in InCall \cup {"code"} /\ phase # "release"
    BY <1>1
  <2> QED BY <1>1, <1>2, <1>4, <2>1, CallCommon
<1>6. 1 \in DOMAIN Outs
  <2>1. Len(Outs) = 1 /\ Outs \in Seq(Operands)
    BY <1>1, <1>2 DEF WellFormed, WellFormedFlow, Outs
  <2> QED BY <2>1, LenProperties
<1>7. Read(alloc, ToMirc(alloc, o)) = Meaning(o)
  <2>1. o \in Operands /\ (o \in Temps => TempRight(alloc, env, o))
    BY <1>3, <1>6
  <2>2. ASSUME o \in Homed PROVE HomeRight(alloc, env, o)
    <3>1. o \in Values /\ o \notin Temps
      BY <2>2, Classes
    <3>2. ~WrittenIn(block, idx, o)
      BY <1>1, <1>2, <2>2 DEF Handled, Sound, ExitsClean, End, Outs
    <3>3. ~alloc.live[o].mut /\ VarRight(alloc, env, o)
      BY <1>2, <3>1, <3>2 DEF Right, RightAt
    <3> QED BY <3>3 DEF VarRight
  <2> HIDE DEF o
  <2>3. Read(alloc, ToMirc(alloc, o)) = ValueOf(env, o)
    BY <1>2, <2>1, <2>2, FlowRead
  <2> QED BY <2>3 DEF ValueOf, Meaning
<1>8. FlowCorrect'
  <2>1. block' = block /\ env' = env /\ Outs' = Outs
    BY <1>1 DEF Keep, Outs
  <2>2. Meaning(Outs[1])' = Meaning(Outs[1])
    BY <2>1 DEF Meaning
  <2> QED BY <1>1, <1>5, <1>7, <2>1, <2>2 DEF FlowCorrect
<1> QED BY <1>5, <1>8
        DEF Follows, InCode, InSpillRegs, InSpillInter, InArgs, InClear, InRelease, InReturn

\* A return begins with every result readable.
LEMMA BeginReturnFollows ==
  ASSUME Going, BeginReturn
  PROVE  Follows'
<1>1. /\ phase = "code" /\ idx = End /\ block.out.t = "return" /\ Keep /\ alloc' = alloc
      /\ phase' = "return" /\ pos' = 0
  BY DEF BeginReturn, AtEnd
<1>2. Common'
  <2>1. Become(alloc, "return") /\ Sane(alloc) /\ phase \in InCall \cup {"code"}
    BY <1>1, GoingFacts DEF Become, Sane, Fine
  <2> QED BY <1>1, <2>1, CallCommon
<1>3. late = <<>>
  <2>1. NoneLate
    BY GoingFacts DEF Common
  <2> QED BY <1>1, <2>1 DEF NoneLate
<1>4. ASSUME NEW p \in DOMAIN Outs
      PROVE  p \in Nat /\ p > 0 /\ Readable(alloc, env, Outs[p])
  <2>1. /\ DOMAIN Outs = 1 .. Len(Outs) /\ Len(Outs) \in Nat
        /\ Outs[p] \in Temps => TempRight(alloc, env, Outs[p])
        /\ Outs[p] \in Homed => VarRight(alloc, env, Outs[p])
    BY <1>1, OutFacts
  <2>2. p \in Nat /\ p > 0
    BY <2>1
  <2> QED BY <2>1, <2>2, Classes DEF Readable, TempRight, VarRight
<1>5. InReturn'
  <2>1. /\ block' = block /\ env' = env /\ Outs' = Outs /\ idx' = idx /\ End' = End /\ late' = late
    BY <1>1 DEF Keep, Outs, End
  <2>2. Len(Outs) \in Nat
    BY GoingFacts, BlockFacts DEF Outs
  <2>3. \A p \in DOMAIN Outs : Later(p)'
    BY <1>1, <1>4 DEF Later
  <2>4. \A p \in DOMAIN Outs : Readable(alloc', env', Outs[p])
    BY <1>1, <1>4, <2>1
  <2>5. pos' <= Len(Outs)
    BY <1>1, <2>2
  <2>6. DOMAIN late' = {}
    BY <1>3, <2>1
  <2>7. /\ \A k \in DOMAIN late' : late'[k] < pos'
        /\ \A j, k \in DOMAIN late' : late'[j] = late'[k] => j = k
    BY <2>6
  <2> QED BY <1>1, <2>1, <2>3, <2>4, <2>5, <2>7 DEF InReturn
<1> QED BY <1>1, <1>2, <1>5
        DEF Follows, InCode, InSpillRegs, InSpillInter, InArgs, InClear, InRelease, FlowCorrect

-----------------------------------------------------------------------------
\* transformReturn.

\* Values may be brought into registers, and stay what they are.
Holds(s, t) ==
  \A w \in Values : IsLive(s, w) \/ w \in Homed =>
    /\ IsLive(s, w) => IsLive(t, w)
    /\ t.cell[HolderIn(t, w)] = s.cell[HolderIn(s, w)]

\* Two steps that keep what can be read.
LEMMA HoldsTwice ==
  ASSUME NEW s, NEW t, NEW u, Holds(s, t), Holds(t, u)
  PROVE  Holds(s, u)
BY DEF Holds

LEMMA EnsureHolds ==
  ASSUME NEW s, Sane(s), NEW i, NEW o \in Operands, HasItems(s.availRegs),
         NEW t \in EnsureImmediate(s, i, o)
  PROVE  /\ Holds(s, t) /\ Calm(s, t)
         /\ o \in Values => InReg(t, o)
         /\ \A w \in Values : InReg(s, w) => t.live[w] = s.live[w]
<1>1. CASE o \in Values
  <2>1. /\ Calm(s, t) /\ InReg(t, o) /\ Keeps(s, t, o) /\ (InReg(s, o) => t = s)
        /\ IsLive(s, o) \/ o \in Homed => t.cell[HolderIn(t, o)] = s.cell[HolderIn(s, o)]
    BY <1>1, EnsureFacts
  <2>2. ASSUME NEW w \in Values, IsLive(s, w) \/ w \in Homed
        PROVE  /\ IsLive(s, w) => IsLive(t, w)
               /\ t.cell[HolderIn(t, w)] = s.cell[HolderIn(s, w)]
    <3>1. CASE w = o
      <4>1. IsLive(t, o)
        BY <2>1 DEF InReg, IsLive
      <4> QED BY <2>1, <2>2, <3>1, <4>1
    <3>2. CASE w # o
      <4>1. HolderIn(t, w) = HolderIn(s, w) /\ (IsLive(t, w) <=> IsLive(s, w))
        BY <2>1, <3>2, StillRight
      <4>2. t.cell[HolderIn(s, w)] = s.cell[HolderIn(s, w)]
        BY <2>1, <2>2, <3>2 DEF Keeps
      <4> QED BY <4>1, <4>2
    <3> QED BY <3>1, <3>2
  <2>3. \A w \in Values : InReg(s, w) => t.live[w] = s.live[w]
    BY <2>1 DEF Keeps
  <2> QED BY <2>1, <2>2, <2>3 DEF Holds
<1>2. CASE o \notin Values
  <2>1. t = s
    BY <1>2 DEF EnsureImmediate
  <2> QED BY <1>2, <2>1, CalmSelf DEF Holds
<1> QED BY <1>1, <1>2

LEMMA ReadableHolds ==
  ASSUME NEW s, NEW t, Holds(s, t), NEW e, NEW o, Readable(s, e, o)
  PROVE  Readable(t, e, o)
BY Classes DEF Holds, Readable

\* Result i is written: what is elsewhere can still be read.
LEMMA WrittenReadable ==
  ASSUME NEW s, Sane(s), NEW i \in Slots, NEW t, NEW y, NEW to, to = Caller(i), Wrote(s, t, to, y),
         NEW e, NEW o, Readable(s, e, o), o = Arg(i) => IsLive(s, o)
  PROVE  Readable(t, e, o)
<1> SUFFICES ASSUME o \in Values
             PROVE  /\ o \in Temps => IsLive(t, o)
                    /\ t.cell[HolderIn(t, o)] = e[o]
  BY DEF Readable
<1>1. (IsLive(t, o) <=> IsLive(s, o)) /\ HolderIn(t, o) = HolderIn(s, o)
  BY DEF Wrote, IsLive, HolderIn
<1>2. (o \in Temps => IsLive(s, o)) /\ s.cell[HolderIn(s, o)] = e[o]
  BY DEF Readable
<1>3. HolderIn(s, o) \in Cells /\ HolderIn(s, o) # to
  <2>1. HolderIn(s, o) \in Cells
    BY <1>2, HolderFacts, Classes
  <2>2. CASE IsLive(s, o)
    BY <2>2, HolderFacts, CellNames DEF IsLive, InReg
  <2>3. CASE ~IsLive(s, o)
    <3>1. HolderIn(s, o) = Home(o) /\ o \in Homed /\ o # Arg(i)
      BY <1>2, <2>3, HolderFacts, Classes
    <3>2. CASE o \in Args
      <4>1. PICK j \in 0 .. NumArgs - 1 : o = Arg(j)
        BY <3>2 DEF Args
      <4>2. Home(o) = Caller(j) /\ j # i
        BY <3>1, <4>1 DEF Home, Arg, Operand
      <4>3. Caller(j) # Caller(i)
        BY <4>2, CellNames
      <4> QED BY <2>1, <3>1, <4>2, <4>3
    <3>3. CASE o \in Locals
      <4>1. Home(o).class = "local"
        BY <3>3 DEF Locals, Var, Operand, Home, Local
      <4>2. to.class = "caller"
        BY CellNames
      <4> QED BY <2>1, <3>1, <4>1, <4>2
    <3> QED BY <3>1, <3>2, <3>3 DEF Homed
  <2> QED BY <2>1, <2>2, <2>3
<1>4. t.cell[HolderIn(s, o)] = s.cell[HolderIn(s, o)]
  BY <1>3, SaneFacts DEF Wrote
<1> QED BY <1>1, <1>2, <1>4

LEMMA FreedReadable ==
  ASSUME NEW s, NEW t, NEW v, Keeps(s, t, v), NEW e, NEW o, o # v, Readable(s, e, o)
  PROVE  Readable(t, e, o)
<1> SUFFICES ASSUME o \in Values
             PROVE  /\ o \in Temps => IsLive(t, o)
                    /\ t.cell[HolderIn(t, o)] = e[o]
  BY DEF Readable
<1>1. HolderIn(t, o) = HolderIn(s, o) /\ (IsLive(t, o) <=> IsLive(s, o))
  BY StillRight
<1>2. (o \in Temps => IsLive(s, o)) /\ s.cell[HolderIn(s, o)] = e[o]
  BY DEF Readable
<1>3. t.cell[HolderIn(s, o)] = s.cell[HolderIn(s, o)]
  BY <1>1, <1>2, Classes DEF Keeps
<1> QED BY <1>1, <1>2, <1>3

LEMMA MoveArgFacts ==
  ASSUME NEW s, Sane(s), NEW i \in Nat, HasItems(s.availRegs), NEW x \in MoveArgIfNeeded(s, i)
  PROVE  /\ Holds(s, x) /\ Calm(s, x)
         /\ \A w \in Values : InReg(s, w) => x.live[w] = s.live[w]
         /\ i < NumArgs /\ IsNeeded(s, RetIndex + i, Arg(i)) => InReg(x, Arg(i))
         /\ Len(x.availRegs.items) >= Len(s.availRegs.items) - 1
<1>1. CASE i < NumArgs /\ IsNeeded(s, RetIndex + i, Arg(i))
  <2>1. Arg(i) \in Values /\ Arg(i) \in Operands
    <3>1. i \in 0 .. NumArgs - 1
      BY <1>1, PirSizes
    <3> QED BY <3>1, ValuesFacts DEF Args, Values
  <2>2. x \in EnsureImmediate(s, End, Arg(i))
    BY <1>1 DEF MoveArgIfNeeded
  <2>3. Len(x.availRegs.items) >= Len(s.availRegs.items) - 1
    BY <2>1, <2>2, EnsureFacts
  <2> QED BY <2>1, <2>2, <2>3, EnsureHolds
<1>2. CASE ~(i < NumArgs /\ IsNeeded(s, RetIndex + i, Arg(i)))
  <2>1. x = s
    BY <1>2 DEF MoveArgIfNeeded
  <2>2. Len(s.availRegs.items) \in Nat
    BY SaneFacts
  <2> DEFINE k == Len(s.availRegs.items)
  <2>3. k >= k - 1
    <3>1. k \in Nat
      BY <2>2
    <3> HIDE DEF k
    <3> QED BY <3>1
  <2> QED BY <1>2, <2>1, <2>3, CalmSelf DEF Holds
<1> QED BY <1>1, <1>2

\* What is known at every step of a return.
LEMMA ReturnFacts ==
  ASSUME Going, phase = "return"
  PROVE  /\ pos \in Nat /\ block.out.t = "return" /\ idx = End
         /\ Len(Outs) \in Nat /\ pos <= Len(Outs) /\ DOMAIN Outs = 1 .. Len(Outs)
         /\ late \in Seq(0 .. Len(Outs) - 1)
         /\ \A k \in DOMAIN late : late[k] < pos
         /\ \A j, k \in DOMAIN late : late[j] = late[k] => j = k
         /\ \A p \in DOMAIN Outs :
              /\ Outs[p] \in Operands /\ p \in Nat /\ p - 1 \in Slots /\ p - 1 \in Nat
              /\ Outs[p] \in Values => \A q \in DOMAIN Outs : Outs[q] = Outs[p] => p = q
              /\ Later(p) => Readable(alloc, env, Outs[p])
              /\ ~Later(p) => alloc.cell[Caller(p - 1)] = Meaning(Outs[p])
<1>1. /\ pos <= Len(Outs) /\ block.out.t = "return" /\ idx = End
      /\ \A k \in DOMAIN late : late[k] < pos
      /\ \A j, k \in DOMAIN late : late[j] = late[k] => j = k
      /\ \A p \in DOMAIN Outs :
           IF Later(p) THEN Readable(alloc, env, Outs[p])
           ELSE alloc.cell[Caller(p - 1)] = Meaning(Outs[p])
  BY DEF Going, Follows, InReturn
<1>2. WellFormed(block) /\ Handled(block) /\ pos \in Nat /\ late \in Seq(0 .. Len(Outs) - 1)
  BY GoingFacts, EndFacts
<1>3. PICK n \in Nat : n = Len(Outs) /\ DOMAIN Outs = 1 .. n /\ n <= NumSlots
  <2>1. DOMAIN Outs = 1 .. Len(Outs) /\ Len(Outs) \in Nat
    BY <1>2, CodeNumbered DEF Outs
  <2>2. Len(Outs) <= NumSlots
    BY <1>2 DEF WellFormed, Outs
  <2> QED BY <2>1, <2>2
<1>4. \A p \in 1 .. n : p \in Nat /\ p - 1 \in Slots /\ p - 1 \in Nat
  BY <1>3, AllocSizes DEF Slots
<1>5. \A p \in DOMAIN Outs : Outs[p] \in Operands
  BY <1>2, <1>3, BlockFacts
<1>6. \A p \in DOMAIN Outs : Outs[p] \in Values =>
         \A q \in DOMAIN Outs : Outs[q] = Outs[p] => p = q
  BY <1>1, <1>2 DEF Handled, Sound, ReturnsInOrder, Outs
<1> QED BY <1>1, <1>2, <1>3, <1>4, <1>5, <1>6

\* An argument whose home is about to receive another's result is wanted by a
\* later one: it is moved.
LEMMA ArgNeeded ==
  ASSUME Going, phase = "return", NEW q \in DOMAIN Outs, NEW i \in Nat, Outs[q] = Arg(i), q # i + 1
  PROVE  i < NumArgs /\ IsNeeded(alloc, RetIndex + i, Arg(i))
<1>1. /\ WellFormed(block) /\ Handled(block) /\ alloc.use = FindUses(block)
  BY GoingFacts
<1>2. /\ Outs[q] \in Operands /\ q \in Nat /\ q - 1 \in Nat /\ block.out.t = "return"
      /\ DOMAIN Outs = 1 .. Len(Outs) /\ Len(Outs) \in Nat
  BY ReturnFacts
<1>3. Arg(i) \in Args
  <2>1. PICK o : o = Arg(i) /\ o \in Operands
    BY <1>2
  <2>2. o.class = "arg"
    BY <2>1 DEF Arg, Operand
  <2>3. o \in Values
    BY <2>1, <2>2 DEF Operands
  <2>4. o \notin Temps
    BY <2>2, Classes
  <2>5. \A v \in Locals : v.class = "var"
    BY DEF Locals, Var, Operand
  <2>6. o \notin Locals
    BY <2>2, <2>5
  <2> QED BY <2>1, <2>3, <2>4, <2>6 DEF Values
<1>4. i < NumArgs
  <2>1. PICK j \in 0 .. NumArgs - 1 : Arg(j) = Arg(i)
    BY <1>3 DEF Args
  <2>2. j = i
    BY <2>1 DEF Arg, Operand
  <2> QED BY <2>2, PirSizes
<1>5. Arg(i).id = i /\ Arg(i) \in Values
  BY <1>3 DEF Arg, Operand, Values
<1>6. i < q
  BY <1>1, <1>2, <1>3, <1>5 DEF Handled, Sound, ReturnsInOrder, Outs
<1>7. PICK j \in 0 .. Len(block.out.v) - 1 : j = q - 1 /\ q = j + 1
  BY <1>2 DEF Outs
<1>8. RetIndex + j <= FindUses(block)[Arg(i)] /\ FindUses(block)[Arg(i)] \in Nat
  BY <1>1, <1>5, <1>7, UsesAbove DEF Outs
<1>9. FindUses(block)[Arg(i)] > RetIndex + i
  <2> DEFINE u == FindUses(block)[Arg(i)]
  <2>1. RetIndex + j <= u /\ u \in Nat
    BY <1>8
  <2>2. j > i /\ j \in Nat
    BY <1>2, <1>6, <1>7
  <2> HIDE DEF u
  <2>3. u > RetIndex + i
    BY <2>1, <2>2 DEF RetIndex
  <2> QED BY <2>3 DEF u
<1> QED BY <1>1, <1>4, <1>9 DEF IsNeeded

LEMMA ReturnCommon ==
  ASSUME Going, phase = "return", NEW t, Sane(t), t.use = alloc.use,
         NEW next, next \notin {"panicked", "release"}, Become(t, next),
         block' = block, idx' = idx, env' = env, misread' = misread, NoneLate'
  PROVE  Common' /\ alloc' = t /\ phase' = next
<1>1. alloc' = t /\ phase' = next
  BY DEF Become, Sane, Fine
<1> QED BY <1>1, StayCommon DEF Sane

\* One result goes to its slot: the ones before stay there, the ones still to
\* come stay readable.
LEMMA ResultStored ==
  ASSUME Going, phase = "return", NEW p \in DOMAIN Outs, NEW i, i = p - 1,
         NEW x \in MoveArgIfNeeded(alloc, i),
         NEW y, Holds(x, y), Calm(x, y), \A w \in Values : InReg(x, w) => y.live[w] = x.live[w],
         NEW from, Read(y, from) = Meaning(Outs[p]),
         NEW m, m = Store(y, from, Caller(i))
  PROVE  /\ Sane(m) /\ m.use = alloc.use /\ m.live = y.live
         /\ m.cell[Caller(i)] = Meaning(Outs[p])
         /\ HomesTake(alloc, m, env, env)
         /\ \A q \in DOMAIN Outs : q # p =>
              /\ Later(q) => Readable(m, env, Outs[q])
              /\ ~Later(q) => m.cell[Caller(q - 1)] = Meaning(Outs[q])
<1> DEFINE to == Caller(i)
<1>1. /\ \A q \in DOMAIN Outs :
              /\ Outs[q] \in Operands /\ q \in Nat /\ q - 1 \in Slots /\ q - 1 \in Nat
              /\ Later(q) => Readable(alloc, env, Outs[q])
              /\ ~Later(q) => alloc.cell[Caller(q - 1)] = Meaning(Outs[q])
  BY ReturnFacts
<1>2. Sane(alloc) /\ HasItems(alloc.availRegs)
  BY GoingFacts
<1>3. i \in Nat /\ i \in Slots /\ p = i + 1 /\ to \in Cells /\ to.class = "caller"
  BY <1>1, CellFacts, CellNames
<1>4. /\ Holds(alloc, x) /\ Calm(alloc, x)
      /\ i < NumArgs /\ IsNeeded(alloc, RetIndex + i, Arg(i)) => InReg(x, Arg(i))
  BY <1>2, <1>3, MoveArgFacts
<1>5. Calm(alloc, y) /\ Holds(alloc, y)
  BY <1>4, CalmTwice, HoldsTwice
<1>6. Sane(y) /\ y.use = alloc.use /\ \A c \in Cells : c.class # "reg" => y.cell[c] = alloc.cell[c]
  BY <1>5 DEF Calm
<1>7. PICK z : z = Meaning(Outs[p])
  OBVIOUS
<1>8. z \in Tokens
  <2>1. env \in [Values -> Tokens]
    BY GoingFacts DEF Inv, TypeOK
  <2> QED BY <1>1, <1>7, <2>1 DEF Meaning, Tokens
<1>9. to = Caller(i) /\ m = Store(y, from, to)
  OBVIOUS
<1> HIDE DEF to
<1>10. Sane(m) /\ m.use = y.use /\ m.live = y.live /\ Wrote(y, m, to, z)
  BY <1>3, <1>6, <1>7, <1>8, <1>9, StoreFacts
<1>11. /\ m.cell[to] = z
       /\ \A c \in Cells : c # to => m.cell[c] = y.cell[c]
  BY <1>3, <1>6, <1>10, SaneFacts DEF Wrote
<1>12. ASSUME NEW q \in DOMAIN Outs, q # p, Later(q) PROVE Readable(m, env, Outs[q])
  <2> DEFINE o == Outs[q]
  <2>1. Readable(y, env, o)
    BY <1>1, <1>5, <1>12, ReadableHolds
  <2>2. o = Arg(i) => IsLive(y, o)
    <3> SUFFICES ASSUME o = Arg(i) PROVE IsLive(y, o)
      OBVIOUS
    <3>1. i < NumArgs /\ IsNeeded(alloc, RetIndex + i, Arg(i))
      BY <1>3, <1>12, ArgNeeded
    <3>2. InReg(x, o) /\ o \in Values
      <4>1. i \in 0 .. NumArgs - 1
        BY <1>3, <3>1, PirSizes
      <4>2. Arg(i) \in Values
        BY <4>1 DEF Args, Values
      <4> QED BY <1>4, <3>1, <4>2
    <3> HIDE DEF o
    <3>3. y.live[o] = x.live[o]
      BY <3>2
    <3> QED BY <3>2, <3>3 DEF InReg, IsLive
  <2> HIDE DEF o
  <2>3. Readable(m, env, o)
    BY <1>3, <1>6, <1>9, <1>10, <2>1, <2>2, WrittenReadable
  <2> QED BY <2>3 DEF o
<1>13. ASSUME NEW q \in DOMAIN Outs, q # p, ~Later(q) PROVE m.cell[Caller(q - 1)] = Meaning(Outs[q])
  <2>1. Caller(q - 1) \in Cells /\ Caller(q - 1).class = "caller"
    BY <1>1, CellFacts, CellNames
  <2>2. q - 1 # i
    BY <1>1, <1>3, <1>13
  <2>3. Caller(q - 1) # to
    BY <1>9, <2>2, CellNames
  <2>4. m.cell[Caller(q - 1)] = alloc.cell[Caller(q - 1)]
    BY <1>6, <1>11, <2>1, <2>3
  <2> QED BY <1>1, <1>13, <2>4
<1>14. m.cell[Caller(i)] = Meaning(Outs[p])
  BY <1>7, <1>9, <1>11
<1>15. \A v \in Locals : m.cell[Home(v)] = alloc.cell[Home(v)]
  BY <1>3, <1>6, <1>11, LocalHomes
<1>16. HomesTake(alloc, m, env, env)
  BY <1>15, HomesAlone
<1> QED BY <1>6, <1>10, <1>12, <1>13, <1>14, <1>16

\* What is stored next makes the invariant of the return.
LEMMA InReturnNext ==
  ASSUME Going, phase = "return", phase' = "return", block' = block, idx' = idx, env' = env,
         pos' <= Len(Outs),
         \A k \in DOMAIN late' : late'[k] < pos',
         \A j, k \in DOMAIN late' : late'[j] = late'[k] => j = k,
         \A q \in DOMAIN Outs : /\ Later(q)' => Readable(alloc', env, Outs[q])
                                /\ ~Later(q)' => alloc'.cell[Caller(q - 1)] = Meaning(Outs[q])
  PROVE  InReturn'
<1>1. block.out.t = "return" /\ idx = End
  BY ReturnFacts
<1>2. Outs' = Outs /\ End' = End
  BY DEF Outs, End
<1>3. \A q \in DOMAIN Outs : Meaning(Outs[q])' = Meaning(Outs[q])
  BY <1>2 DEF Meaning
<1> QED BY <1>1, <1>2, <1>3 DEF InReturn

LEMMA ReturningFollows ==
  ASSUME phase' = "return", Common', InReturn'
  PROVE  Follows'
BY DEF Follows, InCode, InSpillRegs, InSpillInter, InArgs, InClear, InRelease, FlowCorrect

\* A result that is in a register is stored at once.
LEMMA ReturnFromRegisterFollows ==
  ASSUME Going, ReturnFromRegister
  PROVE  Follows' /\ HomesStep
<1> DEFINE v == Outs[pos + 1]
           p == pos + 1
           from == Reg(alloc.live[v].num)
<1>1. PICK x \in MoveArgIfNeeded(alloc, pos) :
        Become(Free(Store(x, from, Caller(pos)), v), "return")
  BY DEF ReturnFromRegister
<1>2. /\ phase = "return" /\ pos < Len(Outs) /\ v \in Values /\ InReg(alloc, v)
      /\ pos' = pos + 1 /\ block' = block /\ idx' = idx /\ late' = late /\ env' = env
      /\ misread' = misread
  BY DEF ReturnFromRegister, Keep
<1>3. /\ pos \in Nat /\ Len(Outs) \in Nat /\ DOMAIN Outs = 1 .. Len(Outs)
      /\ \A k \in DOMAIN late : late[k] < pos
      /\ \A j, k \in DOMAIN late : late[j] = late[k] => j = k
      /\ late \in Seq(0 .. Len(Outs) - 1)
  BY <1>2, ReturnFacts
<1>4. p \in DOMAIN Outs /\ pos = p - 1 /\ p > pos /\ p <= Len(Outs) /\ p \in Nat
  BY <1>2, <1>3
<1>5. /\ Readable(alloc, env, v)
      /\ \A q \in DOMAIN Outs : q # p => Outs[q] # v
  BY <1>2, <1>4, ReturnFacts DEF Later
<1>6. Sane(alloc) /\ HasItems(alloc.availRegs)
  BY GoingFacts
<1> HIDE DEF v
<1>7. Holds(alloc, x) /\ Calm(alloc, x) /\ x.live[v] = alloc.live[v]
  BY <1>1, <1>2, <1>3, <1>6, MoveArgFacts
<1>8. Sane(x)
  BY <1>7 DEF Calm
<1>9. InReg(x, v) /\ from = HolderIn(x, v) /\ from \in Cells
  <2>1. InReg(x, v)
    BY <1>2, <1>7 DEF InReg
  <2>2. HolderIn(x, v) = Reg(x.live[v].num) /\ IsLive(x, v) /\ HolderIn(x, v) \in Cells
    BY <1>2, <1>8, <2>1, HolderFacts
  <2> QED BY <1>7, <2>1, <2>2
<1>10. Readable(x, env, v)
  BY <1>5, <1>7, ReadableHolds
<1>11. Read(x, from) = Meaning(v)
  BY <1>2, <1>9, <1>10, CellRead DEF Readable, Meaning
<1> HIDE DEF from, p
<1>12. Meaning(Outs[p]) = Meaning(v)
  BY DEF p, v
<1>13. PICK m : m = Store(x, from, Caller(pos))
  OBVIOUS
<1>14. /\ Sane(m) /\ m.use = alloc.use /\ m.live = x.live
       /\ m.cell[Caller(pos)] = Meaning(Outs[p])
       /\ HomesTake(alloc, m, env, env)
       /\ \A q \in DOMAIN Outs : q # p =>
            /\ Later(q) => Readable(m, env, Outs[q])
            /\ ~Later(q) => m.cell[Caller(q - 1)] = Meaning(Outs[q])
  <2>1. Holds(x, x) /\ Calm(x, x) /\ \A w \in Values : InReg(x, w) => x.live[w] = x.live[w]
    BY <1>8, CalmSelf DEF Holds
  <2>2. Read(x, from) = Meaning(Outs[p])
    BY <1>11, <1>12
  <2> QED BY <1>1, <1>2, <1>4, <1>13, <2>1, <2>2, ResultStored
<1>15. IsLive(m, v)
  BY <1>9, <1>14 DEF InReg, IsLive
<1>16. PICK u : u = Free(m, v)
  OBVIOUS
<1>17. Calm(m, u) /\ u.cell = m.cell /\ Keeps(m, u, v)
  BY <1>2, <1>14, <1>15, <1>16, FreeFacts
<1>18. Sane(u) /\ u.use = alloc.use
  BY <1>14, <1>17 DEF Calm
<1>19. Become(u, "return")
  BY <1>1, <1>13, <1>16
<1>20. Common' /\ alloc' = u /\ phase' = "return"
  <2>1. NoneLate'
    BY <1>19, <1>18 DEF NoneLate, Become, Sane, Fine
  <2> QED BY <1>2, <1>18, <1>19, <2>1, ReturnCommon
<1>21. ASSUME NEW q \in DOMAIN Outs
       PROVE  /\ Later(q)' => Readable(u, env, Outs[q])
              /\ ~Later(q)' => u.cell[Caller(q - 1)] = Meaning(Outs[q])
  <2>1. q \in Nat
    BY <1>3
  <2>2. CASE q = p
    <3>1. ~Later(q)'
      <4>1. ~(q > pos')
        BY <1>2, <1>4, <2>2 DEF p
      <4>2. \A k \in DOMAIN late : late[k] # q - 1
        <5>1. q - 1 = pos
          BY <1>4, <2>2
        <5>2. \A k \in DOMAIN late : late[k] # pos
          BY <1>3, ElementOfSeq, LenProperties
        <5> QED BY <5>1, <5>2
      <4> QED BY <1>2, <4>1, <4>2 DEF Later
    <3> QED BY <1>4, <1>14, <1>17, <2>2, <3>1
  <2>3. CASE q # p
    <3>1. Later(q)' <=> Later(q)
      <4>1. q > pos' <=> q > pos
        BY <1>2, <1>3, <2>1, <2>3 DEF p
      <4> QED BY <1>2, <4>1 DEF Later
    <3>2. Outs[q] # v
      BY <1>5, <2>3
    <3>3. Later(q) => Readable(u, env, Outs[q])
      BY <1>14, <1>17, <2>3, <3>2, FreedReadable
    <3> QED BY <1>14, <1>17, <2>3, <3>1, <3>3
  <2> QED BY <2>2, <2>3
<1>22. InReturn'
  <2>1. pos' <= Len(Outs)
    BY <1>2, <1>4 DEF p
  <2>2. \A k \in DOMAIN late' : late'[k] < pos'
    <3>1. \A k \in DOMAIN late : late[k] \in Nat
      BY <1>3, ElementOfSeq, LenProperties
    <3> QED BY <1>2, <1>3, <3>1
  <2>3. \A j, k \in DOMAIN late' : late'[j] = late'[k] => j = k
    BY <1>2, <1>3
  <2> QED BY <1>2, <1>20, <1>21, <2>1, <2>2, <2>3, InReturnNext
<1>23. HomesStep
  BY <1>2, <1>14, <1>17, <1>20 DEF HomesStep, HomesTake
<1> QED BY <1>20, <1>22, <1>23, ReturningFollows

\* One that is not is put off until those in registers are stored.
LEMMA ReturnLaterFollows ==
  ASSUME Going, ReturnLater
  PROVE  Follows'
<1>1. /\ phase = "return" /\ pos < Len(Outs) /\ phase' = phase /\ alloc' = alloc
      /\ pos' = pos + 1 /\ block' = block /\ idx' = idx /\ late' = Append(late, pos) /\ env' = env
      /\ misread' = misread
  BY DEF ReturnLater
<1>2. /\ pos \in Nat /\ Len(Outs) \in Nat /\ DOMAIN Outs = 1 .. Len(Outs)
      /\ \A k \in DOMAIN late : late[k] < pos
      /\ \A j, k \in DOMAIN late : late[j] = late[k] => j = k
      /\ late \in Seq(0 .. Len(Outs) - 1)
  BY <1>1, ReturnFacts
<1>3. PICK n \in Nat : /\ n = Len(late) /\ DOMAIN late = 1 .. n
                       /\ \A k \in 1 .. n : late[k] \in Nat /\ late[k] < pos
  BY <1>2, ElementOfSeq, LenProperties
<1>4. /\ DOMAIN late' = 1 .. n + 1
      /\ \A k \in 1 .. n : late'[k] = late[k]
      /\ late'[n + 1] = pos
  <2>1. pos \in 0 .. Len(Outs) - 1
    BY <1>1, <1>2
  <2> QED BY <1>1, <1>2, <1>3, <2>1, AppendProperties, LenProperties
<1>5. Common'
  <2>1. Sane(alloc)
    BY GoingFacts
  <2>2. Become(alloc, "return")
    BY <1>1, <2>1 DEF Become, Sane, Fine
  <2>3. NoneLate'
    BY <1>1 DEF NoneLate
  <2> QED BY <1>1, <2>1, <2>2, <2>3, ReturnCommon
<1>6. ASSUME NEW q \in DOMAIN Outs
      PROVE  Later(q)' <=> Later(q)
  <2>1. q \in Nat
    BY <1>2
  <2>2. q > pos <=> q > pos + 1 \/ q - 1 = pos
    BY <1>2, <2>1
  <2>3. (\E k \in DOMAIN late' : late'[k] = q - 1)
           <=> (\E k \in DOMAIN late : late[k] = q - 1) \/ q - 1 = pos
    BY <1>3, <1>4
  <2> QED BY <1>1, <2>2, <2>3 DEF Later
<1>7. InReturn'
  <2>1. pos' <= Len(Outs)
    BY <1>1, <1>2
  <2>2. \A k \in DOMAIN late' : late'[k] < pos'
    BY <1>1, <1>2, <1>3, <1>4
  <2>3. \A j, k \in DOMAIN late' : late'[j] = late'[k] => j = k
    BY <1>2, <1>3, <1>4
  <2>4. \A q \in DOMAIN Outs :
          /\ Later(q)' => Readable(alloc', env, Outs[q])
          /\ ~Later(q)' => alloc'.cell[Caller(q - 1)] = Meaning(Outs[q])
    BY <1>1, <1>6, ReturnFacts
  <2> QED BY <1>1, <2>1, <2>2, <2>3, <2>4, InReturnNext
<1> QED BY <1>1, <1>5, <1>7, ReturningFollows

\* A result that was put off is brought into a register and stored.
LEMMA ReturnRemainingFollows ==
  ASSUME Going, ReturnRemaining
  PROVE  Follows' /\ HomesStep
<1> DEFINE i == Head(late)
           p == Head(late) + 1
           v == Outs[Head(late) + 1]
<1>1. PICK x \in MoveArgIfNeeded(alloc, i) : \E y \in EnsureImmediate(x, End, v) :
        Become(Store(y, Immediate(y, v), Caller(i)), "return")
  BY DEF ReturnRemaining
<1>2. PICK y \in EnsureImmediate(x, End, v) :
        Become(Store(y, Immediate(y, v), Caller(i)), "return")
  BY <1>1
<1>3. /\ phase = "return" /\ pos = Len(Outs) /\ late # <<>>
      /\ pos' = pos /\ block' = block /\ idx' = idx /\ late' = Tail(late) /\ env' = env
      /\ misread' = misread
  BY DEF ReturnRemaining
<1>4. /\ pos \in Nat /\ Len(Outs) \in Nat /\ DOMAIN Outs = 1 .. Len(Outs)
      /\ \A k \in DOMAIN late : late[k] < pos
      /\ \A j, k \in DOMAIN late : late[j] = late[k] => j = k
      /\ late \in Seq(0 .. Len(Outs) - 1)
  BY <1>3, ReturnFacts
<1>5. PICK n \in Nat : /\ Len(late) = n + 1 /\ DOMAIN late = 1 .. n + 1 /\ Head(late) = late[1]
                       /\ \A k \in 1 .. n + 1 : late[k] \in 0 .. Len(Outs) - 1
                       /\ DOMAIN late' = 1 .. n
                       /\ \A k \in 1 .. n : late'[k] = late[k + 1]
  <2>1. /\ Len(late) \in Nat \ {0} /\ DOMAIN late = 1 .. Len(late) /\ Head(late) = late[1]
        /\ \A k \in 1 .. Len(late) : late[k] \in 0 .. Len(Outs) - 1
    BY <1>3, <1>4, LenProperties, ElementOfSeq, EmptySeq, HeadTailProperties
  <2>2. Tail(late) \in Seq(0 .. Len(Outs) - 1) /\ Len(Tail(late)) = Len(late) - 1
        /\ \A k \in 1 .. Len(Tail(late)) : Tail(late)[k] = late[k + 1]
    BY <1>3, <1>4, HeadTailProperties
  <2>3. DOMAIN Tail(late) = 1 .. Len(late) - 1
    BY <2>2, LenProperties
  <2>4. PICK k \in Nat : k = Len(late) - 1
    <3>1. Len(late) - 1 \in Nat
      BY <2>1
    <3> QED BY <3>1
  <2>5. Len(late) = k + 1 /\ Len(Tail(late)) = k
    BY <2>1, <2>2, <2>4
  <2>6. DOMAIN late = 1 .. k + 1 /\ DOMAIN Tail(late) = 1 .. k
    BY <2>1, <2>3, <2>4, <2>5
  <2>7. /\ \A j \in 1 .. k + 1 : late[j] \in 0 .. Len(Outs) - 1
        /\ \A j \in 1 .. k : Tail(late)[j] = late[j + 1]
    BY <2>1, <2>2, <2>5
  <2> QED BY <1>3, <2>1, <2>5, <2>6, <2>7
<1>6. i \in 0 .. Len(Outs) - 1 /\ i = late[1] /\ 1 \in DOMAIN late
  BY <1>5
<1>7. p \in DOMAIN Outs /\ p = i + 1 /\ i = p - 1 /\ i \in Nat
  BY <1>4, <1>6
<1>8. Later(p)
  BY <1>6, <1>7 DEF Later
<1>9. Readable(alloc, env, v) /\ v \in Operands
  BY <1>3, <1>7, <1>8, ReturnFacts
<1>10. /\ Sane(alloc) /\ HasItems(alloc.availRegs) /\ Len(alloc.availRegs.items) \in Nat
       /\ Len(alloc.availRegs.items) >= 3
  BY GoingFacts
<1>11. /\ Holds(alloc, x) /\ Calm(alloc, x)
       /\ Len(x.availRegs.items) >= Len(alloc.availRegs.items) - 1
  BY <1>1, <1>7, <1>10, MoveArgFacts
<1>12. Sane(x) /\ HasItems(x.availRegs)
  <2>1. Sane(x)
    BY <1>11 DEF Calm
  <2>2. Len(x.availRegs.items) >= 1
    <3>1. Len(x.availRegs.items) \in Nat
      BY <2>1, SaneFacts
    <3> QED BY <1>10, <1>11, <3>1
  <2> QED BY <2>1, <2>2, ItemsLeft
<1> HIDE DEF v
<1>13. /\ Holds(x, y) /\ Calm(x, y)
       /\ v \in Values => InReg(y, v)
       /\ \A w \in Values : InReg(x, w) => y.live[w] = x.live[w]
  BY <1>2, <1>9, <1>12, EnsureHolds
<1>14. Readable(y, env, v)
  BY <1>9, <1>11, <1>13, ReadableHolds
<1>15. Read(y, Immediate(y, v)) = Meaning(v)
  <2>1. CASE v \in Values
    <3>1. Sane(y) /\ InReg(y, v)
      BY <1>13, <2>1 DEF Calm
    <3>2. HolderIn(y, v) = Reg(y.live[v].num) /\ IsLive(y, v) /\ HolderIn(y, v) \in Cells
      BY <2>1, <3>1, HolderFacts
    <3>3. Immediate(y, v) = HolderIn(y, v)
      BY <2>1, <3>2 DEF Immediate
    <3> QED BY <1>14, <2>1, <3>2, <3>3, CellRead DEF Readable, Meaning
  <2>2. CASE v \notin Values
    <3>1. v.class \in {"lit", "global"}
      BY <1>9, <2>2 DEF Operands
    <3> QED BY <2>2, <3>1 DEF Immediate, Meaning, Read
  <2> QED BY <2>1, <2>2
<1>16. PICK from : from = Immediate(y, v)
  OBVIOUS
<1>17. PICK m : m = Store(y, from, Caller(i))
  OBVIOUS
<1>18. Meaning(Outs[p]) = Meaning(v)
  BY DEF v
<1> HIDE DEF i, p
<1>19. /\ Sane(m) /\ m.use = alloc.use
       /\ m.cell[Caller(i)] = Meaning(Outs[p])
       /\ HomesTake(alloc, m, env, env)
       /\ \A q \in DOMAIN Outs : q # p =>
            /\ Later(q) => Readable(m, env, Outs[q])
            /\ ~Later(q) => m.cell[Caller(q - 1)] = Meaning(Outs[q])
  <2>1. Read(y, from) = Meaning(Outs[p])
    BY <1>15, <1>16, <1>18
  <2>2. /\ x \in MoveArgIfNeeded(alloc, i) /\ p \in DOMAIN Outs /\ i = p - 1
        /\ Holds(x, y) /\ Calm(x, y) /\ \A w \in Values : InReg(x, w) => y.live[w] = x.live[w]
    BY <1>7, <1>13
  <2> QED BY <1>3, <1>17, <2>1, <2>2, ResultStored
<1>20. Become(m, "return")
  BY <1>2, <1>16, <1>17
<1>21. Common' /\ alloc' = m /\ phase' = "return"
  <2>1. NoneLate'
    BY <1>19, <1>20 DEF NoneLate, Become, Sane, Fine
  <2> QED BY <1>3, <1>19, <1>20, <2>1, ReturnCommon
<1>22. \A k \in 1 .. n : late[k + 1] # i
  <2> SUFFICES ASSUME NEW k \in 1 .. n PROVE late[k + 1] # late[1]
    BY <1>6
  <2>1. k + 1 \in DOMAIN late /\ k + 1 # 1
    BY <1>5
  <2> QED BY <1>4, <1>6, <2>1
<1>23. ASSUME NEW q \in DOMAIN Outs
       PROVE  /\ Later(q)' => Readable(m, env, Outs[q])
              /\ ~Later(q)' => m.cell[Caller(q - 1)] = Meaning(Outs[q])
  <2>1. q \in Nat /\ ~(q > pos)
    BY <1>3, <1>4
  <2>2. CASE q = p
    <3>1. \A k \in DOMAIN late' : late'[k] # q - 1
      <4>1. q - 1 = i
        BY <1>7, <2>2
      <4> QED BY <1>5, <1>22, <4>1
    <3>2. ~Later(q)'
      BY <1>3, <2>1, <3>1 DEF Later
    <3> QED BY <1>7, <1>19, <2>2, <3>2
  <2>3. CASE q # p
    <3>1. q - 1 # i
      BY <1>7, <2>1, <2>3
    <3>2. (\E k \in DOMAIN late' : late'[k] = q - 1) <=> (\E k \in DOMAIN late : late[k] = q - 1)
      <4>1. ASSUME NEW k \in DOMAIN late', late'[k] = q - 1
            PROVE  \E j \in DOMAIN late : late[j] = q - 1
        <5>1. k + 1 \in DOMAIN late /\ late[k + 1] = q - 1
          BY <1>5, <4>1
        <5> QED BY <5>1
      <4>2. ASSUME NEW j \in DOMAIN late, late[j] = q - 1
            PROVE  \E k \in DOMAIN late' : late'[k] = q - 1
        <5>1. j # 1
          BY <1>6, <3>1, <4>2
        <5>2. PICK k \in 1 .. n : j = k + 1
          <6>1. j - 1 \in 1 .. n /\ j = (j - 1) + 1
            BY <1>5, <5>1
          <6> QED BY <6>1
        <5>3. k \in DOMAIN late' /\ late'[k] = q - 1
          BY <1>5, <4>2, <5>2
        <5> QED BY <5>3
      <4> QED BY <4>1, <4>2
    <3>3. Later(q)' <=> Later(q)
      BY <1>3, <3>2 DEF Later
    <3> QED BY <1>19, <2>3, <3>3
  <2> QED BY <2>2, <2>3
<1>24. InReturn'
  <2>1. pos' <= Len(Outs)
    BY <1>3, <1>4
  <2>2. \A k \in DOMAIN late' : late'[k] < pos'
    BY <1>3, <1>4, <1>5
  <2>3. \A j, k \in DOMAIN late' : late'[j] = late'[k] => j = k
    <3> SUFFICES ASSUME NEW j \in DOMAIN late', NEW k \in DOMAIN late', late'[j] = late'[k]
                 PROVE  j = k
      OBVIOUS
    <3>1. j \in 1 .. n /\ k \in 1 .. n
      BY <1>5
    <3>2. j + 1 \in DOMAIN late /\ k + 1 \in DOMAIN late
      BY <1>5, <3>1
    <3>3. late[j + 1] = late[k + 1]
      BY <1>5, <3>1
    <3>4. j + 1 = k + 1
      BY <1>4, <3>2, <3>3
    <3> QED BY <3>1, <3>4
  <2> QED BY <1>3, <1>21, <1>23, <2>1, <2>2, <2>3, InReturnNext
<1>25. HomesStep
  BY <1>3, <1>19, <1>21 DEF HomesStep
<1> QED BY <1>21, <1>24, <1>25, ReturningFollows

\* Nothing is left to store.
LEMMA ReturnedFollows ==
  ASSUME Going, Returned
  PROVE  Follows'
<1>1. /\ phase = "return" /\ pos = Len(Outs) /\ late = <<>> /\ phase' = "done" /\ alloc' = alloc
      /\ Keep
  BY DEF Returned
<1>2. /\ block' = block /\ idx' = idx /\ late' = late /\ env' = env /\ misread' = misread
  BY <1>1 DEF Keep
<1>3. Common'
  <2>1. Sane(alloc)
    BY GoingFacts
  <2>2. Become(alloc, "done")
    BY <1>1, <2>1 DEF Become, Sane, Fine
  <2>3. NoneLate'
    BY <1>1, <1>2 DEF NoneLate
  <2> QED BY <1>1, <1>2, <2>1, <2>2, <2>3, ReturnCommon
<1>4. DOMAIN late = {}
  BY <1>1
<1>5. ASSUME NEW q \in DOMAIN Outs
      PROVE  alloc.cell[Caller(q - 1)] = Meaning(Outs[q])
  <2>1. ~Later(q)
    <3>1. ~(q > pos)
      BY <1>1, ReturnFacts
    <3> QED BY <1>4, <3>1 DEF Later
  <2> QED BY <1>1, <2>1, ReturnFacts
<1>6. FlowCorrect'
  <2>1. block.out.t = "return"
    BY <1>1, ReturnFacts
  <2>2. Outs' = Outs
    BY <1>2 DEF Outs
  <2>3. \A q \in DOMAIN Outs : Meaning(Outs[q])' = Meaning(Outs[q])
    BY <1>2, <2>2 DEF Meaning
  <2> QED BY <1>1, <1>2, <1>5, <2>1, <2>2, <2>3 DEF FlowCorrect
<1> QED BY <1>1, <1>3, <1>6
        DEF Follows, InCode, InSpillRegs, InSpillInter, InArgs, InClear, InRelease, InReturn

LEMMA StutterFollows ==
  ASSUME Follows, UNCHANGED vars
  PROVE  Follows'
<1>1. /\ block' = block /\ phase' = phase /\ idx' = idx /\ todo' = todo
      /\ pos' = pos /\ late' = late /\ alloc' = alloc /\ env' = env
      /\ misread' = misread
  BY DEF vars
<1>2. /\ Ins' = Ins /\ Params' = Params /\ Outs' = Outs /\ End' = End /\ Now' = Now
      /\ Callee0' = Callee0
  BY <1>1 DEF Ins, Params, Outs, End, Now, Callee0
<1>3. \A o : Meaning(o)' = Meaning(o) /\ (Later(o)' <=> Later(o))
  BY <1>1 DEF Meaning, Later
<1>4. Common'
  BY <1>1, <1>2 DEF Follows, Common, EnvDefined, NoneLate
<1>5. InCode' /\ InSpillRegs' /\ InSpillInter'
  BY <1>1 DEF Follows, InCode, InSpillRegs, InSpillInter
<1>6. InArgs'
  BY <1>1, <1>2, <1>3 DEF Follows, InArgs, Aside
<1>7. InClear'
  BY <1>1, <1>2, <1>3 DEF Follows, InClear, Aside, Passed
<1>8. InRelease'
  BY <1>1, <1>2 DEF Follows, InRelease
<1>9. InReturn'
  BY <1>1, <1>2, <1>3 DEF Follows, InReturn
<1>10. FlowCorrect'
  BY <1>1, <1>2, <1>3 DEF Follows, FlowCorrect
<1> QED BY <1>4, <1>5, <1>6, <1>7, <1>8, <1>9, <1>10 DEF Follows

-----------------------------------------------------------------------------
\* A block begins with every value at home.

LEMMA NewStateSane ==
  ASSUME NEW b, WellFormed(b), NEW s, s = NewState(b)
  PROVE  /\ Sane(s) /\ s.use = FindUses(b)
         /\ \A v \in Values : s.live[v] = Dead
         /\ \A v \in Homed : s.cell[Home(v)] = v
<1>1. Good(s) /\ Fine(s)
  BY CodeNumbered, NewStateGood DEF Fine
<1>2. /\ s.availSpills = NewStack(NumSpills) /\ s.usedSpill = [a \in Spills |-> None]
      /\ s.use = FindUses(b) /\ s.live = [v \in Values |-> Dead]
      /\ s.cell = [c \in Cells |-> IF \E v \in Locals \cup Args : c = Home(v)
                                     THEN CHOOSE v \in Locals \cup Args : c = Home(v)
                                     ELSE Junk]
  BY DEF NewState
<1>3. \A v \in Values : s.live[v] = Dead
  BY <1>2
<1>4. ASSUME NEW v \in Homed PROVE s.cell[Home(v)] = v
  <2>1. Home(v) \in Cells /\ \A w \in Homed : Home(v) = Home(w) => w = v
    BY Classes
  <2>2. s.cell[Home(v)] = CHOOSE w \in Homed : Home(v) = Home(w)
    BY <1>2, <2>1 DEF Homed
  <2> QED BY <2>1, <2>2
<1>5. Apart(s)
  <2>1. /\ DOMAIN s.availSpills.items = 1 .. NumSpills
        /\ \A k \in 1 .. NumSpills : s.availSpills.items[k] = NumSpills - k
    BY <1>2, NewStackFacts, AllocSizes
  <2>2. \A k \in 1 .. NumSpills : NumSpills - k \in Spills
    BY AllocSizes DEF Spills
  <2>3. \A j, k \in DOMAIN s.availSpills.items :
           s.availSpills.items[j] = s.availSpills.items[k] => j = k
    BY <2>1, AllocSizes
  <2>4. \A v \in Values : s.live[v].place # "spill"
    BY <1>3 DEF Dead, UseInfo
  <2> QED BY <1>2, <2>1, <2>2, <2>3, <2>4 DEF Apart
<1> QED BY <1>1, <1>2, <1>3, <1>4, <1>5 DEF Sane

LEMMA InitFollows ==
  ASSUME Init
  PROVE  Follows
<1>1. /\ WellFormed(block) /\ phase = "code" /\ idx = 0 /\ late = <<>>
      /\ alloc = NewState(block) /\ misread = {}
      /\ env = [v \in Values |-> IF v \in Temps THEN Junk ELSE v]
  BY BlocksWellFormed DEF Init
<1>2. /\ Sane(alloc) /\ alloc.use = FindUses(block)
      /\ \A v \in Values : alloc.live[v] = Dead
      /\ \A v \in Homed : alloc.cell[Home(v)] = v
  BY <1>1, NewStateSane
<1>3. \A v \in Values : ~WrittenIn(block, 0, v)
  BY <1>1, CodeNumbered DEF WrittenIn
<1>4. \A v \in Homed : v # Junk
  <2> SUFFICES ASSUME NEW v \in Homed PROVE v # Junk
    OBVIOUS
  <2>1. "class" \in DOMAIN v
    BY DEF Homed, Locals, Args, Var, Arg, Operand
  <2> QED BY <2>1 DEF Junk
<1>5. EnvDefined
  BY <1>1, <1>3, <1>4, Classes DEF EnvDefined, Now
<1>6. Common
  BY <1>1, <1>2, <1>5, SaneFacts DEF Common, NoneLate
<1>7. \A v \in Values : ~IsLive(alloc, v) /\ alloc.live[v].place = "dead" /\ ~alloc.live[v].mut
  BY <1>2 DEF IsLive, Dead, UseInfo
<1>8. ASSUME NEW v \in Values PROVE RightAt(block, alloc, env, idx, v)
  <2>1. CASE v \in Temps
    BY <1>1, <1>7, <2>1 DEF RightAt
  <2>2. CASE v \in Homed
    <3>1. alloc.cell[Home(v)] = env[v] /\ HolderIn(alloc, v) = Home(v)
      BY <1>1, <1>2, <1>7, <2>2, Classes DEF HolderIn
    <3>2. VarRight(alloc, env, v)
      BY <1>7, <3>1 DEF VarRight, HomeRight
    <3> QED BY <1>7, <2>2, <3>2, Classes DEF RightAt
  <2> QED BY <2>1, <2>2, Classes
<1>9. InCode
  BY <1>8 DEF InCode, Right
<1> QED BY <1>1, <1>6, <1>9
        DEF Follows, InSpillRegs, InSpillInter, InArgs, InClear, InRelease, InReturn, FlowCorrect

-----------------------------------------------------------------------------
\* The steps that write no home, and those after which every home is right.

\* Steps that write nothing.
LEMMA SameCells ==
  ASSUME Inv, \/ AllocCall \/ SpilledRegisters \/ SpilledInterproc \/ LoadedArguments
              \/ Released \/ BeginReturn \/ ReturnLater \/ Returned
  PROVE  HomesStep
<1>1. CASE Released
  <2>1. alloc' = UpdateMaxCallee(alloc)
    BY <1>1 DEF Released, Become
  <2>2. alloc \in States
    BY DEF Inv, TypeOK
  <2>3. alloc'.cell = alloc.cell
    BY <2>1, <2>2 DEF UpdateMaxCallee, States
  <2> QED BY <2>3, HomesAlone DEF HomesStep
<1>2. CASE ~Released
  <2>1. alloc' = alloc
    BY <1>2 DEF AllocCall, SpilledRegisters, SpilledInterproc, LoadedArguments, BeginReturn,
                ReturnLater, Returned
  <2> QED BY <2>1, HomesAlone DEF HomesStep
<1> QED BY <1>1, <1>2

LEMMA RightHomes ==
  ASSUME \A v \in Homed : HomeRight(alloc', env', v)
  PROVE  HomesStep
BY LocalHomes DEF HomesStep, HomesTake, HomeRight

LEMMA InCallHomes ==
  ASSUME Going, Follows', \/ \E v \in todo : SpillLiveInterproc(v) \/ ClearVolatile(v)
                          \/ LoadArgument \/ EmitCall \/ ReleaseOperand
  PROVE  HomesStep
<1>1. phase' \in {"spillinterproc", "args", "clear", "release", "panicked"}
  BY DEF SpillLiveInterproc, ClearVolatile, LoadArgument, EmitCall, ReleaseOperand, Become
<1>2. phase' # "panicked"
  BY DEF Follows, Common
<1>3. HomesRight(alloc', env')
  BY <1>1, <1>2 DEF Follows, InSpillInter, InArgs, InClear, InRelease
<1> QED BY <1>3, RightHomes DEF HomesRight

\* The end of the block writes to a home what the variable is.
LEMMA LeaveHomes ==
  ASSUME Going, Follows', LeaveBlock \/ LeaveProgram
  PROVE  HomesStep
<1>1. CASE LeaveBlock
  <2>1. /\ phase' \in {"done", "panicked"} /\ block' = block /\ block.out.t \in {"jmp", "if"}
    BY <1>1 DEF LeaveBlock, AtEnd, Become, Keep
  <2>2. phase' = "done"
    BY <2>1 DEF Follows, Common
  <2>3. \A v \in Homed : HomeRight(alloc', env', v)
    BY <2>1, <2>2 DEF Follows, FlowCorrect, HomeRight, Homed
  <2> QED BY <2>3, RightHomes
<1>2. CASE LeaveProgram
  <2>1. alloc' = FlowOperand(alloc) /\ alloc \in States
    BY <1>2, GoingFacts, SaneFacts DEF LeaveProgram, Become
  <2>2. alloc'.cell = alloc.cell
    BY <2>1 DEF FlowOperand, Fail, States
  <2> QED BY <2>2, HomesAlone DEF HomesStep
<1> QED BY <1>1, <1>2

-----------------------------------------------------------------------------
LEMMA FollowsStep ==
  ASSUME Inv, Follows, Roomy, Handled(block), [Next]_vars
  PROVE  Follows' /\ HomesStep
<1>0. CASE UNCHANGED vars
  BY <1>0, StutterFollows, HomesAlone DEF vars, HomesStep
<1>1. Going
  BY DEF Going
<1>2. ASSUME AllocBinary \/ AllocUnary \/ AllocStorePtr \/ AllocCopy
      PROVE  Follows' /\ HomesStep
  <2>1. Coding
    <3>1. phase = "code" /\ idx < End
      BY <1>2 DEF AllocBinary, AllocUnary, AllocStorePtr, AllocCopy, At
    <3> QED BY <3>1 DEF Coding
  <2>2. CASE AllocBinary
    BY <2>1, <2>2, BinaryFollows
  <2>3. CASE AllocUnary
    BY <2>1, <2>3, UnaryFollows
  <2>4. CASE AllocStorePtr
    BY <2>1, <2>4, StorePtrFollows
  <2>5. CASE AllocCopy
    BY <2>1, <2>5, CopyFollows
  <2> QED BY <1>2, <2>2, <2>3, <2>4, <2>5
<1>3. CASE AllocCall
  BY <1>1, <1>3, CallFollows, SameCells
<1>4. ASSUME NEW v \in todo, SpillLiveRegister(v) PROVE Follows' /\ HomesStep
  BY <1>1, <1>4, SpillLiveRegisterFollows
<1>5. CASE SpilledRegisters
  BY <1>1, <1>5, SpilledRegistersFollows, SameCells
<1>6. ASSUME NEW v \in todo, SpillLiveInterproc(v) PROVE Follows' /\ HomesStep
  BY <1>1, <1>6, SpillLiveInterprocFollows, InCallHomes
<1>7. CASE SpilledInterproc
  BY <1>1, <1>7, SpilledInterprocFollows, SameCells
<1>8. CASE LoadArgument
  BY <1>1, <1>8, LoadArgumentFollows, InCallHomes
<1>9. CASE LoadedArguments
  BY <1>1, <1>9, LoadedArgumentsFollows, SameCells
<1>10. ASSUME NEW v \in todo, ClearVolatile(v) PROVE Follows' /\ HomesStep
  BY <1>1, <1>10, ClearVolatileFollows, InCallHomes
<1>11. CASE EmitCall
  BY <1>1, <1>11, EmitCallFollows, InCallHomes
<1>12. CASE ReleaseOperand
  BY <1>1, <1>12, ReleaseOperandFollows, InCallHomes
<1>13. CASE Released
  BY <1>1, <1>13, ReleasedFollows, SameCells
<1>14. CASE LeaveBlock
  BY <1>1, <1>14, LeaveBlockFollows, LeaveHomes
<1>15. CASE LeaveProgram
  BY <1>1, <1>15, LeaveProgramFollows, LeaveHomes
<1>16. CASE BeginReturn
  BY <1>1, <1>16, BeginReturnFollows, SameCells
<1>17. CASE ReturnFromRegister
  BY <1>1, <1>17, ReturnFromRegisterFollows
<1>18. CASE ReturnLater
  BY <1>1, <1>18, ReturnLaterFollows, SameCells
<1>19. CASE ReturnRemaining
  BY <1>1, <1>19, ReturnRemainingFollows
<1>20. CASE Returned
  BY <1>1, <1>20, ReturnedFollows, SameCells
<1> QED BY <1>0, <1>2, <1>3, <1>4, <1>5, <1>6, <1>7, <1>8, <1>9, <1>10, <1>11, <1>12,
           <1>13, <1>14, <1>15, <1>16, <1>17, <1>18, <1>19, <1>20 DEF Next, Finished

\* The allocator does not change the code it reads.
LEMMA SameBlock == [Next]_vars => block' = block
BY DEF Next, vars, AllocBinary, AllocUnary, AllocStorePtr, AllocCopy, Copied, Advance, AllocCall,
       SpillLiveRegister, SpilledRegisters, SpillLiveInterproc, SpilledInterproc, LoadArgument,
       LoadedArguments, ClearVolatile, EmitCall, ReleaseOperand, Released, LeaveBlock,
       LeaveProgram, BeginReturn, ReturnFromRegister, ReturnLater, ReturnRemaining, Returned,
       Finished, Keep

\* What the invariant says between instructions and at the end of the block.
LEMMA FollowsKeepsValues ==
  ASSUME Follows
  PROVE  ValuesKept
<1>1. misread = {} /\ FlowCorrect /\ InCode
  BY DEF Follows, Common
<1>2. \A v : Holder(v) = HolderIn(alloc, v)
  BY DEF Holder, HolderIn
<1>3. ASSUME phase = "code", NEW v \in Homed PROVE alloc.cell[Holder(v)] = env[v]
  BY <1>1, <1>2, <1>3, Classes DEF InCode, Right, RightAt, VarRight
<1>4. ASSUME phase = "code", NEW v \in Temps, env[v] # Junk, alloc.use[v] >= idx
      PROVE  IsLive(alloc, v) /\ alloc.cell[Holder(v)] = env[v]
  BY <1>1, <1>2, <1>4, Classes DEF InCode, Right, RightAt, TempRight
<1>5. Tracked
  BY <1>3, <1>4 DEF Tracked, Homed
<1> QED BY <1>1, <1>5 DEF ValuesKept, ReadsCurrent

\* ValuesKept for any number of registers, slots and values: on every block
\* that linearization makes and Sound admits, as long as no step has to evict
\* a value, every operand the emitted code reads holds what the PIR means by
\* it, calls receive their arguments, returns deliver their results, and each
\* variable is at home when the block is left.
THEOREM ValuesFollow ==
  ASSUME \A b \in Blocks : Handled(b)
  PROVE  Spec /\ []Roomy => []ValuesKept
<1>1. Init => Follows /\ Handled(block)
  BY InitFollows DEF Init
<1>2. Inv /\ Follows /\ Handled(block) /\ Roomy /\ [Next]_vars => (Follows /\ Handled(block))'
  BY FollowsStep, SameBlock
<1>3. Follows => ValuesKept
  BY FollowsKeepsValues
<1> QED BY <1>1, <1>2, <1>3, Invariance, PTL DEF Spec

\* Under the same conditions HomesFollow: no step writes to a variable's frame
\* slot anything but what the variable is before or after the instruction.
THEOREM HomesKeptUp ==
  ASSUME \A b \in Blocks : Handled(b)
  PROVE  Spec /\ []Roomy => HomesFollow
<1>1. Init => Follows /\ Handled(block)
  BY InitFollows DEF Init
<1>2. Inv /\ Follows /\ Handled(block) /\ Roomy /\ [Next]_vars => (Follows /\ Handled(block))'
  BY FollowsStep, SameBlock
<1>3. Inv /\ Follows /\ Handled(block) /\ Roomy /\ [Next]_vars
        => [\A v \in Locals : alloc.cell'[Home(v)] # alloc.cell[Home(v)] =>
              alloc.cell'[Home(v)] \in {env[v], env'[v]}]_vars
  BY FollowsStep DEF HomesStep, HomesTake
<1> QED BY <1>1, <1>2, <1>3, Invariance, PTL DEF Spec, HomesFollow
=============================================================================

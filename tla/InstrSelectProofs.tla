------------------------- MODULE InstrSelectProofs -------------------------
(***************************************************************************)
(* Proofs about InstrSelect, for bytes of any width, every set of MIR      *)
(* instructions and every content of the registers: an instruction         *)
(* overwrites no register and no memory but its destination and the three  *)
(* scratch registers, so no value the allocator keeps is lost; the machine *)
(* always holds words; and the assembler has every line that is selected.  *)
(***************************************************************************)
EXTENDS InstrSelect, SequenceTheorems, TLAPS

\* Lines of these names write RAX and RDX, or nothing.
Harmless == {"cmp", "je", "nop", "syscall", "cdq", "cqo", "div", "idiv"}

\* An operand that the instruction may write.
Writable(o) ==
  /\ o.k = "reg" => \/ o.r \in {RAX, RCX, RDX}
                    \/ Target.k = "reg" /\ o.r = Target.r
  /\ o.k = "cell" => Target.k = "cell"
  /\ o.k = "deref" => Target.k = "deref"

Safe(l) == l.op \in Harmless \/ Writable(l.d)

Lines(c) == {c[n] : n \in 1 .. Len(c)}

SafeLines(c) == c \in Seq(Lines(c)) /\ \A l \in Lines(c) : Safe(l)

\* A machine has its parts, whatever they hold.
Parts == {"reg", "cell", "pointee", "cmp", "jumped", "fault"}

HasParts(m) == DOMAIN m = Parts /\ DOMAIN m.reg = HwRegs

-----------------------------------------------------------------------------
\* Sequences of safe lines.

LEMMA LinesOf ==
  ASSUME NEW S, NEW c \in Seq(S), \A l \in S : Safe(l)
  PROVE  SafeLines(c)
<1>1. \A n \in 1 .. Len(c) : c[n] \in S
  OBVIOUS
<1>2. c \in Seq(Lines(c))
  BY DEF Lines
<1>3. QED
  BY <1>1, <1>2 DEF SafeLines, Lines

LEMMA NoLine == SafeLines(<<>>)
<1> DEFINE c == <<>>
<1>1. c \in Seq({}) /\ \A x \in {} : Safe(x)
  OBVIOUS
<1> HIDE DEF c
<1>2. SafeLines(c)
  BY <1>1, LinesOf
<1>3. QED
  BY <1>2 DEF c

LEMMA OneLine == ASSUME NEW l, Safe(l) PROVE SafeLines(<<l>>)
<1> DEFINE c == <<l>>
<1>1. c \in Seq({l}) /\ \A x \in {l} : Safe(x)
  OBVIOUS
<1> HIDE DEF c
<1>2. SafeLines(c)
  BY <1>1, LinesOf
<1>3. QED
  BY <1>2 DEF c

LEMMA Joined ==
  ASSUME NEW c, NEW d, SafeLines(c), SafeLines(d)
  PROVE  SafeLines(c \o d)
<1> DEFINE S == Lines(c) \cup Lines(d)
<1>1. c \in Seq(S) /\ d \in Seq(S) /\ \A l \in S : Safe(l)
  BY DEF SafeLines
<1>2. c \o d \in Seq(S)
  BY <1>1
<1> HIDE DEF S
<1>3. QED
  BY <1>1, <1>2, LinesOf

LEMMA HeadAndTail ==
  ASSUME NEW c, SafeLines(c), c # <<>>
  PROVE  Safe(Head(c)) /\ SafeLines(Tail(c))
<1> DEFINE S == Lines(c)
<1>1. c \in Seq(S) /\ \A l \in S : Safe(l)
  BY DEF SafeLines
<1> HIDE DEF S
<1>2. Head(c) \in S /\ Tail(c) \in Seq(S)
  BY <1>1
<1>3. QED
  BY <1>1, <1>2, LinesOf

LEMMA Two ==
  ASSUME NEW l, NEW m, Safe(l), Safe(m)
  PROVE  SafeLines(<<l, m>>)
<1> DEFINE c == <<l, m>>
<1>1. c \in Seq({l, m}) /\ \A x \in {l, m} : Safe(x)
  OBVIOUS
<1> HIDE DEF c
<1>2. SafeLines(c)
  BY <1>1, LinesOf
<1>3. QED
  BY <1>2 DEF c

LEMMA Three ==
  ASSUME NEW l, NEW m, NEW n, Safe(l), Safe(m), Safe(n)
  PROVE  SafeLines(<<l, m, n>>)
<1> DEFINE c == <<l, m, n>>
<1>1. c \in Seq({l, m, n}) /\ \A x \in {l, m, n} : Safe(x)
  OBVIOUS
<1> HIDE DEF c
<1>2. SafeLines(c)
  BY <1>1, LinesOf
<1>3. QED
  BY <1>2 DEF c

LEMMA Four ==
  ASSUME NEW l, NEW m, NEW n, NEW o, Safe(l), Safe(m), Safe(n), Safe(o)
  PROVE  SafeLines(<<l, m, n, o>>)
<1> DEFINE c == <<l, m, n, o>>
<1>1. c \in Seq({l, m, n, o}) /\ \A x \in {l, m, n, o} : Safe(x)
  OBVIOUS
<1> HIDE DEF c
<1>2. SafeLines(c)
  BY <1>1, LinesOf
<1>3. QED
  BY <1>2 DEF c

-----------------------------------------------------------------------------
\* Execution of a safe line.

\* n is m but for what the instruction may write.
Kept(m, n) ==
  /\ HasParts(n)
  /\ \A r \in HwRegs : n.reg[r] = m.reg[r] \/ Writable(R(r, 8))
  /\ n.cell = m.cell \/ Target.k = "cell"
  /\ n.pointee = m.pointee \/ Target.k = "deref"

LEMMA SameKept == ASSUME NEW m, HasParts(m) PROVE Kept(m, m)
BY DEF Kept

LEMMA KeptTwice ==
  ASSUME NEW m, NEW n, NEW o, Kept(m, n), Kept(n, o)
  PROVE  Kept(m, o)
BY DEF Kept

\* Fields that hold no value of the program.
LEMMA FlagsKept ==
  ASSUME NEW m, HasParts(m), NEW v
  PROVE  /\ Kept(m, [m EXCEPT !.fault = v])
         /\ Kept(m, [m EXCEPT !.cmp = v])
         /\ Kept(m, [m EXCEPT !.jumped = v])
BY DEF Kept, HasParts, Parts

LEMMA PutKeeps ==
  ASSUME NEW m, HasParts(m), NEW o, Writable(o), NEW v
  PROVE  Kept(m, Put(m, o, v))
<1>1. CASE o.k = "reg"
  <2> DEFINE f == [m.reg EXCEPT ![o.r] = WritePart(@, o.size, v)]
             n == [m EXCEPT !.reg = f]
  <2>1. Put(m, o, v) = n
    BY <1>1 DEF Put
  <2>2. DOMAIN f = HwRegs /\ \A r \in HwRegs : r # o.r => f[r] = m.reg[r]
    BY DEF HasParts
  <2> HIDE DEF f
  <2>3. /\ DOMAIN n = Parts /\ n.reg = f
        /\ n.cell = m.cell /\ n.pointee = m.pointee
    BY DEF HasParts, Parts
  <2> HIDE DEF n
  <2>4. \A r \in HwRegs : r = o.r => Writable(R(r, 8))
    BY <1>1 DEF Writable, R
  <2>5. QED
    BY <2>1, <2>2, <2>3, <2>4 DEF Kept, HasParts
<1>2. CASE o.k = "cell"
  <2>1. Target.k = "cell"
    BY <1>2 DEF Writable
  <2>2. QED
    BY <1>2, <2>1 DEF Kept, HasParts, Parts, Put
<1>3. CASE o.k = "deref"
  <2>1. Target.k = "deref"
    BY <1>3 DEF Writable
  <2>2. QED
    BY <1>3, <2>1 DEF Kept, HasParts, Parts, Put
<1>4. CASE o.k \notin {"reg", "cell", "deref"}
  BY <1>4, SameKept DEF Put
<1>5. QED
  BY <1>1, <1>2, <1>3, <1>4

LEMMA ScratchWritable ==
  ASSUME NEW size
  PROVE  /\ Writable(R(RAX, size)) /\ Writable(R(RCX, size)) /\ Writable(R(RDX, size))
BY DEF Writable, R

LEMMA DivideKeeps ==
  ASSUME NEW m, HasParts(m), NEW op, NEW o
  PROVE  Kept(m, Divide(m, op, o))
<1>1. \A v, w : Kept(m, Put(Put(m, R(RAX, o.size), v), R(RDX, o.size), w))
  <2> TAKE v, w
  <2> DEFINE n == Put(m, R(RAX, o.size), v)
  <2>1. Kept(m, n)
    BY PutKeeps, ScratchWritable
  <2> HIDE DEF n
  <2>2. HasParts(n)
    BY <2>1 DEF Kept
  <2>3. Kept(n, Put(n, R(RDX, o.size), w))
    BY <2>2, PutKeeps, ScratchWritable
  <2>4. Kept(m, Put(n, R(RDX, o.size), w))
    BY <2>1, <2>3, KeptTwice
  <2>5. QED
    BY <2>4 DEF n
<1>2. Kept(m, [m EXCEPT !.fault = "divide"])
  BY FlagsKept
<1>3. QED
  BY <1>1, <1>2, Zenon DEF Divide

LEMMA ExecuteKeeps ==
  ASSUME NEW m, HasParts(m), NEW l, Safe(l)
  PROVE  Kept(m, Execute(m, l))
<1>1. CASE Wild(m, l.d) \/ Wild(m, l.s)
  <2>1. PICK v : Execute(m, l) = [m EXCEPT !.fault = v]
    BY <1>1 DEF Execute
  <2>2. QED
    BY <2>1, FlagsKept
<1>2. CASE ~ (Wild(m, l.d) \/ Wild(m, l.s)) /\ l.op \in Harmless
  <2> USE DEF Harmless
  <2>1. CASE l.op \in {"cdq", "cqo"}
    <3>1. PICK v, size : Execute(m, l) = Put(m, R(RDX, size), v)
      BY <1>2, <2>1, Zenon DEF Execute, SpreadSign
    <3>2. QED
      BY <3>1, PutKeeps, ScratchWritable
  <2>2. CASE l.op \in {"nop", "syscall"}
    BY <1>2, <2>2, SameKept DEF Execute
  <2>3. CASE l.op \in {"div", "idiv"}
    <3>1. Execute(m, l) = Divide(m, l.op, l.d)
      BY <1>2, <2>3 DEF Execute
    <3>2. QED
      BY <3>1, DivideKeeps
  <2>4. CASE l.op = "cmp"
    <3>1. PICK v : Execute(m, l) = [m EXCEPT !.cmp = v]
      BY <1>2, <2>4 DEF Execute
    <3>2. QED
      BY <3>1, FlagsKept
  <2>5. CASE l.op = "je"
    <3>1. PICK v : Execute(m, l) = [m EXCEPT !.jumped = v]
      BY <1>2, <2>5 DEF Execute
    <3>2. QED
      BY <3>1, FlagsKept
  <2>6. QED
    BY <1>2, <2>1, <2>2, <2>3, <2>4, <2>5
<1>3. CASE ~ (Wild(m, l.d) \/ Wild(m, l.s)) /\ l.op \notin Harmless
  <2>1. Writable(l.d)
    BY <1>3 DEF Safe
  <2>2. \E v : Execute(m, l) = Put(m, l.d, v)
    BY <1>3, Zenon DEF Execute, Harmless
  <2>3. QED
    BY <2>1, <2>2, PutKeeps
<1>4. QED
  BY <1>1, <1>2, <1>3

-----------------------------------------------------------------------------
\* The lines that are selected are safe.

LEMMA DestWritable ==
  ASSUME instr.k \notin {"storeptr", "exit"}
  PROVE  Writable(Dest)
<1>1. Target = Dest
  BY DEF Target
<1>2. QED
  BY <1>1 DEF Writable

\* Only a move goes to a slot; a store, a jump and an exit have no result.
LEMMA ResultsInRegisters ==
  \A i \in Instrs : i.k \notin {"move", "storeptr", "if", "exit"} => i.dest.class = "reg"
BY InstrsChecked DEF CheckInstr, CheckAddSub, Reg

\* Wherever the result is in a register, all its parts may be written.
LEMMA ResultWritable ==
  ASSUME instr \in Instrs, instr.k \notin {"move", "storeptr", "if", "exit"}
  PROVE  \A size : Writable(R(GetReg(instr.dest), size))
<1>1. instr.dest.class = "reg"
  BY ResultsInRegisters
<1>2. Target = R(GetReg(instr.dest), Size(instr.dest.t))
  BY <1>1 DEF Target, Dest, ConvertOperand, Part
<1>3. QED
  BY <1>2 DEF Writable, R

LEMMA MovTSafe ==
  ASSUME NEW r, \A size : Writable(R(r, size)),
         NEW source, NEW destSize, NEW size, NEW destSigned, NEW signed
  PROVE  Safe(MovT(r, source, destSize, size, destSigned, signed))
<1>1. \E op, s, sz : MovT(r, source, destSize, size, destSigned, signed)
                      = Bin(op, R(r, sz), s)
  BY Zenon DEF MovT
<1>2. QED
  BY <1>1 DEF Safe, Bin

LEMMA WritesSafe ==
  ASSUME NEW d, Writable(d), NEW op, NEW s
  PROVE  Safe(Bin(op, d, s)) /\ Safe(Unary(op, d))
BY DEF Safe, Bin, Unary

LEMMA ScratchSafe ==
  ASSUME NEW r \in {RAX, RCX, RDX}, NEW size, NEW t, NEW op, NEW s
  PROVE  /\ Safe(Bin(op, R(r, size), s)) /\ Safe(Unary(op, R(r, size)))
         /\ Safe(Bin(op, Part(r, t), s))
BY DEF Safe, Bin, Unary, Part, R, Writable

LEMMA HarmlessSafe ==
  ASSUME NEW op \in Harmless, NEW d, NEW s
  PROVE  Safe(Bin(op, d, s)) /\ Safe(Unary(op, d)) /\ Safe(Plain(op))
BY DEF Safe, Bin, Unary, Plain

LEMMA ResolveSafe == ASSUME NEW o PROVE SafeLines(Resolve(o).pre)
<1>1. CASE o.class = "lit" /\ o.n \notin Imm32
  <2>1. Resolve(o).pre = <<Bin("mov", Part(RCX, o.t), Imm(o.n))>>
    BY <1>1 DEF Resolve
  <2>2. QED
    BY <2>1, ScratchSafe, OneLine
<1>2. CASE ~ (o.class = "lit" /\ o.n \notin Imm32)
  <2>1. Resolve(o).pre = <<>>
    BY <1>2 DEF Resolve
  <2>2. QED
    BY <2>1, NoLine
<1>3. QED
  BY <1>1, <1>2

\* What resolve puts first, then one, two or three lines.
LEMMA ResolvedSafe ==
  ASSUME NEW o, NEW lines, SafeLines(lines)
  PROVE  SafeLines(Resolve(o).pre \o lines)
BY ResolveSafe, Joined

LEMMA GenLoadStoreSafe == GenLoadStore => SafeLines(code')
<1> SUFFICES ASSUME GenLoadStore PROVE SafeLines(code')
  OBVIOUS
<1> DEFINE r == Resolve(instr.a)
           lines == <<Bin("mov", Dest, r.op)>>
<1>1. code' = r.pre \o lines
  BY DEF GenLoadStore, Gen
<1>2. Writable(Dest)
  BY DestWritable DEF GenLoadStore
<1>3. SafeLines(lines)
  BY <1>2, WritesSafe, OneLine
<1>4. QED
  BY <1>1, <1>3, ResolvedSafe

LEMMA GenLoadPtrSafe == GenLoadPtr => SafeLines(code')
<1> SUFFICES ASSUME GenLoadPtr PROVE SafeLines(code')
  OBVIOUS
<1>1. code' = <<Bin("mov", Dest, Deref(A, Size(instr.t)))>>
  BY DEF GenLoadPtr, Gen
<1>2. Writable(Dest)
  BY DestWritable DEF GenLoadPtr
<1>3. QED
  BY <1>1, <1>2, WritesSafe, OneLine

LEMMA GenStorePtrSafe == GenStorePtr => SafeLines(code')
<1> SUFFICES ASSUME GenStorePtr PROVE SafeLines(code')
  OBVIOUS
<1> DEFINE r == Resolve(instr.a)
           d == Deref(B, Size(instr.t))
           lines == <<Bin("mov", d, r.op)>>
<1>1. code' = r.pre \o lines
  BY DEF GenStorePtr, Gen
<1>2. Writable(d)
  BY DEF GenStorePtr, Writable, Target, Deref
<1> HIDE DEF d
<1>3. SafeLines(lines)
  BY <1>2, WritesSafe, OneLine
<1>4. QED
  BY <1>1, <1>3, ResolvedSafe

LEMMA GenNegSafe == GenNeg => SafeLines(code')
<1> SUFFICES ASSUME GenNeg PROVE SafeLines(code')
  OBVIOUS
<1> DEFINE r == Resolve(instr.a)
           lines == <<Bin("mov", Dest, r.op), Unary("neg", Dest)>>
<1>1. code' = r.pre \o lines
  BY DEF GenNeg, Gen
<1>2. Writable(Dest)
  BY DestWritable DEF GenNeg
<1>3. SafeLines(lines)
  BY <1>2, WritesSafe, Two
<1>4. QED
  BY <1>1, <1>3, ResolvedSafe

LEMMA GenNotSafe == GenNot => SafeLines(code')
<1> SUFFICES ASSUME GenNot PROVE SafeLines(code')
  OBVIOUS
<1>1. Writable(Dest)
  BY DestWritable DEF GenNot
<1>2. CASE instr.t = "bool"
  <2>1. code' = <<Bin("cmp", A, Imm(0)), Unary("sete", Dest)>>
    BY <1>2 DEF GenNot, Gen
  <2>2. Safe(Bin("cmp", A, Imm(0)))
    BY HarmlessSafe DEF Harmless
  <2>3. QED
    BY <1>1, <2>1, <2>2, WritesSafe, Two
<1>3. CASE instr.t # "bool"
  <2> DEFINE r == Resolve(instr.a)
             lines == <<Bin("mov", Dest, r.op), Unary("not", Dest)>>
  <2>1. code' = r.pre \o lines
    BY <1>3 DEF GenNot, Gen
  <2>2. SafeLines(lines)
    BY <1>1, WritesSafe, Two
  <2>3. QED
    BY <2>1, <2>2, ResolvedSafe
<1>4. QED
  BY <1>2, <1>3

LEMMA GenCompSafe == GenComp => SafeLines(code')
<1> SUFFICES ASSUME GenComp PROVE SafeLines(code')
  OBVIOUS
<1> DEFINE r   == Resolve(instr.b)
           rax == Part(RAX, instr.a.t)
           p   == Bin("mov", rax, A)
           c(x) == Bin("cmp", x, r.op)
           u   == Unary(Name, Dest)
<1>1. \/ code' = r.pre \o <<p, c(rax), u>>
      \/ code' = r.pre \o <<c(A), u>>
  BY Zenon DEF GenComp, Gen
<1>2. Writable(Dest)
  BY DestWritable DEF GenComp, Comparisons
<1>3. Safe(u)
  BY <1>2, WritesSafe
<1>4. Safe(p)
  BY ScratchSafe
<1>5. \A x : Safe(c(x))
  BY HarmlessSafe DEF Harmless
<1> HIDE DEF p, c, u
<1>6. SafeLines(<<p, c(rax), u>>) /\ SafeLines(<<c(A), u>>)
  BY <1>3, <1>4, <1>5, Two, Three
<1>7. QED
  BY <1>1, <1>6, ResolvedSafe

LEMMA GenSimpleBinSafe == GenSimpleBin => SafeLines(code')
<1> SUFFICES ASSUME GenSimpleBin PROVE SafeLines(code')
  OBVIOUS
<1> DEFINE r(o) == Resolve(o)
           m    == Bin("mov", Dest, A)
           op(o) == Bin(Name, Dest, r(o).op)
<1>1. \E o : \/ code' = r(o).pre \o <<op(o)>>
             \/ code' = r(o).pre \o <<m, op(o)>>
  BY Zenon DEF GenSimpleBin, Gen, Binary
<1>2. Writable(Dest)
  BY DestWritable DEF GenSimpleBin, Simple
<1>3. Safe(m) /\ \A o : Safe(op(o))
  BY <1>2, WritesSafe
<1> HIDE DEF m, op
<1>4. \A o : SafeLines(<<op(o)>>) /\ SafeLines(<<m, op(o)>>)
  BY <1>3, OneLine, Two
<1>5. QED
  BY <1>1, <1>4, ResolvedSafe

LEMMA GenMulByteSafe == instr \in Instrs /\ GenMulByte => SafeLines(code')
<1> SUFFICES ASSUME instr \in Instrs, GenMulByte PROVE SafeLines(code')
  OBVIOUS
<1> DEFINE signed == IsSigned(instr.t)
           Extend(r, o) == IF IsConstant(o) THEN Bin("mov", R(r, 2), Imm(o.n))
                           ELSE MovT(r, GetReg(o), 2, 1, signed, signed)
           e == Extend(RAX, instr.a)
           f == Extend(RCX, instr.b)
           g == Bin(Name, R(RAX, 2), R(RCX, 2))
           h == MovT(GetReg(instr.dest), RAX, 1, 2, signed, signed)
<1>1. code' = <<e, f, g, h>>
  BY DEF GenMulByte, Gen
<1>2. ASSUME NEW r \in {RAX, RCX}, NEW o PROVE Safe(Extend(r, o))
  <2>1. Safe(Bin("mov", R(r, 2), Imm(o.n)))
    BY ScratchSafe
  <2>2. Safe(MovT(r, GetReg(o), 2, 1, signed, signed))
    BY ScratchWritable, MovTSafe
  <2>3. QED
    BY <2>1, <2>2
<1>3. Safe(e) /\ Safe(f)
  BY <1>2
<1>4. Safe(g)
  BY ScratchSafe
<1>5. Safe(h)
  BY ResultWritable, MovTSafe DEF GenMulByte
<1> HIDE DEF e, f, g, h
<1>6. QED
  BY <1>1, <1>3, <1>4, <1>5, Four

LEMMA GenDivisionSafe == GenDivision => SafeLines(code')
<1> SUFFICES ASSUME GenDivision PROVE SafeLines(code')
  OBVIOUS
<1> DEFINE t    == instr.t
           rcx  == IsConstant(instr.b) \/ instr.k = "rem"
           from == IF instr.k = "div" THEN RAX ELSE RDX
           x == Bin("xor", R(RDX, 8), R(RDX, 8))
           a == Bin("mov", Part(RAX, t), A)
           b == IF rcx THEN <<Bin("mov", Part(RCX, t), B)>> ELSE <<>>
           c == Plain(SignExtend(t))
           d == Unary(Name, Divisor(IF rcx THEN RCX ELSE GetReg(instr.b), t))
           e == Bin("mov", Dest, Part(from, t))
<1>1. code' = <<x, a>> \o b \o <<c, d, e>>
  BY DEF GenDivision, Gen
<1>2. Safe(x) /\ Safe(a)
  BY ScratchSafe
<1>3. SafeLines(b)
  BY ScratchSafe, OneLine, NoLine
<1>4. Safe(c)
  <2>1. SignExtend(t) \in Harmless
    BY DEF SignExtend, Harmless
  <2>2. QED
    BY <2>1, HarmlessSafe
<1>5. Safe(d)
  <2>1. Name \in Harmless
    BY DEF GenDivision, Name, GenInstrName, Harmless, Divisions
  <2>2. QED
    BY <2>1, HarmlessSafe
<1>6. Writable(Dest)
  BY DestWritable DEF GenDivision, Divisions
<1>7. Safe(e)
  BY <1>6, WritesSafe
<1> HIDE DEF x, a, b, c, d, e
<1>8. SafeLines(<<x, a>>) /\ SafeLines(<<c, d, e>>)
  BY <1>2, <1>4, <1>5, <1>7, Two, Three
<1>9. SafeLines((<<x, a>> \o b) \o <<c, d, e>>)
  BY <1>3, <1>8, Joined
<1>10. QED
  BY <1>1, <1>9

LEMMA GenShiftSafe == GenShift => SafeLines(code')
<1> SUFFICES ASSUME GenShift PROVE SafeLines(code')
  OBVIOUS
<1> DEFINE count == IF IsTwoAddr(instr) THEN Other(instr) ELSE instr.b
           r     == Resolve(count)
           inCL  == count.class = "reg"
           toCL  == <<MovT(RCX, GetReg(count), 1, Size(count.t), FALSE, IsSigned(count.t))>>
           pre   == IF inCL THEN toCL ELSE r.pre
           copy  == IF IsTwoAddr(instr) THEN <<>> ELSE <<Bin("mov", Dest, A)>>
           shift == Bin(Name, Dest, IF inCL THEN R(RCX, 1) ELSE r.op)
<1>1. code' = pre \o copy \o <<shift>>
  BY DEF GenShift, Gen
<1>2. SafeLines(toCL)
  BY ScratchWritable, MovTSafe, OneLine
<1>3. SafeLines(pre)
  BY <1>2, ResolveSafe
<1>4. Writable(Dest)
  BY DestWritable DEF GenShift, Shifts
<1>5. SafeLines(copy)
  BY <1>4, WritesSafe, OneLine, NoLine
<1>6. SafeLines(<<shift>>)
  BY <1>4, WritesSafe, OneLine
<1> HIDE DEF pre, copy, shift
<1>7. SafeLines((pre \o copy) \o <<shift>>)
  BY <1>3, <1>5, <1>6, Joined
<1>8. QED
  BY <1>1, <1>7

LEMMA WidenedSafe == ASSUME NEW o PROVE Safe(Widened(o))
<1>1. Safe(Bin("mov", R(RAX, 8), Imm(o.n)))
  BY ScratchSafe
<1>2. Safe(MovT(RAX, GetReg(o), 8, Size(o.t), TRUE, IsSigned(o.t)))
  BY ScratchWritable, MovTSafe
<1>3. QED
  BY <1>1, <1>2 DEF Widened

\* The pointer is written in place only if it is the destination.
LEMMA OffsetSafe ==
  ASSUME instr \in Instrs, instr.k \in {"add", "sub"}, NEW ptr, NEW lines, SafeLines(lines)
  PROVE  SafeLines(Offset(ptr, lines))
<1>1. Writable(Dest)
  BY DestWritable
<1>2. CASE AreOpEqual(ptr, instr.dest)
  <2>1. ConvertOperand(ptr) = R(GetReg(instr.dest), Size(ptr.t))
    BY <1>2, ResultsInRegisters DEF AreOpEqual, ConvertOperand, Part, GetReg
  <2>2. Writable(ConvertOperand(ptr))
    BY <2>1, ResultWritable
  <2>3. SafeLines(<<Bin("add", ConvertOperand(ptr), R(RAX, 8))>>)
    BY <2>2, WritesSafe, OneLine
  <2>4. QED
    BY <1>2, <2>3, Joined DEF Offset
<1>3. CASE ~ AreOpEqual(ptr, instr.dest)
  <2>1. SafeLines(<<Bin("mov", Dest, ConvertOperand(ptr)), Bin("add", Dest, R(RAX, 8))>>)
    BY <1>1, WritesSafe, Two
  <2>2. QED
    BY <1>3, <2>1, Joined DEF Offset
<1>4. QED
  BY <1>2, <1>3

LEMMA GenAddPtrSafe == instr \in Instrs /\ GenAddPtr => SafeLines(code')
<1> SUFFICES ASSUME instr \in Instrs, GenAddPtr PROVE SafeLines(code')
  OBVIOUS
<1>1. \E p, o : code' = Offset(p, <<Widened(o)>>)
  BY Zenon DEF GenAddPtr, Gen
<1>2. \A o : SafeLines(<<Widened(o)>>)
  BY WidenedSafe, OneLine
<1>3. instr.k \in {"add", "sub"}
  BY DEF GenAddPtr
<1>4. \A p, o : SafeLines(Offset(p, <<Widened(o)>>))
  BY <1>2, <1>3, OffsetSafe
<1>5. QED
  BY <1>1, <1>4, Zenon

LEMMA GenSubPtrSafe == instr \in Instrs /\ GenSubPtr => SafeLines(code')
<1> SUFFICES ASSUME instr \in Instrs, GenSubPtr PROVE SafeLines(code')
  OBVIOUS
<1> DEFINE w == Widened(instr.b)
           n == Unary("neg", R(RAX, 8))
<1>1. code' = Offset(instr.a, <<w, n>>)
  BY DEF GenSubPtr, Gen
<1>2. Safe(w) /\ Safe(n)
  BY WidenedSafe, ScratchSafe
<1> HIDE DEF w, n
<1>3. SafeLines(<<w, n>>)
  BY <1>2, Two
<1>4. instr.k \in {"add", "sub"}
  BY DEF GenSubPtr
<1>5. QED
  BY <1>1, <1>3, <1>4, OffsetSafe

LEMMA GenSubSafe == GenSub => SafeLines(code')
<1> SUFFICES ASSUME GenSub PROVE SafeLines(code')
  OBVIOUS
<1> DEFINE r   == Resolve(instr.b)
           rax == Part(RAX, instr.t)
           s   == Bin("sub", Dest, r.op)
           m   == Bin("mov", Dest, A)
           x   == Bin("xor", R(RAX, 8), R(RAX, 8))
           a   == Bin("mov", rax, A)
           b   == Bin("sub", rax, r.op)
           d   == Bin("mov", Dest, rax)
<1>1. \/ code' = r.pre \o <<s>>
      \/ code' = r.pre \o <<x, a, b, d>>
      \/ code' = r.pre \o <<m, s>>
  BY Zenon DEF GenSub, Gen
<1>2. Writable(Dest)
  BY DestWritable DEF GenSub
<1>3. Safe(s) /\ Safe(m) /\ Safe(d)
  BY <1>2, WritesSafe
<1>4. Safe(x) /\ Safe(a) /\ Safe(b)
  BY ScratchSafe
<1> HIDE DEF s, m, x, a, b, d
<1>5. SafeLines(<<s>>) /\ SafeLines(<<x, a, b, d>>) /\ SafeLines(<<m, s>>)
  BY <1>3, <1>4, OneLine, Two, Four
<1>6. QED
  BY <1>1, <1>5, ResolvedSafe

LEMMA GenConvertSafe == instr \in Instrs /\ GenConvert => SafeLines(code')
<1> SUFFICES ASSUME instr \in Instrs, GenConvert PROVE SafeLines(code')
  OBVIOUS
<1> DEFINE from    == instr.a.t
           To(src) == MovT(GetReg(instr.dest), src, Size(instr.t), Size(from),
                           IsSigned(instr.t), IsSigned(from))
           r       == Resolve(instr.a)
           m       == Bin("mov", Part(RCX, from), r.op)
<1>1. \/ code' = r.pre \o <<m, To(RCX)>>
      \/ code' = <<>>
      \/ code' = <<To(GetReg(instr.a))>>
  BY Zenon DEF GenConvert, Gen
<1>2. \A src : Safe(To(src))
  BY ResultWritable, MovTSafe DEF GenConvert
<1>3. Safe(m)
  BY ScratchSafe
<1> HIDE DEF m, To
<1>4. SafeLines(<<m, To(RCX)>>) /\ SafeLines(<<To(GetReg(instr.a))>>)
  BY <1>2, <1>3, OneLine, Two
<1>5. QED
  BY <1>1, <1>4, NoLine, ResolvedSafe

LEMMA GenCondJmpSafe == GenCondJmp => SafeLines(code')
<1> SUFFICES ASSUME GenCondJmp PROVE SafeLines(code')
  OBVIOUS
<1> DEFINE rcx == Part(RCX, instr.a.t)
           m   == Bin("mov", rcx, A)
           c(o) == Bin("cmp", o, Imm(1))
           j   == Plain("je")
<1>1. code' = <<m, c(rcx), j>> \/ code' = <<c(A), j>>
  BY Zenon DEF GenCondJmp, Gen
<1>2. Safe(m)
  BY ScratchSafe
<1>3. Safe(j) /\ \A o : Safe(c(o))
  BY HarmlessSafe DEF Harmless
<1> HIDE DEF m, c, j
<1>4. SafeLines(<<m, c(rcx), j>>) /\ SafeLines(<<c(A), j>>)
  BY <1>2, <1>3, Two, Three
<1>5. QED
  BY <1>1, <1>4

LEMMA GenExitSafe == GenExit => SafeLines(code')
<1> SUFFICES ASSUME GenExit PROVE SafeLines(code')
  OBVIOUS
<1> DEFINE x == Bin("xor", R(RDI, 8), R(RDI, 8))
           m == Bin("mov", R(RDI, 1), A)
           n == Bin("mov", R(RAX, 8), Imm(60))
           c == Plain("syscall")
<1>1. code' = <<x, m, n, c>>
  BY DEF GenExit, Gen
<1>2. \A size : Writable(R(RDI, size))
  BY DEF GenExit, Writable, Target, R
<1>3. Safe(x) /\ Safe(m)
  BY <1>2, WritesSafe
<1>4. Safe(n)
  BY ScratchSafe
<1>5. Safe(c)
  BY HarmlessSafe DEF Harmless
<1> HIDE DEF x, m, n, c
<1>6. QED
  BY <1>1, <1>3, <1>4, <1>5, Four

LEMMA SelectSafe == instr \in Instrs /\ Select => SafeLines(code')
BY GenLoadStoreSafe, GenLoadPtrSafe, GenStorePtrSafe, GenNegSafe, GenNotSafe, GenCompSafe,
   GenSimpleBinSafe, GenMulByteSafe, GenDivisionSafe, GenShiftSafe, GenAddPtrSafe,
   GenSubPtrSafe, GenSubSafe, GenConvertSafe, GenCondJmpSafe, GenExitSafe, Zenon DEF Select

LEMMA SelectsOnly == Select => UNCHANGED <<instr, machine, before>>
BY Zenon DEF Select, Gen, GenLoadStore, GenLoadPtr, GenStorePtr, GenNeg, GenNot, GenComp,
   GenSimpleBin, GenMulByte, GenDivision, GenShift, GenAddPtr, GenSubPtr, GenSub,
   GenConvert, GenCondJmp, GenExit

-----------------------------------------------------------------------------
\* KeepsLiveValues says nothing of the lines that are still to be executed.
Inv == /\ instr \in Instrs
       /\ Kept(before, machine)
       /\ SafeLines(code)

\* What may be written depends on the instruction only.
LEMMA SameInstr ==
  ASSUME instr' = instr
  PROVE  /\ \A c : SafeLines(c) => SafeLines(c)'
         /\ \A m, n : Kept(m, n) => Kept(m, n)'
<1>1. Target' = Target
  BY DEF Target, Dest, B
<1>2. \A o : Writable(o)' = Writable(o)
  BY <1>1 DEF Writable
<1>3. \A l : Safe(l)' = Safe(l)
  BY <1>2 DEF Safe
<1>4. ASSUME NEW c, SafeLines(c) PROVE SafeLines(c)'
  BY <1>3, <1>4 DEF SafeLines, Lines
<1>5. ASSUME NEW m, NEW n, Kept(m, n) PROVE Kept(m, n)'
  BY <1>1, <1>2, <1>5 DEF Kept, HasParts
<1>6. QED
  BY <1>4, <1>5

LEMMA Begins == Init => Inv
<1> SUFFICES ASSUME Init PROVE Inv
  OBVIOUS
<1>1. HasParts(machine)
  BY DEF Init, Machine, HasParts, Parts
<1>2. Kept(before, machine)
  BY <1>1, SameKept DEF Init
<1>3. QED
  BY <1>2, NoLine DEF Init, Inv

LEMMA Step == Inv /\ [Next]_vars => Inv'
<1> SUFFICES ASSUME Inv, [Next]_vars PROVE Inv'
  OBVIOUS
<1> USE DEF Inv
<1>1. CASE Select
  <2>1. UNCHANGED <<instr, machine, before>>
    BY <1>1, SelectsOnly
  <2>2. SafeLines(code')
    BY <1>1, SelectSafe
  <2>3. QED
    BY <2>1, <2>2, SameInstr
<1>2. CASE Run
  <2>1. instr' = instr /\ before' = before
    BY <1>2 DEF Run
  <2>2. Kept(before, machine') /\ SafeLines(code')
    <3>1. CASE UNCHANGED <<code, machine>>
      BY <3>1
    <3>2. CASE ~ UNCHANGED <<code, machine>>
      <4>1. /\ machine' = Execute(machine, Head(code))
            /\ code' = Tail(code)
            /\ code # <<>>
        BY <1>2, <3>2 DEF Run
      <4>2. Safe(Head(code)) /\ SafeLines(Tail(code))
        BY <4>1, HeadAndTail
      <4>3. HasParts(machine)
        BY DEF Kept
      <4>4. Kept(machine, machine')
        BY <4>1, <4>2, <4>3, ExecuteKeeps
      <4>5. QED
        BY <4>1, <4>2, <4>4, KeptTwice
    <3>3. QED
      BY <3>1, <3>2
  <2>3. QED
    BY <2>1, <2>2, SameInstr
<1>3. CASE UNCHANGED vars
  BY <1>3, SameInstr DEF vars
<1>4. QED
  BY <1>1, <1>2, <1>3 DEF Next, Done

LEMMA Meets == Inv => KeepsLiveValues
BY DEF Inv, Kept, KeepsLiveValues, Writable, R

\* For bytes of any width, every MIR instruction whose result is in a register,
\* operands in any placement and any content of the machine: at every line of the
\* code gen selects, no register but the destination and RAX, RCX and RDX, and no
\* memory but the destination, differs from what it was before the instruction.
THEOREM LiveValuesKept == Spec => []KeepsLiveValues
<1>1. Spec => []Inv
  BY Begins, Step, PTL DEF Spec
<1>2. QED
  BY <1>1, Meets, PTL

-----------------------------------------------------------------------------
\* Powers of two, and the spans of the widths.

Doubled(p, x)  == 2 * p
Increased(s, x) == s + x

Doubling  == INSTANCE FoldFacts WITH Op <- Doubled
Summation == INSTANCE FoldFacts WITH Op <- Increased

LEMMA PowerIs == \A n \in Nat : Power[n] = IF n = 0 THEN 1 ELSE 2 * Power[n - 1]
<1> DEFINE Table(f) == f = [n \in Nat |-> IF n = 0 THEN 1 ELSE 2 * f[n - 1]]
<1>1. 0 \in Int /\ Doubling!Segment(0, Nat)
  BY DEF Doubling!Segment
<1>2. PICK f : Doubling!Recursion(f, 0, 1, <<>>, Nat)
  BY <1>1, Doubling!RecursionExists
<1>3. \A n \in Nat : f[n] = IF n = 0 THEN 1 ELSE 2 * f[n - 1]
  BY <1>2 DEF Doubled, Doubling!Recursion
<1>4. f = [n \in Nat |-> f[n]]
  BY <1>2 DEF Doubling!Recursion
<1>5. Table(f)
  BY <1>3, <1>4
<1>6. Power = CHOOSE g : Table(g)
  BY DEF Power
<1> HIDE DEF Table
<1>7. Table(Power)
  BY <1>5, <1>6
<1> QED BY <1>7 DEF Table

LEMMA PowerZero == Power[0] = 1
BY PowerIs

LEMMA PowerNext == \A n \in Nat : Power[n + 1] = 2 * Power[n]
<1>1. \A n \in Nat : n + 1 \in Nat /\ n + 1 # 0 /\ (n + 1) - 1 = n
  OBVIOUS
<1> QED BY <1>1, PowerIs

LEMMA PowerPositive == \A n \in Nat : Power[n] \in Nat \ {0}
<1> DEFINE S == {n \in Nat : Power[n] \in Nat \ {0}}
<1>1. 0 \in S
  BY PowerZero
<1>2. \A n \in Nat : n \in S => n + 1 \in S
  BY PowerNext
<1> HIDE DEF S
<1>3. \A n \in Nat : n \in S
  BY <1>1, <1>2, Doubling!Induct
<1> QED BY <1>3 DEF S

LEMMA PowerSum == \A m, n \in Nat : Power[m + n] = Power[m] * Power[n]
<1> TAKE m \in Nat
<1> DEFINE S == {n \in Nat : Power[m + n] = Power[m] * Power[n]}
<1>1. 0 \in S
  BY PowerZero, PowerPositive
<1>2. ASSUME NEW n \in Nat, n \in S PROVE n + 1 \in S
  <2> DEFINE p == Power[m]
             q == Power[n]
  <2>1. p \in Nat /\ q \in Nat
    BY PowerPositive
  <2>2. Power[m + (n + 1)] = 2 * (p * q)
    <3>1. m + n \in Nat /\ (m + n) + 1 = m + (n + 1)
      OBVIOUS
    <3>2. Power[m + n] = p * q
      BY <1>2
    <3> QED BY <3>1, <3>2, PowerNext
  <2>3. Power[n + 1] = 2 * q
    BY PowerNext
  <2> HIDE DEF p, q
  <2>4. 2 * (p * q) = p * (2 * q)
    BY <2>1
  <2> QED BY <2>2, <2>3, <2>4 DEF p
<1> HIDE DEF S
<1>3. \A n \in Nat : n \in S
  BY <1>1, <1>2, Doubling!Induct
<1> QED BY <1>3 DEF S

Widths == {1, 2, 4, 8}

LEMMA BitsNat == \A s \in Widths : Bits(s) \in Nat \ {0}
BY ByteWidth DEF Bits, Widths

LEMMA SpanPositive == \A s \in Widths : Span(s) \in Nat \ {0}
BY BitsNat, PowerPositive DEF Span

\* The widths double.
LEMMA Spans == /\ Span(2) = Span(1) * Span(1)
               /\ Span(4) = Span(2) * Span(2)
               /\ Span(8) = Span(4) * Span(4)
               /\ Span(1) >= 2
<1>1. /\ Bits(1) \in Nat /\ Bits(2) \in Nat /\ Bits(4) \in Nat
  BY BitsNat DEF Widths
<1>2. Bits(2) = Bits(1) + Bits(1) /\ Bits(4) = Bits(2) + Bits(2) /\ Bits(8) = Bits(4) + Bits(4)
  BY ByteWidth DEF Bits
<1>3. Span(1) >= 2
  <2>1. Bits(1) - 1 \in Nat /\ Bits(1) = (Bits(1) - 1) + 1
    BY BitsNat DEF Widths
  <2>2. Power[Bits(1)] = 2 * Power[Bits(1) - 1]
    BY <2>1, PowerNext
  <2> QED BY <2>1, <2>2, PowerPositive DEF Span
<1> QED BY <1>1, <1>2, <1>3, PowerSum DEF Span

LEMMA SpanDivides ==
  \A s \in Widths : \E k \in Nat \ {0} : Span(8) = k * Span(s)
<1> DEFINE x == Span(1)
<1>1. x \in Nat \ {0}
  BY SpanPositive DEF Widths
<1>2. Span(2) = x * x /\ Span(4) = Span(2) * Span(2) /\ Span(8) = Span(4) * Span(4)
  BY Spans
<1> HIDE DEF x
<1>3. Span(2) \in Nat \ {0} /\ Span(4) \in Nat \ {0} /\ Span(8) \in Nat \ {0}
  BY SpanPositive DEF Widths
<1>4. Span(8) = (Span(4) * Span(2) * x) * x
  <2>1. \A a, b \in Nat : b = x * x => a * b = (a * x) * x
    BY <1>1
  <2> QED BY <1>1, <1>2, <1>3, <2>1
<1>5. Span(8) = (Span(4) * Span(2)) * Span(2)
  BY <1>2, <1>3
<1>6. Span(8) = 1 * Span(8)
  BY <1>3
<1>7. \A a, b \in Nat \ {0} : a * b \in Nat \ {0}
  OBVIOUS
<1>8. Span(4) * Span(2) * x \in Nat \ {0} /\ Span(4) * Span(2) \in Nat \ {0}
  BY <1>1, <1>3, <1>7
<1> QED BY <1>2, <1>3, <1>4, <1>5, <1>6, <1>8 DEF Widths, x

LEMMA LowIn == ASSUME NEW v \in Int, NEW s \in Widths
               PROVE  Low(v, s) \in 0 .. Span(s) - 1
BY SpanPositive DEF Low

LEMMA LowBelow ==
  ASSUME NEW v \in Int, NEW s \in Widths
  PROVE  Low(v, s) \in Words /\ \E q \in Int : v = q * Span(s) + Low(v, s)
<1> DEFINE n == Span(s)
<1>1. n \in Nat \ {0}
  BY SpanPositive
<1>2. PICK k \in Nat \ {0} : Span(8) = k * n
  BY SpanDivides
<1> HIDE DEF n
<1>3. k * n >= n
  BY <1>1
<1>4. v % n \in 0 .. n - 1 /\ v \div n \in Int /\ v = n * (v \div n) + (v % n)
  BY <1>1
<1>5. v = (v \div n) * n + (v % n)
  <2> DEFINE q == v \div n
  <2>1. q \in Int
    BY <1>4
  <2> HIDE DEF q
  <2>2. n * q = q * n
    BY <1>1, <2>1
  <2> QED BY <1>4, <2>2 DEF q
<1> QED BY <1>1, <1>2, <1>3, <1>4, <1>5 DEF Low, Words, n

LEMMA WritePartIn ==
  ASSUME NEW old \in Words, NEW s \in Widths, NEW v \in Int
  PROVE  /\ old - Low(old, s) + Low(v, s) \in Words
         /\ WritePart(old, s, v) \in Words
<1> DEFINE n == Span(s)
           l == Low(old, s)
           w == Low(v, s)
<1>1. n \in Nat \ {0} /\ Span(8) \in Nat \ {0}
  BY SpanPositive DEF Widths
<1>2. PICK k \in Nat \ {0} : Span(8) = k * n
  BY SpanDivides
<1>3. old \in Int /\ old >= 0 /\ old < Span(8)
  BY <1>1 DEF Words
<1>4. l \in 0 .. n - 1 /\ w \in 0 .. n - 1
  BY <1>3, LowIn
<1>5. PICK q \in Int : old = q * n + l
  BY <1>3, LowBelow
<1>6. Low(v, s) \in Words
  BY LowBelow
<1> HIDE DEF n, l, w
<1>7. q >= 0
  <2>1. ASSUME q < 0 PROVE FALSE
    <3>1. q * n <= -n
      BY <1>1, <2>1
    <3> QED BY <1>1, <1>3, <1>4, <1>5, <3>1
  <2> QED BY <2>1
<1>8. q <= k - 1
  <2>1. ASSUME q >= k PROVE FALSE
    <3>1. q * n >= k * n
      BY <1>1, <2>1
    <3> QED BY <1>1, <1>2, <1>3, <1>4, <1>5, <3>1
  <2> QED BY <2>1
<1>9. q * n >= 0 /\ q * n <= k * n - n
  <2>1. q * n >= 0
    BY <1>1, <1>7
  <2>2. q * n <= (k - 1) * n
    BY <1>1, <1>7, <1>8
  <2>3. (k - 1) * n = k * n - n
    BY <1>1
  <2> QED BY <2>1, <2>2, <2>3
<1>10. q * n \in Int
  BY <1>1
<1>11. old - l + w \in 0 .. Span(8) - 1
  BY <1>1, <1>2, <1>4, <1>5, <1>9, <1>10
<1> QED BY <1>6, <1>11 DEF WritePart, Words, l, w

LEMMA SignedIn == ASSUME NEW v \in Int, NEW s \in Widths PROVE AsSigned(v, s) \in Int
BY LowIn, SpanPositive DEF AsSigned

LEMMA BitIn == ASSUME NEW w \in Int, NEW i \in Nat PROVE Bit(w, i) \in 0 .. 1
BY PowerPositive DEF Bit

LEMMA AndIn == ASSUME NEW a \in Int, NEW b \in Int PROVE And(a, b) \in Int
<1> DEFINE term(n) == Power[n - 1] * Bit(a, n - 1) * Bit(b, n - 1)
           Table(f) == f = [n \in Nat |-> IF n = 0 THEN 0 ELSE f[n - 1] + term(n)]
           q == [n \in Nat |-> term(n)]
           S == {n \in Nat : (CHOOSE f : Table(f))[n] \in Int}
<1>1. 0 \in Int /\ Summation!Segment(0, Nat)
  BY DEF Summation!Segment
<1>2. \A n \in Nat : q[n] = term(n)
  OBVIOUS
<1>3. ASSUME NEW n \in Nat, n # 0 PROVE term(n) \in Int
  <2>1. n - 1 \in Nat
    BY <1>3
  <2> QED BY <2>1, BitIn, PowerPositive
<1> HIDE DEF term, q
<1>4. PICK f : Summation!Recursion(f, 0, 0, q, Nat)
  BY <1>1, Summation!RecursionExists
<1>5. \A n \in Nat : f[n] = IF n = 0 THEN 0 ELSE f[n - 1] + term(n)
  BY <1>2, <1>4 DEF Increased, Summation!Recursion
<1>6. f = [n \in Nat |-> f[n]]
  BY <1>4 DEF Summation!Recursion
<1>7. Table(f)
  BY <1>5, <1>6
<1> DEFINE g == CHOOSE h : Table(h)
<1>8. And(a, b) = g[Bits(8)]
  BY DEF And, term
<1>9. Table(g)
  <2> HIDE DEF Table
  <2> QED BY <1>7
<1>10. \A n \in Nat : g[n] = IF n = 0 THEN 0 ELSE g[n - 1] + term(n)
  <2> HIDE DEF g
  <2> QED BY <1>9
<1> HIDE DEF g, Table
<1>11. \A n \in Nat : g[n] \in Int
  <2> DEFINE T == {n \in Nat : g[n] \in Int}
  <2>1. 0 \in T
    BY <1>10
  <2>2. ASSUME NEW n \in Nat, n \in T PROVE n + 1 \in T
    <3>1. n + 1 \in Nat /\ n + 1 # 0 /\ (n + 1) - 1 = n
      OBVIOUS
    <3>2. g[n + 1] = g[n] + term(n + 1)
      BY <1>10, <3>1
    <3> QED BY <1>3, <2>2, <3>1, <3>2
  <2> HIDE DEF T
  <2>3. \A n \in Nat : n \in T
    BY <2>1, <2>2, Summation!Induct
  <2> QED BY <2>3 DEF T
<1> QED BY <1>8, <1>11, BitsNat DEF Widths

-----------------------------------------------------------------------------
\* Lines the assembler can be given, and their operands.

Regs   == {R(r, s) : r \in HwRegs, s \in Widths}
Imms   == {Imm(v) : v \in Int}
Cells  == {Cell(s) : s \in Widths}
Derefs == {Deref(a, s) : a \in Regs \cup Imms, s \in Widths}

Places   == Regs \cup Cells \cup Derefs
Operands == Places \cup Imms

Sets == {"sete", "setne", "setl", "setg", "setle", "setge", "setb", "seta", "setbe", "setae"}

Plains == {"cdq", "cqo", "nop", "je", "syscall"}

Extensions == {"movsx", "movsxd", "movzx"}

TwoAddr == {"mov", "add", "sub", "and", "or", "xor", "imul", "shl", "sal", "shr", "sar"}

\* The lines gen may write, whether the assembler has them or not.
Formed ==
  {Plain(op) : op \in Plains}
    \cup {Unary(op, d) : op \in Sets \cup {"neg", "not"}, d \in Places}
    \cup {Unary(op, d) : op \in {"div", "idiv"}, d \in Regs}
    \cup {Bin("cmp", d, s) : d \in Operands, s \in Operands}
    \cup {Bin(op, d, s) : op \in TwoAddr, d \in Places, s \in Operands}
    \cup {Bin(op, d, s) : op \in Extensions, d \in Regs, s \in Regs}

LEMMA FormedCases ==
  ASSUME NEW l \in Formed
  PROVE  \/ \E op \in Plains : l = Plain(op)
         \/ \E op \in Sets \cup {"neg", "not"}, d \in Places : l = Unary(op, d)
         \/ \E op \in {"div", "idiv"}, d \in Regs : l = Unary(op, d)
         \/ \E d \in Operands, s \in Operands : l = Bin("cmp", d, s)
         \/ \E op \in TwoAddr, d \in Places, s \in Operands : l = Bin(op, d, s)
         \/ \E op \in Extensions, d \in Regs, s \in Regs : l = Bin(op, d, s)
BY DEF Formed

LEMMA OperandsAre ==
  ASSUME NEW o
  PROVE  /\ o \in Regs => o.k = "reg" /\ o.r \in HwRegs /\ o.size \in Widths
         /\ o \in Imms => o.k = "imm" /\ o.v \in Int
         /\ o \in Cells => o.k = "cell" /\ o.size \in Widths
         /\ o \in Derefs => o.k = "deref" /\ o.size \in Widths /\ o.a \in Regs \cup Imms
BY DEF Regs, Imms, Cells, Derefs, R, Imm, Cell, Deref

LEMMA PlacesAre ==
  ASSUME NEW o \in Places
  PROVE  o.size \in Widths /\ o.k \in {"reg", "cell", "deref"}
BY OperandsAre DEF Places

LEMMA FormedKinds ==
  ASSUME NEW l \in Formed
  PROVE  {l.d.k, l.s.k} \subseteq {"reg", "imm", "cell", "deref"}
<1>1. \A o \in Operands : o.k \in {"reg", "imm", "cell", "deref"}
  BY OperandsAre DEF Operands, Places
<1>2. Imm(0) \in Operands /\ Regs \subseteq Operands /\ Places \subseteq Operands
  BY DEF Operands, Places, Imms
<1>3. \A op, d : Unary(op, d).d = d /\ Unary(op, d).s = Imm(0)
  BY DEF Unary
<1>4. \A op, d, s : Bin(op, d, s).d = d /\ Bin(op, d, s).s = s
  BY DEF Bin
<1>5. \A op : Plain(op).d = Imm(0) /\ Plain(op).s = Imm(0)
  BY DEF Plain
<1>6. l.d \in Operands /\ l.s \in Operands
  BY <1>2, <1>3, <1>4, <1>5, FormedCases
<1> QED BY <1>1, <1>6

-----------------------------------------------------------------------------
\* The machine holds words.

Holding(m) ==
  /\ DOMAIN m = Parts
  /\ m.reg \in [HwRegs -> Words]
  /\ m.cell \in Words /\ m.pointee \in Words
  /\ m.fault \in {"none", "divide", "wild"}

LEMMA WordsInt == Words \subseteq Int
BY DEF Words

LEMMA ValIn ==
  ASSUME NEW m, Holding(m), NEW o \in Operands, NEW s \in Widths
  PROVE  Val(m, o, s) \in Int
<1>1. \A v \in Int : Low(v, s) \in Int
  BY LowIn
<1>2. CASE o \in Regs
  BY <1>1, <1>2, OperandsAre, WordsInt DEF Val, Holding
<1>3. CASE o \in Imms
  BY <1>1, <1>3, OperandsAre DEF Val
<1>4. CASE o \in Cells
  BY <1>1, <1>4, OperandsAre, WordsInt DEF Val, Holding
<1>5. CASE o \in Derefs
  BY <1>1, <1>5, OperandsAre, WordsInt DEF Val, Holding
<1> QED BY <1>2, <1>3, <1>4, <1>5 DEF Operands, Places

LEMMA PutHolds ==
  ASSUME NEW m, Holding(m), NEW o \in Places, NEW v \in Int
  PROVE  Holding(Put(m, o, v))
<1>1. CASE o \in Regs
  <2> DEFINE w == WritePart(m.reg[o.r], o.size, v)
             f == [m.reg EXCEPT ![o.r] = w]
             n == [m EXCEPT !.reg = f]
  <2>1. o.k = "reg" /\ o.r \in HwRegs /\ o.size \in Widths
    BY <1>1, OperandsAre
  <2>2. Put(m, o, v) = n
    BY <2>1 DEF Put
  <2>3. w \in Words
    BY <2>1, WritePartIn DEF Holding
  <2> HIDE DEF w
  <2>4. f \in [HwRegs -> Words]
    BY <2>1, <2>3 DEF Holding
  <2> HIDE DEF f
  <2>5. Holding(n)
    BY <2>4 DEF Holding, Parts
  <2> QED BY <2>2, <2>5
<1>2. CASE o \in Cells
  <2> DEFINE w == m.cell - Low(m.cell, o.size) + Low(v, o.size)
  <2>1. Put(m, o, v) = [m EXCEPT !.cell = w]
    BY <1>2, OperandsAre DEF Put
  <2>2. w \in Words
    BY <1>2, OperandsAre, WritePartIn DEF Holding
  <2> HIDE DEF w
  <2> QED BY <2>1, <2>2 DEF Holding, Parts
<1>3. CASE o \in Derefs
  <2> DEFINE w == m.pointee - Low(m.pointee, o.size) + Low(v, o.size)
  <2>1. Put(m, o, v) = [m EXCEPT !.pointee = w]
    BY <1>3, OperandsAre DEF Put
  <2>2. w \in Words
    BY <1>3, OperandsAre, WritePartIn DEF Holding
  <2> HIDE DEF w
  <2> QED BY <2>1, <2>2 DEF Holding, Parts
<1> QED BY <1>1, <1>2, <1>3 DEF Places

LEMMA FlagsHold ==
  ASSUME NEW m, Holding(m)
  PROVE  /\ \A v \in {"none", "divide", "wild"} : Holding([m EXCEPT !.fault = v])
         /\ \A v : Holding([m EXCEPT !.cmp = v])
         /\ \A v : Holding([m EXCEPT !.jumped = v])
BY DEF Holding, Parts

LEMMA ScratchPlaces == \A s \in Widths : R(RAX, s) \in Places /\ R(RDX, s) \in Places
BY DEF Places, Regs, HwRegs, RAX, RDX

LEMMA QuotientIn ==
  ASSUME NEW a \in Int, NEW b \in Int, b # 0
  PROVE  Quotient(a, b) \in Int /\ Remainder(a, b) \in Int
<1>1. Magnitude(a) \in Nat /\ Magnitude(b) \in Nat \ {0}
  BY DEF Magnitude
<1>2. Magnitude(a) \div Magnitude(b) \in Int
  BY <1>1
<1>3. SignOf(a) \in Int /\ SignOf(b) \in Int
  BY DEF SignOf
<1>4. \A p, q \in Int : p * q \in Int
  OBVIOUS
<1>5. Quotient(a, b) \in Int
  BY <1>2, <1>3, <1>4 DEF Quotient
<1>6. Remainder(a, b) \in Int
  BY <1>4, <1>5 DEF Remainder
<1> QED BY <1>5, <1>6

LEMMA DivideHolds ==
  ASSUME NEW m, Holding(m), NEW op, NEW o \in Regs
  PROVE  Holding(Divide(m, op, o))
<1> DEFINE size == o.size
           hi   == Low(m.reg[RDX], size)
           lo   == Low(m.reg[RAX], size)
           a    == IF op = "div" THEN hi * Span(size) + lo
                                 ELSE AsSigned(hi, size) * Span(size) + lo
           b    == IF op = "div" THEN Val(m, o, size) ELSE AsSigned(Val(m, o, size), size)
           q    == Quotient(a, b)
           n    == Put(m, R(RAX, size), q)
           done == Put(n, R(RDX, size), Remainder(a, b))
<1>1. size \in Widths /\ o \in Operands
  BY OperandsAre DEF Operands, Places
<1>2. hi \in Int /\ lo \in Int /\ Span(size) \in Int
  <2>1. m.reg[RDX] \in Int /\ m.reg[RAX] \in Int
    <3>1. RDX \in HwRegs /\ RAX \in HwRegs
      BY DEF RDX, RAX, HwRegs
    <3> QED BY <3>1, WordsInt DEF Holding
  <2> QED BY <1>1, <2>1, LowIn, SpanPositive
<1>3. AsSigned(hi, size) \in Int
  BY <1>1, <1>2, SignedIn
<1>4. Val(m, o, size) \in Int
  BY <1>1, ValIn
<1>5. b \in Int
  BY <1>1, <1>4, SignedIn
<1>6. a \in Int
  <2>1. \A x, y, z \in Int : x * y + z \in Int
    OBVIOUS
  <2> QED BY <1>2, <1>3, <2>1
<1>7. \/ \E v \in {"none", "divide", "wild"} : Divide(m, op, o) = [m EXCEPT !.fault = v]
      \/ b # 0 /\ Divide(m, op, o) = done
  BY Zenon DEF Divide
<1> HIDE DEF a, b
<1>8. b # 0 => q \in Int /\ Remainder(a, b) \in Int
  BY <1>5, <1>6, QuotientIn
<1> HIDE DEF q
<1>9. b # 0 => Holding(n)
  BY <1>1, <1>8, ScratchPlaces, PutHolds
<1> HIDE DEF n
<1>10. b # 0 => Holding(done)
  BY <1>1, <1>8, <1>9, ScratchPlaces, PutHolds
<1> HIDE DEF done
<1>11. \A v \in {"none", "divide", "wild"} : Holding([m EXCEPT !.fault = v])
  BY FlagsHold
<1> QED BY <1>7, <1>10, <1>11, Zenon

LEMMA CountIn == ASSUME NEW c \in Int, NEW s PROVE Count(c, s) \in Nat
<1>1. Bits(8) \in Nat \ {0} /\ Bits(4) \in Nat \ {0}
  BY BitsNat DEF Widths
<1>2. Bits(IF s = 8 THEN 8 ELSE 4) \in Nat \ {0}
  BY <1>1
<1> QED BY <1>2 DEF Count

LEMMA ArithIn ==
  ASSUME NEW op \in TwoAddr, NEW a \in Int, NEW b \in Int, NEW s \in Widths
  PROVE  Arith(op, a, b, s) \in Int
<1>1. And(a, b) \in Int
  BY AndIn
<1>2. Or(a, b) \in Int /\ Xor(a, b) \in Int
  BY <1>1 DEF Or, Xor
<1>3. AsSigned(a, s) \in Int /\ AsSigned(b, s) \in Int
  BY SignedIn
<1>4. AsSigned(a, s) * AsSigned(b, s) \in Int
  BY <1>3
<1> DEFINE c == Count(b, s)
<1>5. c \in Nat
  BY CountIn
<1> HIDE DEF c
<1>6. Power[c] \in Nat \ {0}
  BY <1>5, PowerPositive
<1>7. a \div Power[c] \in Int /\ AsSigned(a, s) \div Power[c] \in Int
  BY <1>3, <1>6
<1>8. Shifted(a, c, s) \in Int
  <2>1. CASE c >= Bits(s)
    BY <2>1 DEF Shifted
  <2>2. CASE ~ (c >= Bits(s))
    <3>1. Bits(s) \in Nat /\ Bits(s) - c \in Nat
      BY <1>5, <2>2, BitsNat
    <3>2. Power[Bits(s) - c] \in Nat \ {0}
      BY <3>1, PowerPositive
    <3>3. a % Power[Bits(s) - c] \in Int
      BY <3>2
    <3> QED BY <1>6, <2>2, <3>3 DEF Shifted
  <2> QED BY <2>1, <2>2
<1> QED BY <1>1, <1>2, <1>4, <1>7, <1>8 DEF Arith, TwoAddr, c

LEMMA SpreadHolds ==
  ASSUME NEW m, Holding(m), NEW s \in Widths
  PROVE  Holding(SpreadSign(m, s))
<1>1. Span(s) - 1 \in Int
  BY SpanPositive
<1>2. (IF AsSigned(m.reg[RAX], s) < 0 THEN Span(s) - 1 ELSE 0) \in Int
  BY <1>1
<1> QED BY <1>2, ScratchPlaces, PutHolds DEF SpreadSign

LEMMA ExecuteHolds ==
  ASSUME NEW m, Holding(m), NEW l \in Formed
  PROVE  Holding(Execute(m, l))
<1> DEFINE size == l.d.size
           a == Val(m, l.d, size)
           b == Val(m, l.s, IF l.s.k = "imm" THEN size ELSE l.s.size)
<1>1. CASE Wild(m, l.d) \/ Wild(m, l.s)
  <2>1. \E v \in {"none", "divide", "wild"} : Execute(m, l) = [m EXCEPT !.fault = v]
    BY <1>1 DEF Execute
  <2>2. \A v \in {"none", "divide", "wild"} : Holding([m EXCEPT !.fault = v])
    BY FlagsHold
  <2> QED BY <2>1, <2>2, Zenon
<1>2. CASE ~ (Wild(m, l.d) \/ Wild(m, l.s))
  <2>1. ASSUME NEW d \in Places, l.d = d PROVE size \in Widths /\ a \in Int
    <3>1. size \in Widths /\ l.d \in Operands
      BY <2>1, PlacesAre DEF Operands
    <3> QED BY <3>1, ValIn
  <2>2. CASE \E op \in Plains : l = Plain(op)
    <3>1. l.op \in Plains
      BY <2>2 DEF Plain
    <3>2. Holding(SpreadSign(m, 4)) /\ Holding(SpreadSign(m, 8))
      BY SpreadHolds DEF Widths
    <3>3. \A v : Holding([m EXCEPT !.jumped = v])
      BY FlagsHold
    <3>4. \/ Execute(m, l) \in {SpreadSign(m, 4), SpreadSign(m, 8), m}
          \/ Execute(m, l) = [m EXCEPT !.jumped = m.cmp.a = m.cmp.b]
      BY <1>2, <3>1 DEF Execute, Plains
    <3> QED BY <3>2, <3>3, <3>4
  <2>3. CASE \E op \in Sets \cup {"neg", "not"}, d \in Places : l = Unary(op, d)
    <3>1. PICK op \in Sets \cup {"neg", "not"}, d \in Places : l = Unary(op, d)
      BY <2>3
    <3>2. l.op = op /\ l.d = d
      BY <3>1 DEF Unary
    <3>3. size \in Widths /\ a \in Int
      BY <2>1, <3>2
    <3>4. Span(size) - 1 - a \in Int /\ -a \in Int
      BY <3>3, SpanPositive
    <3>5. \A c : (IF Holds(op, c) THEN 1 ELSE 0) \in Int
      OBVIOUS
    <3>6. \E v \in Int : Execute(m, l) = Put(m, d, v)
      <4>1. CASE op \in Sets
        <5>1. Execute(m, l) = Put(m, l.d, IF Holds(l.op, m.cmp) THEN 1 ELSE 0)
          BY <1>2, <3>2, <4>1 DEF Execute, Sets
        <5> QED BY <3>2, <3>5, <5>1
      <4>2. CASE op = "neg"
        <5>1. Execute(m, l) = Put(m, l.d, -a)
          BY <1>2, <3>2, <4>2 DEF Execute
        <5> QED BY <3>2, <3>4, <5>1
      <4>3. CASE op = "not"
        <5>1. Execute(m, l) = Put(m, l.d, Span(size) - 1 - a)
          BY <1>2, <3>2, <4>3 DEF Execute
        <5> QED BY <3>2, <3>4, <5>1
      <4> QED BY <4>1, <4>2, <4>3
    <3> QED BY <3>6, PutHolds
  <2>4. CASE \E op \in {"div", "idiv"}, d \in Regs : l = Unary(op, d)
    <3>1. PICK op \in {"div", "idiv"}, d \in Regs : l = Unary(op, d)
      BY <2>4
    <3>2. l.op = op /\ l.d = d
      BY <3>1 DEF Unary
    <3>3. Execute(m, l) = Divide(m, op, d)
      BY <1>2, <3>2 DEF Execute
    <3> QED BY <3>3, DivideHolds
  <2>5. CASE \E d \in Operands, s \in Operands : l = Bin("cmp", d, s)
    <3>1. l.op = "cmp"
      BY <2>5 DEF Bin
    <3>2. \E v : Execute(m, l) = [m EXCEPT !.cmp = v]
      BY <1>2, <3>1 DEF Execute
    <3>3. \A v : Holding([m EXCEPT !.cmp = v])
      BY FlagsHold
    <3> QED BY <3>2, <3>3, Zenon
  <2>6. CASE \E op \in TwoAddr, d \in Places, s \in Operands : l = Bin(op, d, s)
    <3>1. PICK op \in TwoAddr, d \in Places, s \in Operands : l = Bin(op, d, s)
      BY <2>6
    <3>2. l.op = op /\ l.d = d /\ l.s = s
      BY <3>1 DEF Bin
    <3>3. size \in Widths /\ a \in Int
      BY <2>1, <3>2
    <3>4. b \in Int
      <4>1. (IF l.s.k = "imm" THEN size ELSE l.s.size) \in Widths
        BY <3>2, <3>3, OperandsAre, PlacesAre DEF Operands
      <4> QED BY <3>2, <4>1, ValIn
    <3>5. Execute(m, l) = Put(m, l.d, Arith(l.op, a, b, size))
      BY <1>2, <3>2 DEF Execute, TwoAddr
    <3> HIDE DEF a, b
    <3>6. Arith(op, a, b, size) \in Int
      BY <3>3, <3>4, ArithIn
    <3> QED BY <3>2, <3>5, <3>6, PutHolds
  <2>7. CASE \E op \in Extensions, d \in Regs, s \in Regs : l = Bin(op, d, s)
    <3>1. PICK op \in Extensions, d \in Regs, s \in Regs : l = Bin(op, d, s)
      BY <2>7
    <3>2. l.op = op /\ l.d = d /\ l.s = s
      BY <3>1 DEF Bin
    <3>3. s.size \in Widths /\ s.k = "reg" /\ s \in Operands /\ d \in Places
      BY OperandsAre DEF Operands, Places
    <3>4. b \in Int
      BY <3>2, <3>3, ValIn
    <3>5. AsSigned(b, s.size) \in Int
      BY <3>3, <3>4, SignedIn
    <3>6. Execute(m, l) \in {Put(m, l.d, AsSigned(b, l.s.size)), Put(m, l.d, b)}
      BY <1>2, <3>2 DEF Execute, Extensions
    <3> HIDE DEF b
    <3>7. \E v \in Int : Execute(m, l) = Put(m, d, v)
      BY <3>2, <3>4, <3>5, <3>6
    <3> QED BY <3>3, <3>7, PutHolds
  <2> QED BY <2>2, <2>3, <2>4, <2>5, <2>6, <2>7, FormedCases
<1> QED BY <1>1, <1>2

-----------------------------------------------------------------------------
\* Immediates.

\* The integers that are a word of a width, with its sign or without.
Literals(s) == -(Span(s) \div 2) .. Span(s) - 1

LEMMA Half == \A s \in Widths : Span(s) \div 2 \in Nat /\ Span(s) \div 2 <= Span(s) - 1
BY SpanPositive

LEMMA SpansGrow == Span(1) \in 2 .. Span(2) /\ Span(2) <= Span(4) /\ Span(4) <= Span(8)
                   /\ Span(4) >= 16 /\ Span(4) >= 2 * Span(1)
<1> DEFINE a == Span(1)
           b == Span(2)
           c == Span(4)
<1>1. a \in Nat /\ b \in Nat /\ c \in Nat /\ a >= 2
  BY SpanPositive, Spans DEF Widths
<1>2. b = a * a /\ c = b * b /\ Span(8) = c * c
  BY Spans
<1> HIDE DEF a, b, c
<1>3. \A x, y \in Nat : x >= 2 /\ y >= x => x * y >= 2 * y /\ x * y >= y
  OBVIOUS
<1>4. b >= 2 * a
  BY <1>1, <1>2, <1>3
<1>5. c >= 2 * b
  BY <1>1, <1>2, <1>3, <1>4
<1>6. Span(8) >= c
  BY <1>1, <1>2, <1>3, <1>4, <1>5
<1>7. c >= 16
  <2>1. b >= 4
    BY <1>1, <1>4
  <2>2. b * b >= 4 * b
    BY <1>1, <2>1
  <2> QED BY <1>1, <1>2, <2>1, <2>2
<1> QED BY <1>1, <1>4, <1>5, <1>6, <1>7 DEF a, b, c

\* The small immediates of the lines gen always writes fit everywhere.
LEMMA SmallFits == \A v \in {0, 1}, s \in Widths : v \in Imm32 /\ v \in Literals(s)
<1>1. \A s \in Widths : Span(s) \in Nat /\ Span(s) >= 2
  BY SpansGrow, SpanPositive DEF Widths
<1>2. Span(4) \div 2 - 1 \in Int /\ Span(4) \div 2 >= 2
  BY SpansGrow, SpanPositive DEF Widths
<1> QED BY <1>1, <1>2, Half DEF Literals, Imm32, Widths

LEMMA SizeIn == \A t \in Basic : Size(t) \in Widths
BY DEF Basic, Size, Sizes, Widths

LEMMA ValuesFit == ASSUME NEW t \in Basic PROVE Values(t) \subseteq Literals(Size(t))
<1>1. Size(t) \in Widths
  BY SizeIn
<1>2. Span(Size(t)) \in Nat \ {0}
  BY <1>1, SpanPositive
<1> QED BY <1>2 DEF Values, Literals

-----------------------------------------------------------------------------
\* Lines that fit: the assembler has them, if the instruction means something.

Assured == Commutes(instr) /\ Comparable(instr) /\ Defined

FitLines == {l \in Formed : Assured => Encodable(l)}

\* An operand to move to a register of a width; one of any other instruction.
Loads(o, s) ==
  /\ o \in Operands
  /\ IF o.k = "imm" THEN o.v \in Literals(s) ELSE o.size = s

Takes(o, s) == Loads(o, s) /\ ~Memory(o) /\ (o.k = "imm" /\ s = 8 => o.v \in Imm32)

LEMMA TwoAddrFormed ==
  ASSUME NEW op \in TwoAddr, NEW d \in Places, NEW s \in Operands
  PROVE  Bin(op, d, s) \in Formed
BY DEF Formed

LEMMA RegIn == ASSUME NEW r \in HwRegs, NEW s \in Widths
               PROVE  R(r, s) \in Regs /\ R(r, s) \in Places /\ R(r, s) \in Operands
BY DEF Regs, Places, Operands

LEMMA MoveFits ==
  ASSUME NEW r \in HwRegs, NEW s \in Widths, NEW o, Loads(o, s)
  PROVE  Bin("mov", R(r, s), o) \in FitLines
<1>1. Bin("mov", R(r, s), o) \in Formed
  BY RegIn, TwoAddrFormed DEF Loads, TwoAddr
<1>2. s < 8 \/ s = 8
  BY DEF Widths
<1>3. Encodable(Bin("mov", R(r, s), o))
  BY <1>2 DEF Encodable, Bin, R, Loads, Literals, Memory
<1> QED BY <1>1, <1>3 DEF FitLines

LEMMA TakenFits ==
  ASSUME NEW r \in HwRegs, NEW s \in Widths, NEW o, Takes(o, s),
         NEW op \in {"add", "sub", "and", "or", "xor", "imul", "cmp"},
         op = "imul" => s # 1
  PROVE  Bin(op, R(r, s), o) \in FitLines
<1>1. Bin(op, R(r, s), o) \in Formed
  <2>1. R(r, s) \in Places /\ R(r, s) \in Operands /\ o \in Operands
    BY RegIn DEF Takes, Loads
  <2>2. CASE op = "cmp"
    BY <2>1, <2>2 DEF Formed
  <2>3. CASE op # "cmp"
    BY <2>1, <2>3, TwoAddrFormed DEF TwoAddr
  <2> QED BY <2>2, <2>3
<1>2. s < 8 \/ s = 8
  BY DEF Widths
<1>3. op = "imul" => s > 1
  BY DEF Widths
<1>4. Encodable(Bin(op, R(r, s), o))
  BY <1>2, <1>3 DEF Encodable, Bin, R, Takes, Loads, Literals, Memory
<1> QED BY <1>1, <1>4 DEF FitLines

LEMMA StoreFits ==
  ASSUME NEW d \in Places, NEW o, Takes(o, d.size)
  PROVE  Bin("mov", d, o) \in FitLines
<1>1. Bin("mov", d, o) \in Formed
  BY TwoAddrFormed DEF Takes, Loads, TwoAddr
<1>2. d.size \in Widths /\ d.k # "imm"
  BY PlacesAre
<1>3. d.size < 8 \/ d.size = 8
  BY <1>2 DEF Widths
<1>4. Encodable(Bin("mov", d, o))
  BY <1>2, <1>3 DEF Encodable, Bin, Takes, Loads, Literals, Memory
<1> QED BY <1>1, <1>4 DEF FitLines

LEMMA UnaryFits ==
  ASSUME NEW r \in HwRegs, NEW s \in Widths, NEW op
  PROVE  /\ op \in {"neg", "not", "div", "idiv"} => Unary(op, R(r, s)) \in FitLines
         /\ op \in Sets /\ s = 1 => Unary(op, R(r, s)) \in FitLines
<1>1. CASE op \in {"neg", "not", "div", "idiv"}
  <2>1. Unary(op, R(r, s)) \in Formed
    <3>1. R(r, s) \in Places /\ R(r, s) \in Regs
      BY RegIn
    <3>2. CASE op \in {"neg", "not"}
      BY <3>1, <3>2 DEF Formed
    <3>3. CASE op \in {"div", "idiv"}
      BY <3>1, <3>3 DEF Formed
    <3> QED BY <1>1, <3>2, <3>3
  <2>2. Encodable(Unary(op, R(r, s)))
    BY <1>1 DEF Encodable, Unary, R
  <2> QED BY <1>1, <2>1, <2>2 DEF FitLines, Sets
<1>2. CASE op \in Sets /\ s = 1
  <2>1. Unary(op, R(r, s)) \in Formed
    BY <1>2, RegIn DEF Formed
  <2>2. Encodable(Unary(op, R(r, s)))
    BY <1>2 DEF Encodable, Unary, R, Sets
  <2> QED BY <1>2, <2>1, <2>2 DEF FitLines, Sets
<1> QED BY <1>1, <1>2

LEMMA PlainFits == \A op \in Plains : Plain(op) \in FitLines
<1> TAKE op \in Plains
<1>1. Plain(op) \in Formed
  BY DEF Formed
<1>2. Encodable(Plain(op))
  BY DEF Encodable, Plain, Plains
<1> QED BY <1>1, <1>2 DEF FitLines

LEMMA MovTFits ==
  ASSUME NEW d \in HwRegs, NEW s \in HwRegs, NEW ds \in Widths, NEW ss \in Widths,
         NEW dSigned, NEW sSigned
  PROVE  MovT(d, s, ds, ss, dSigned, sSigned) \in FitLines
<1>1. \A z \in Widths : Bin("mov", R(d, z), R(s, z)) \in FitLines
  <2> TAKE z \in Widths
  <2>1. Loads(R(s, z), z)
    BY RegIn DEF Loads, R
  <2> QED BY <2>1, MoveFits
<1>2. CASE ds <= ss
  BY <1>1, <1>2 DEF MovT
<1>3. CASE ~(ds <= ss) /\ ds = 8 /\ ss = 4
  <2>1. Bin("movsxd", R(d, 8), R(s, 4)) \in FitLines
    <3>1. Bin("movsxd", R(d, 8), R(s, 4)) \in Formed
      BY RegIn DEF Formed, Extensions, Widths
    <3>2. Encodable(Bin("movsxd", R(d, 8), R(s, 4)))
      BY DEF Encodable, Bin, R
    <3> QED BY <3>1, <3>2 DEF FitLines
  <2>2. Bin("mov", R(d, 4), R(s, 4)) \in FitLines
    BY <1>1 DEF Widths
  <2> QED BY <1>3, <2>1, <2>2 DEF MovT
<1>4. CASE ~(ds <= ss) /\ ~(ds = 8 /\ ss = 4)
  <2>1. ss < ds /\ ss < 4
    BY <1>4 DEF Widths
  <2>2. ASSUME NEW op \in {"movsx", "movzx"} PROVE Bin(op, R(d, ds), R(s, ss)) \in FitLines
    <3>1. Bin(op, R(d, ds), R(s, ss)) \in Formed
      BY RegIn DEF Formed, Extensions
    <3>2. Encodable(Bin(op, R(d, ds), R(s, ss)))
      BY <2>1 DEF Encodable, Bin, R
    <3> QED BY <3>1, <3>2 DEF FitLines
  <2>3. MovT(d, s, ds, ss, dSigned, sSigned)
          = Bin(IF dSigned /\ sSigned THEN "movsx" ELSE "movzx", R(d, ds), R(s, ss))
    BY <1>4 DEF MovT
  <2> QED BY <2>2, <2>3
<1> QED BY <1>2, <1>3, <1>4

-----------------------------------------------------------------------------
\* The operands of an instruction, as gen converts them.

\* An operand that is in a register or a constant.
Input(o) == Imme(o, Basic) /\ Given(o)

\* A register that takes a result.
Output(o) == Reg(o, Basic) /\ Given(o)

LEMMA RegistersIn == \A n \in DOMAIN Registers : Registers[n] \in HwRegs
BY DEF Registers, HwRegs

LEMMA OutputIs ==
  ASSUME NEW o, Output(o)
  PROVE  /\ GetReg(o) \in HwRegs /\ Size(o.t) \in Widths
         /\ ConvertOperand(o) = R(GetReg(o), Size(o.t))
         /\ ConvertOperand(o) \in Places
<1>1. GetReg(o) \in HwRegs
  BY RegistersIn DEF Output, Reg, Given, GetReg
<1>2. Size(o.t) \in Widths
  BY SizeIn DEF Output, Reg
<1>3. ConvertOperand(o) = R(GetReg(o), Size(o.t))
  BY DEF Output, Reg, ConvertOperand, Part
<1> QED BY <1>1, <1>2, <1>3, RegIn

LEMMA InputIs ==
  ASSUME NEW o, Input(o)
  PROVE  /\ Size(o.t) \in Widths
         /\ Loads(ConvertOperand(o), Size(o.t))
         /\ ConvertOperand(o) \in Regs \cup Imms
         /\ ~IsConstant(o) => Output(o)
         /\ IsConstant(o) => /\ ConvertOperand(o) = Imm(o.n)
                             /\ o.n \in Literals(Size(o.t)) /\ o.n \in Int
<1>1. Size(o.t) \in Widths
  BY SizeIn DEF Input, Imme
<1>2. CASE ~IsConstant(o)
  <2>1. Output(o)
    BY <1>2 DEF Input, Imme, IsConstant, Output, Reg
  <2>2. ConvertOperand(o) = R(GetReg(o), Size(o.t)) /\ GetReg(o) \in HwRegs
    BY <2>1, OutputIs
  <2>3. Loads(ConvertOperand(o), Size(o.t)) /\ ConvertOperand(o) \in Regs
    BY <1>1, <2>2, RegIn DEF Loads, R
  <2> QED BY <1>1, <1>2, <2>1, <2>3
<1>3. CASE IsConstant(o)
  <2>1. ConvertOperand(o) = Imm(o.n)
    BY <1>3 DEF IsConstant, ConvertOperand
  <2>2. o.n \in Literals(Size(o.t))
    <3>1. CASE o.class = "lit"
      BY <3>1, ValuesFit DEF Input, Imme, Given
    <3>2. CASE o.class = "static"
      <4>1. o.n = 1
        BY <3>2 DEF Input, Given, Pointee
      <4> QED BY <1>1, <4>1, SmallFits
    <3> QED BY <1>3, <3>1, <3>2 DEF IsConstant
  <2>3. o.n \in Int
    BY <2>2 DEF Literals
  <2>4. Imm(o.n) \in Imms
    BY <2>3 DEF Imms
  <2>5. Loads(Imm(o.n), Size(o.t))
    BY <2>2, <2>4 DEF Loads, Operands, Imm
  <2> QED BY <1>1, <1>3, <2>1, <2>2, <2>3, <2>4, <2>5
<1> QED BY <1>2, <1>3

LEMMA NotMemory == \A o \in Regs \cup Imms : ~Memory(o)
BY OperandsAre DEF Memory

\* A literal that fits no line but a move goes through RCX.
LEMMA ResolveFits ==
  ASSUME NEW o, Input(o)
  PROVE  /\ Resolve(o).pre \in Seq(FitLines)
         /\ Takes(Resolve(o).op, Size(o.t))
<1>1. Size(o.t) \in Widths
  BY InputIs
<1>2. CASE o.class = "lit" /\ o.n \notin Imm32
  <2> DEFINE l == Bin("mov", R(RCX, Size(o.t)), Imm(o.n))
  <2>1. Resolve(o).pre = <<l>> /\ Resolve(o).op = R(RCX, Size(o.t))
    BY <1>2 DEF Resolve, Part
  <2>2. RCX \in HwRegs
    BY DEF RCX, HwRegs
  <2>3. l \in FitLines
    BY <1>1, <1>2, <2>2, InputIs, MoveFits DEF IsConstant
  <2> HIDE DEF l
  <2>4. <<l>> \in Seq(FitLines)
    BY <2>3
  <2>5. Takes(R(RCX, Size(o.t)), Size(o.t))
    BY <1>1, <2>2, RegIn DEF Takes, Loads, R, Memory
  <2> QED BY <2>1, <2>4, <2>5
<1>3. CASE ~(o.class = "lit" /\ o.n \notin Imm32)
  <2>1. Resolve(o).pre = <<>> /\ Resolve(o).op = ConvertOperand(o)
    BY <1>3 DEF Resolve
  <2>2. IsConstant(o) => o.n \in Imm32
    <3>1. CASE o.class = "static"
      <4>1. o.n = 1
        BY <3>1 DEF Input, Given, Pointee
      <4> QED BY <1>1, <4>1, SmallFits
    <3> QED BY <1>3, <3>1 DEF IsConstant
  <2>3. Takes(ConvertOperand(o), Size(o.t))
    <3>1. CASE IsConstant(o)
      <4>1. ConvertOperand(o) = Imm(o.n) /\ o.n \in Imm32
        BY <2>2, <3>1, InputIs
      <4> QED BY <4>1, InputIs, NotMemory DEF Takes, Imm
    <3>2. CASE ~IsConstant(o)
      <4>1. ConvertOperand(o).k = "reg"
        BY <3>2, InputIs, OutputIs DEF R
      <4> QED BY <4>1, InputIs, NotMemory DEF Takes
    <3> QED BY <3>1, <3>2
  <2>4. <<>> \in Seq(FitLines)
    OBVIOUS
  <2> QED BY <2>1, <2>3, <2>4
<1> QED BY <1>2, <1>3

-----------------------------------------------------------------------------
\* The lines that are selected fit.

LEMMA Both ==
  ASSUME NEW S, NEW c \in Seq(S), NEW d \in Seq(S)
  PROVE  c \o d \in Seq(S)
OBVIOUS

LEMMA Few ==
  ASSUME NEW S
  PROVE  /\ \A x \in S : <<x>> \in Seq(S)
         /\ \A x, y \in S : <<x, y>> \in Seq(S)
         /\ \A x, y, z \in S : <<x, y, z>> \in Seq(S)
         /\ \A x, y, z, w \in S : <<x, y, z, w>> \in Seq(S)
OBVIOUS

LEMMA SmallTaken == \A v \in {0, 1}, s \in Widths : Takes(Imm(v), s)
<1> TAKE v \in {0, 1}, s \in Widths
<1>1. v \in Imm32 /\ v \in Literals(s) /\ Imm(v) \in Imms
  BY SmallFits DEF Imms
<1> QED BY <1>1, NotMemory DEF Takes, Loads, Operands, Imm

LEMMA ScratchIn == {RAX, RCX, RDX, RDI} \subseteq HwRegs
BY DEF RAX, RCX, RDX, RDI, HwRegs

LEMMA RegTaken == ASSUME NEW r \in HwRegs, NEW s \in Widths PROVE Takes(R(r, s), s)
BY RegIn DEF Takes, Loads, R, Memory

\* Both operands and the result are as wide as the instruction.
Uniform == /\ Input(instr.a) /\ Input(instr.b) /\ Output(instr.dest)
           /\ instr.a.t = instr.t /\ instr.b.t = instr.t /\ instr.dest.t = instr.t

LEMMA Checked ==
  ASSUME instr \in Instrs
  PROVE  CheckInstr(instr) /\ Given(instr.a) /\ Given(instr.b) /\ Given(instr.dest)
BY InstrsChecked

LEMMA IntegersBasic == Integer \subseteq Basic /\ {"ptr", "bool", "i8"} \subseteq Basic
                       /\ "ptr" \notin Integer
BY DEF Integer, Basic, Sizes

LEMMA ArithmeticUniform ==
  ASSUME instr \in Instrs,
         \/ instr.k \in {"mult", "and", "or", "xor"} \cup Divisions \cup Shifts
         \/ instr.k = "add" /\ ~IsPtr(instr.a) /\ ~IsPtr(instr.b)
         \/ instr.k = "sub" /\ ~IsPtr(instr.a)
  PROVE  Uniform
<1>1. CASE instr.k \in {"mult", "and", "or", "xor"} \cup Divisions \cup Shifts
  BY <1>1, Checked, IntegersBasic
     DEF CheckInstr, Comparisons, Divisions, Shifts, Uniform, Imme, Reg, Input, Output
<1>2. CASE instr.k \in {"add", "sub"} /\ ~(instr.k \in {"mult", "and", "or", "xor"} \cup Divisions \cup Shifts)
  <2>1. CheckAddSub(instr)
    BY <1>2, Checked DEF CheckInstr, Comparisons, Divisions, Shifts
  <2>2. instr.t \in Integer /\ Imme(instr.a, {instr.t}) /\ Imme(instr.b, {instr.t}) /\ Reg(instr.dest, {instr.t})
    BY <1>2, <2>1 DEF CheckAddSub, Imme, IsPtr
  <2> QED BY <2>2, Checked, IntegersBasic DEF Uniform, Imme, Reg, Input, Output
<1> QED BY <1>1, <1>2

\* Of pointer arithmetic, the pointer and the result are pointers.
LEMMA PointerOperands ==
  ASSUME instr \in Instrs,
         \/ instr.k \in {"add", "sub"} /\ IsPtr(instr.a)
         \/ instr.k = "add" /\ IsPtr(instr.b)
  PROVE  /\ Input(instr.a) /\ Input(instr.b)
         /\ Output(instr.dest) /\ instr.dest.t = "ptr"
<1>1. instr.k \notin Divisions \cup Shifts \cup Comparisons
  BY DEF Divisions, Shifts, Comparisons
<1>2. CheckAddSub(instr)
  BY <1>1, Checked DEF CheckInstr
<1>3. /\ Imme(instr.a, Basic) /\ Imme(instr.b, Basic)
      /\ Reg(instr.dest, Basic) /\ instr.dest.t = "ptr"
  BY <1>2, IntegersBasic DEF CheckAddSub, Imme, Reg, IsPtr
<1> QED BY <1>3, Checked DEF Input, Output

LEMMA GenLoadStoreFits == instr \in Instrs /\ GenLoadStore => code' \in Seq(FitLines)
<1> SUFFICES ASSUME instr \in Instrs, GenLoadStore PROVE code' \in Seq(FitLines)
  OBVIOUS
<1> DEFINE r == Resolve(instr.a)
           m == Bin("mov", Dest, r.op)
           s == Size(instr.t)
<1>1. code' = r.pre \o <<m>>
  BY DEF GenLoadStore, Gen
<1>2. instr.k = "move"
  BY DEF GenLoadStore
<1>3. instr.t \in Basic /\ CheckMove(instr)
  BY <1>2, Checked DEF CheckInstr, Comparisons, Divisions, Shifts
<1>4. s \in Widths
  BY <1>3, SizeIn
<1>5. r.pre \in Seq(FitLines) /\ m \in FitLines
  <2>1. CASE Addr(instr.a, {instr.t}) /\ Reg(instr.dest, {instr.t})
    <3>1. r.pre = <<>> /\ r.op = Cell(s)
      BY <2>1 DEF Addr, Resolve, ConvertOperand
    <3>2. Loads(Cell(s), s)
      BY <1>4 DEF Loads, Cell, Operands, Places, Cells
    <3>3. Output(instr.dest) /\ instr.dest.t = instr.t
      BY <1>3, <2>1, Checked DEF Output, Reg
    <3>4. Dest = R(GetReg(instr.dest), s) /\ GetReg(instr.dest) \in HwRegs
      BY <3>3, OutputIs DEF Dest
    <3>5. m \in FitLines
      BY <1>4, <3>1, <3>2, <3>4, MoveFits
    <3> QED BY <3>1, <3>5
  <2>2. CASE Imme(instr.a, {instr.t})
    <3>1. Input(instr.a) /\ Size(instr.a.t) = s
      BY <1>3, <2>2, Checked DEF Input, Imme
    <3>2. r.pre \in Seq(FitLines) /\ Takes(r.op, s)
      BY <3>1, ResolveFits
    <3>3. Dest \in Places /\ Dest.size = s
      <4>1. CASE Addr(instr.dest, {instr.t})
        <5>1. Dest = Cell(s)
          BY <4>1 DEF Addr, Dest, ConvertOperand
        <5> QED BY <1>4, <5>1 DEF Cell, Cells, Places
      <4>2. CASE Reg(instr.dest, {instr.t})
        <5>1. Output(instr.dest) /\ instr.dest.t = instr.t
          BY <1>3, <4>2, Checked DEF Output, Reg
        <5>2. Dest = R(GetReg(instr.dest), s) /\ Dest \in Places
          BY <5>1, OutputIs DEF Dest
        <5> QED BY <5>2 DEF R
      <4> QED BY <1>3, <2>2, <4>1, <4>2 DEF CheckMove
    <3> HIDE DEF r
    <3> QED BY <3>2, <3>3, StoreFits
  <2> QED BY <1>3, <2>1, <2>2 DEF CheckMove
<1> HIDE DEF r, m
<1> QED BY <1>1, <1>5, Few, Both

LEMMA GenLoadPtrFits == instr \in Instrs /\ GenLoadPtr => code' \in Seq(FitLines)
<1> SUFFICES ASSUME instr \in Instrs, GenLoadPtr PROVE code' \in Seq(FitLines)
  OBVIOUS
<1> DEFINE s == Size(instr.t)
           m == Bin("mov", Dest, Deref(A, s))
<1>1. code' = <<m>>
  BY DEF GenLoadPtr, Gen
<1>2. instr.k = "loadptr"
  BY DEF GenLoadPtr
<1>3. instr.t \in Basic /\ Imme(instr.a, {"ptr"}) /\ Reg(instr.dest, {instr.t})
  BY <1>2, Checked DEF CheckInstr, Comparisons, Divisions, Shifts
<1>4. Input(instr.a) /\ Output(instr.dest) /\ Size(instr.dest.t) = s
  BY <1>3, Checked, IntegersBasic DEF Input, Output, Imme, Reg
<1>5. A \in Regs \cup Imms
  BY <1>4, InputIs DEF A
<1>6. s \in Widths
  BY <1>3, SizeIn
<1>7. Deref(A, s) \in Derefs
  BY <1>5, <1>6 DEF Derefs
<1>8. Loads(Deref(A, s), s)
  BY <1>7 DEF Loads, Deref, Operands, Places
<1>9. Dest = R(GetReg(instr.dest), s) /\ GetReg(instr.dest) \in HwRegs
  BY <1>4, OutputIs DEF Dest
<1>10. m \in FitLines
  BY <1>6, <1>8, <1>9, MoveFits
<1> HIDE DEF m
<1> QED BY <1>1, <1>10, Few

LEMMA GenStorePtrFits == instr \in Instrs /\ GenStorePtr => code' \in Seq(FitLines)
<1> SUFFICES ASSUME instr \in Instrs, GenStorePtr PROVE code' \in Seq(FitLines)
  OBVIOUS
<1> DEFINE r == Resolve(instr.a)
           s == Size(instr.t)
           d == Deref(B, s)
           m == Bin("mov", d, r.op)
<1>1. code' = r.pre \o <<m>>
  BY DEF GenStorePtr, Gen
<1>2. instr.k = "storeptr"
  BY DEF GenStorePtr
<1>3. instr.t \in Basic /\ Imme(instr.a, {instr.t}) /\ Imme(instr.b, {"ptr"})
  BY <1>2, Checked DEF CheckInstr, Comparisons, Divisions, Shifts
<1>4. Input(instr.a) /\ Input(instr.b) /\ Size(instr.a.t) = s
  BY <1>3, Checked, IntegersBasic DEF Input, Imme
<1>5. B \in Regs \cup Imms
  BY <1>4, InputIs DEF B
<1>6. s \in Widths
  BY <1>3, SizeIn
<1>7. d \in Places /\ d.size = s
  BY <1>5, <1>6 DEF Derefs, Deref, Places
<1>8. r.pre \in Seq(FitLines) /\ Takes(r.op, s)
  BY <1>4, ResolveFits
<1> HIDE DEF r, d
<1>9. m \in FitLines
  BY <1>7, <1>8, StoreFits
<1> HIDE DEF m
<1> QED BY <1>1, <1>8, <1>9, Few, Both

\* The destination after a move to it.
LEMMA DestFits ==
  ASSUME Output(instr.dest), NEW o, Takes(o, Size(instr.dest.t))
  PROVE  Bin("mov", Dest, o) \in FitLines
<1>1. Dest \in Places /\ Dest = R(GetReg(instr.dest), Size(instr.dest.t))
  BY OutputIs DEF Dest
<1>2. Dest.size = Size(instr.dest.t)
  BY <1>1 DEF R
<1> QED BY <1>1, <1>2, StoreFits

LEMMA DestUnaryFits ==
  ASSUME Output(instr.dest), NEW op \in {"neg", "not"}
  PROVE  Unary(op, Dest) \in FitLines
BY OutputIs, UnaryFits DEF Dest

LEMMA DestSetFits ==
  ASSUME Output(instr.dest), Size(instr.dest.t) = 1, NEW op \in Sets
  PROVE  Unary(op, Dest) \in FitLines
BY OutputIs, UnaryFits DEF Dest

LEMMA BoolSize == Size("bool") = 1 /\ Size("i8") = 1 /\ Size("ptr") = 8
BY DEF Size, Sizes

LEMMA GenNegFits == instr \in Instrs /\ GenNeg => code' \in Seq(FitLines)
<1> SUFFICES ASSUME instr \in Instrs, GenNeg PROVE code' \in Seq(FitLines)
  OBVIOUS
<1> DEFINE r == Resolve(instr.a)
           m == Bin("mov", Dest, r.op)
           n == Unary("neg", Dest)
<1>1. code' = r.pre \o <<m, n>>
  BY DEF GenNeg, Gen
<1>2. instr.k = "neg"
  BY DEF GenNeg
<1>3. instr.t \in Integer /\ Imme(instr.a, {instr.t}) /\ Reg(instr.dest, {instr.t})
  BY <1>2, Checked DEF CheckInstr, Comparisons, Divisions, Shifts
<1>4. Input(instr.a) /\ Output(instr.dest) /\ instr.a.t = instr.dest.t
  BY <1>3, Checked, IntegersBasic DEF Input, Output, Imme, Reg
<1>5. r.pre \in Seq(FitLines) /\ Takes(r.op, Size(instr.dest.t))
  BY <1>4, ResolveFits
<1> HIDE DEF r
<1>6. m \in FitLines /\ n \in FitLines
  BY <1>4, <1>5, DestFits, DestUnaryFits
<1> HIDE DEF m, n
<1> QED BY <1>1, <1>5, <1>6, Few, Both

LEMMA GenNotFits == instr \in Instrs /\ GenNot => code' \in Seq(FitLines)
<1> SUFFICES ASSUME instr \in Instrs, GenNot PROVE code' \in Seq(FitLines)
  OBVIOUS
<1>1. instr.k = "not"
  BY DEF GenNot
<1>2. instr.t \in Basic /\ Imme(instr.a, {instr.t}) /\ Reg(instr.dest, {instr.t})
  BY <1>1, Checked DEF CheckInstr, Comparisons, Divisions, Shifts
<1>3. /\ Input(instr.a) /\ Output(instr.dest)
      /\ instr.a.t = instr.dest.t /\ instr.dest.t = instr.t
  BY <1>2, Checked DEF Input, Output, Imme, Reg
<1>4. CASE instr.t = "bool"
  <2> DEFINE c == Bin("cmp", A, Imm(0))
             n == Unary("sete", Dest)
  <2>1. code' = <<c, n>>
    BY <1>4 DEF GenNot, Gen
  <2>2. n \in FitLines
    BY <1>3, <1>4, BoolSize, DestSetFits DEF Sets
  <2>3. Takes(Imm(0), Size(instr.a.t))
    BY <1>3, InputIs, SmallTaken
  <2>4. c \in Formed
    <3>1. A \in Operands /\ Imm(0) \in Operands
      BY <1>3, <2>3, InputIs DEF A, Takes, Loads
    <3> QED BY <3>1 DEF Formed
  <2>5. ASSUME IsConstant(instr.a) PROVE c \in FitLines
    BY <1>1, <1>4, <2>4, <2>5 DEF FitLines, Assured, Comparable
  <2>6. ASSUME ~IsConstant(instr.a) PROVE c \in FitLines
    BY <1>3, <2>3, <2>6, InputIs, OutputIs, TakenFits DEF A
  <2> HIDE DEF c, n
  <2>7. c \in FitLines
    BY <2>5, <2>6
  <2> QED BY <2>1, <2>2, <2>7, Few
<1>5. CASE instr.t # "bool"
  <2> DEFINE r == Resolve(instr.a)
             m == Bin("mov", Dest, r.op)
             n == Unary("not", Dest)
  <2>1. code' = r.pre \o <<m, n>>
    BY <1>5 DEF GenNot, Gen
  <2>2. r.pre \in Seq(FitLines) /\ Takes(r.op, Size(instr.dest.t))
    BY <1>3, ResolveFits
  <2> HIDE DEF r
  <2>3. m \in FitLines /\ n \in FitLines
    BY <1>3, <2>2, DestFits, DestUnaryFits
  <2> HIDE DEF m, n
  <2> QED BY <2>1, <2>2, <2>3, Few, Both
<1> QED BY <1>4, <1>5

LEMMA GenCompFits == instr \in Instrs /\ GenComp => code' \in Seq(FitLines)
<1> SUFFICES ASSUME instr \in Instrs, GenComp PROVE code' \in Seq(FitLines)
  OBVIOUS
<1> DEFINE s   == Size(instr.a.t)
           r   == Resolve(instr.b)
           rax == R(RAX, s)
           p   == Bin("mov", rax, A)
           c(x) == Bin("cmp", x, r.op)
           u   == Unary(Name, Dest)
<1>1. \/ code' = r.pre \o <<p, c(rax), u>>
      \/ ~IsConstant(instr.a) /\ code' = r.pre \o <<c(A), u>>
  BY Zenon DEF GenComp, Gen, Part
<1>2. instr.k \in Comparisons
  BY DEF GenComp
<1>3. instr.t \in Basic /\ Imme(instr.a, {instr.t}) /\ Imme(instr.b, {instr.t}) /\ Reg(instr.dest, {"bool"})
  BY <1>2, Checked DEF CheckInstr, Comparisons, Divisions, Shifts
<1>4. /\ Input(instr.a) /\ Input(instr.b) /\ instr.a.t = instr.b.t
      /\ Output(instr.dest) /\ Size(instr.dest.t) = 1
  BY <1>3, Checked, IntegersBasic, BoolSize DEF Input, Output, Imme, Reg
<1>5. Name \in Sets
  BY <1>2 DEF Name, GenInstrName, Comparisons, Divisions, Sets
<1>6. u \in FitLines
  BY <1>4, <1>5, DestSetFits
<1>7. s \in Widths /\ Loads(A, s) /\ RAX \in HwRegs
  BY <1>4, InputIs, ScratchIn DEF A
<1>8. p \in FitLines
  BY <1>7, MoveFits
<1>9. r.pre \in Seq(FitLines) /\ Takes(r.op, s)
  BY <1>4, ResolveFits
<1> HIDE DEF r
<1>10. c(rax) \in FitLines
  BY <1>7, <1>9, TakenFits
<1>11. ~IsConstant(instr.a) => c(A) \in FitLines
  BY <1>4, <1>7, <1>9, InputIs, OutputIs, TakenFits DEF A
<1> HIDE DEF p, c, u
<1> QED BY <1>1, <1>6, <1>8, <1>9, <1>10, <1>11, Few, Both

\* What an operation of two addresses is made of.
LEMMA UniformIs ==
  ASSUME Uniform
  PROVE  /\ Size(instr.t) \in Widths
         /\ GetReg(instr.dest) \in HwRegs /\ Dest = R(GetReg(instr.dest), Size(instr.t))
         /\ Loads(A, Size(instr.t)) /\ Loads(B, Size(instr.t))
         /\ Bin("mov", Dest, A) \in FitLines
         /\ \A o \in {instr.a, instr.b, Other(instr)} :
              Resolve(o).pre \in Seq(FitLines) /\ Takes(Resolve(o).op, Size(instr.t))
<1>1. /\ Size(instr.t) \in Widths
      /\ GetReg(instr.dest) \in HwRegs /\ Dest = R(GetReg(instr.dest), Size(instr.t))
  BY OutputIs DEF Uniform, Dest
<1>2. Loads(A, Size(instr.t)) /\ Loads(B, Size(instr.t))
  BY InputIs DEF Uniform, A, B
<1>3. Bin("mov", Dest, A) \in FitLines
  BY <1>1, <1>2, MoveFits
<1>4. Other(instr) \in {instr.a, instr.b}
  BY DEF Other
<1>5. \A o \in {instr.a, instr.b} :
        Resolve(o).pre \in Seq(FitLines) /\ Takes(Resolve(o).op, Size(instr.t))
  BY ResolveFits DEF Uniform
<1> QED BY <1>1, <1>2, <1>3, <1>4, <1>5

LEMMA GenSimpleBinFits == instr \in Instrs /\ GenSimpleBin => code' \in Seq(FitLines)
<1> SUFFICES ASSUME instr \in Instrs, GenSimpleBin PROVE code' \in Seq(FitLines)
  OBVIOUS
<1> DEFINE r(o) == Resolve(o)
           m    == Bin("mov", Dest, A)
           op(o) == Bin(Name, Dest, r(o).op)
<1>1. \E o \in {instr.b, Other(instr)} :
         \/ code' = r(o).pre \o <<op(o)>>
         \/ code' = r(o).pre \o <<m, op(o)>>
  BY DEF GenSimpleBin, Gen, Binary
<1>2. Uniform
  BY ArithmeticUniform DEF GenSimpleBin, Simple
<1>3. m \in FitLines
  BY <1>2, UniformIs
<1>4. /\ Name \in {"add", "sub", "and", "or", "xor", "imul", "cmp"}
      /\ Name = "imul" => Size(instr.t) # 1
  <2>1. instr.k # "mult" => Name = instr.k
    BY DEF GenSimpleBin, Simple, Name, GenInstrName, Divisions
  <2>2. instr.k = "mult" => Size(instr.t) > 1
    BY DEF GenSimpleBin
  <2>3. instr.k = "mult" => Name = "imul"
    BY DEF Name, GenInstrName, Divisions
  <2> QED BY <1>2, <2>1, <2>2, <2>3, UniformIs DEF GenSimpleBin, Simple, Widths
<1>5. \A o \in {instr.b, Other(instr)} : r(o).pre \in Seq(FitLines) /\ Takes(r(o).op, Size(instr.t))
  BY <1>2, UniformIs
<1> HIDE DEF r
<1>6. \A o \in {instr.b, Other(instr)} : op(o) \in FitLines
  BY <1>2, <1>4, <1>5, UniformIs, TakenFits
<1> HIDE DEF m, op
<1> QED BY <1>1, <1>3, <1>5, <1>6, Few, Both

LEMMA GenMulByteFits == instr \in Instrs /\ GenMulByte => code' \in Seq(FitLines)
<1> SUFFICES ASSUME instr \in Instrs, GenMulByte PROVE code' \in Seq(FitLines)
  OBVIOUS
<1> DEFINE signed == IsSigned(instr.t)
           Extend(r, o) == IF IsConstant(o) THEN Bin("mov", R(r, 2), Imm(o.n))
                           ELSE MovT(r, GetReg(o), 2, 1, signed, signed)
           e == Extend(RAX, instr.a)
           f == Extend(RCX, instr.b)
           g == Bin(Name, R(RAX, 2), R(RCX, 2))
           h == MovT(GetReg(instr.dest), RAX, 1, 2, signed, signed)
<1>1. code' = <<e, f, g, h>>
  BY DEF GenMulByte, Gen
<1>2. Uniform /\ Size(instr.t) = 1
  BY ArithmeticUniform DEF GenMulByte
<1>3. ASSUME NEW r \in {RAX, RCX}, NEW o \in {instr.a, instr.b} PROVE Extend(r, o) \in FitLines
  <2>1. Input(o) /\ Size(o.t) = 1 /\ r \in HwRegs
    BY <1>2, ScratchIn DEF Uniform
  <2>2. CASE IsConstant(o)
    <3>1. o.n \in Literals(1)
      BY <2>1, <2>2, InputIs
    <3>2. o.n \in Literals(2) /\ Imm(o.n) \in Imms
      BY <3>1, SpansGrow, SpanPositive DEF Literals, Imms, Widths
    <3>3. Loads(Imm(o.n), 2)
      BY <3>2 DEF Loads, Imm, Operands
    <3> QED BY <2>1, <2>2, <3>3, MoveFits DEF Widths
  <2>3. CASE ~IsConstant(o)
    BY <2>1, <2>3, InputIs, OutputIs, MovTFits DEF Widths
  <2> QED BY <2>2, <2>3
<1>4. e \in FitLines /\ f \in FitLines
  BY <1>3
<1>5. g \in FitLines
  <2>1. Name = "imul"
    BY DEF GenMulByte, Name, GenInstrName, Divisions
  <2> QED BY <2>1, ScratchIn, RegTaken, TakenFits DEF Widths
<1>6. h \in FitLines
  BY <1>2, ScratchIn, UniformIs, MovTFits DEF Widths
<1> HIDE DEF e, f, g, h
<1> QED BY <1>1, <1>4, <1>5, <1>6, Few

LEMMA GenDivisionFits == instr \in Instrs /\ GenDivision => code' \in Seq(FitLines)
<1> SUFFICES ASSUME instr \in Instrs, GenDivision PROVE code' \in Seq(FitLines)
  OBVIOUS
<1> DEFINE t    == instr.t
           rcx  == IsConstant(instr.b) \/ instr.k = "rem"
           from == IF instr.k = "div" THEN RAX ELSE RDX
           by   == IF rcx THEN RCX ELSE GetReg(instr.b)
           x == Bin("xor", R(RDX, 8), R(RDX, 8))
           a == Bin("mov", Part(RAX, t), A)
           m == Bin("mov", Part(RCX, t), B)
           b == IF rcx THEN <<m>> ELSE <<>>
           c == Plain(SignExtend(t))
           d == Unary(Name, Divisor(by, t))
           e == Bin("mov", Dest, Part(from, t))
<1>1. code' = <<x, a>> \o b \o <<c, d, e>>
  BY DEF GenDivision, Gen
<1>2. Uniform
  BY ArithmeticUniform DEF GenDivision
<1>3. x \in FitLines
  BY ScratchIn, RegTaken, TakenFits DEF Widths
<1>4. a \in FitLines /\ m \in FitLines
  BY <1>2, UniformIs, ScratchIn, MoveFits DEF Part
<1>5. c \in FitLines
  BY PlainFits DEF SignExtend, Plains
<1>6. d \in FitLines
  <2>1. Name \in {"div", "idiv"}
    BY DEF GenDivision, Name, GenInstrName, Divisions
  <2>2. by \in HwRegs
    BY <1>2, ScratchIn, InputIs, OutputIs DEF Uniform
  <2>3. \E s \in Widths : Divisor(by, t) = R(by, s)
    BY DEF Divisor, Widths
  <2> QED BY <2>1, <2>2, <2>3, UnaryFits
<1>7. e \in FitLines
  <2>1. from \in HwRegs
    BY ScratchIn
  <2>2. Takes(Part(from, t), Size(t))
    BY <1>2, <2>1, UniformIs, RegTaken DEF Part
  <2>3. Output(instr.dest) /\ instr.dest.t = t
    BY <1>2 DEF Uniform
  <2> QED BY <2>2, <2>3, DestFits
<1> HIDE DEF x, a, m, c, d, e, rcx
<1>8. b \in Seq(FitLines)
  <2>1. <<m>> \in Seq(FitLines) /\ <<>> \in Seq(FitLines)
    BY <1>4, Few
  <2> QED BY <2>1
<1> HIDE DEF b
<1>9. <<x, a>> \o b \in Seq(FitLines)
  BY <1>3, <1>4, <1>8, Few, Both
<1>10. (<<x, a>> \o b) \o <<c, d, e>> \in Seq(FitLines)
  BY <1>5, <1>6, <1>7, <1>9, Few, Both
<1> QED BY <1>1, <1>10

\* A literal count of a shift that means something is small.
LEMMA CountSmall ==
  ASSUME instr.k \in Shifts, Defined, instr.b.class = "lit"
  PROVE  instr.b.n \in Imm32 /\ instr.b.n \in 0 .. Span(1) - 1
<1>1. Value(instr.b) = instr.b.n
  BY DEF Value
<1>2. instr.b.n \in 0 .. Bits(Size(instr.t)) - 1 /\ instr.b.n < Span(1)
  BY <1>1 DEF Defined, Shifts, Divisions
<1>3. Span(1) \in Nat /\ Span(4) \in Nat /\ Span(4) >= 2 * Span(1)
  BY SpansGrow, SpanPositive DEF Widths
<1>4. Span(4) \div 2 >= Span(1) /\ Span(4) \div 2 \in Nat
  BY <1>3
<1>5. instr.b.n \in Int /\ instr.b.n >= 0
  BY <1>2
<1> QED BY <1>1, <1>2, <1>3, <1>4, <1>5 DEF Imm32

LEMMA GenShiftFits == instr \in Instrs /\ GenShift => code' \in Seq(FitLines)
<1> SUFFICES ASSUME instr \in Instrs, GenShift PROVE code' \in Seq(FitLines)
  OBVIOUS
<1> DEFINE count == IF IsTwoAddr(instr) THEN Other(instr) ELSE instr.b
           r     == Resolve(count)
           inCL  == count.class = "reg"
           l     == MovT(RCX, GetReg(count), 1, Size(count.t), FALSE, IsSigned(count.t))
           pre   == IF inCL THEN <<l>> ELSE r.pre
           m     == Bin("mov", Dest, A)
           copy  == IF IsTwoAddr(instr) THEN <<>> ELSE <<m>>
           by    == IF inCL THEN R(RCX, 1) ELSE r.op
           shift == Bin(Name, Dest, by)
<1>1. code' = pre \o copy \o <<shift>>
  BY DEF GenShift, Gen
<1>2. Uniform /\ instr.k \in Shifts
  BY ArithmeticUniform DEF GenShift
<1>3. Input(count) /\ count \in {instr.a, instr.b, Other(instr)}
  BY <1>2 DEF Uniform, Other
<1>4. r.pre \in Seq(FitLines) /\ r.op \in Operands
  BY <1>2, <1>3, UniformIs DEF Takes, Loads
<1>5. inCL => l \in FitLines
  <2>1. SUFFICES ASSUME inCL PROVE l \in FitLines
    OBVIOUS
  <2>2. Output(count)
    BY <1>3, <2>1, InputIs DEF IsConstant
  <2>3. GetReg(count) \in HwRegs /\ Size(count.t) \in Widths /\ RCX \in HwRegs /\ 1 \in Widths
    BY <2>2, OutputIs, ScratchIn DEF Widths
  <2> HIDE DEF count
  <2> QED BY <2>3, MovTFits
<1>6. m \in FitLines
  BY <1>2, UniformIs
<1>7. shift \in FitLines
  <2>1. Name \in {"shl", "sal", "shr", "sar"}
    BY <1>2 DEF Name, GenInstrName, Shifts, Divisions
  <2>2. Dest \in Places /\ Dest.k # "imm"
    BY <1>2, OutputIs, PlacesAre DEF Uniform, Dest
  <2>3. by \in Operands
    BY <1>4, ScratchIn, RegIn DEF Widths
  <2>4. shift \in Formed
    BY <2>1, <2>2, <2>3, TwoAddrFormed DEF TwoAddr
  <2>5. ASSUME Assured
        PROVE  by = R(RCX, 1) \/ (by.k = "imm" /\ by.v \in -(Span(1) \div 2) .. Span(1) - 1)
    <3>1. count = instr.b
      BY <1>2, <2>5 DEF Assured, Commutes, IsTwoAddr, Other
    <3>2. SUFFICES ASSUME ~inCL
                   PROVE  by.k = "imm" /\ by.v \in -(Span(1) \div 2) .. Span(1) - 1
      OBVIOUS
    <3>3. IsConstant(instr.b) /\ Input(instr.b) /\ instr.b.class = "lit"
      <4>1. IsConstant(instr.b) /\ Input(instr.b) /\ Given(instr.b)
        BY <1>2, <3>1, <3>2 DEF Uniform, Input, Imme, IsConstant
      <4>2. instr.t \in Integer
        BY <1>2, Checked DEF CheckInstr, Shifts, Divisions, Comparisons
      <4>3. instr.b.t # "ptr"
        BY <1>2, <4>2, IntegersBasic DEF Uniform
      <4> QED BY <4>1, <4>3 DEF Given, IsConstant
    <3>4. instr.b.n \in Imm32 /\ instr.b.n \in 0 .. Span(1) - 1
      BY <1>2, <2>5, <3>3, CountSmall DEF Assured
    <3>5. by = Imm(instr.b.n)
      BY <3>1, <3>2, <3>3, <3>4, InputIs DEF Resolve
    <3>6. Span(1) \div 2 \in Nat
      BY Half DEF Widths
    <3> QED BY <3>4, <3>5, <3>6 DEF Imm
  <2> HIDE DEF by
  <2>6. ASSUME Assured PROVE Encodable(shift)
    BY <2>1, <2>2, <2>5, <2>6 DEF Encodable, Bin
  <2> QED BY <2>4, <2>6 DEF FitLines
<1> HIDE DEF r, l, m, shift
<1>8. pre \in Seq(FitLines)
  BY <1>4, <1>5, Few
<1>9. copy \in Seq(FitLines)
  <2>1. <<m>> \in Seq(FitLines) /\ <<>> \in Seq(FitLines)
    BY <1>6, Few
  <2> QED BY <2>1
<1> HIDE DEF pre, copy
<1>10. pre \o copy \in Seq(FitLines)
  BY <1>8, <1>9, Both
<1>11. (pre \o copy) \o <<shift>> \in Seq(FitLines)
  BY <1>7, <1>10, Few, Both
<1> QED BY <1>1, <1>11

LEMMA WidenedFits == ASSUME NEW o, Input(o) PROVE Widened(o) \in FitLines
<1>1. CASE IsConstant(o)
  <2>1. o.n \in Literals(Size(o.t)) /\ Size(o.t) \in Widths
    BY <1>1, InputIs
  <2>2. \A s \in Widths : Span(s) <= Span(8)
    BY SpansGrow, SpanPositive DEF Widths
  <2>3. o.n \in Literals(8)
    <3> DEFINE p == Span(Size(o.t))
               q == Span(8)
    <3>1. p \in Nat /\ q \in Nat /\ p <= q
      BY <2>1, <2>2, SpanPositive DEF Widths
    <3>2. o.n \in -(p \div 2) .. p - 1
      BY <2>1 DEF Literals
    <3> HIDE DEF p, q
    <3>3. p \div 2 \in Nat /\ q \div 2 \in Nat /\ p \div 2 <= q \div 2
      BY <3>1
    <3>4. o.n \in -(q \div 2) .. q - 1
      BY <3>1, <3>2, <3>3
    <3> QED BY <3>4 DEF Literals, q
  <2>4. Loads(Imm(o.n), 8)
    BY <1>1, <2>3, InputIs DEF Loads, Imm, Operands, Imms
  <2> QED BY <1>1, <2>4, ScratchIn, MoveFits DEF Widened, Widths
<1>2. CASE ~IsConstant(o)
  BY <1>2, InputIs, OutputIs, ScratchIn, MovTFits DEF Widened, Widths
<1> QED BY <1>1, <1>2

LEMMA OffsetFits ==
  ASSUME Output(instr.dest), instr.dest.t = "ptr",
         NEW ptr, Input(ptr), IsPtr(ptr), NEW lines \in Seq(FitLines)
  PROVE  Offset(ptr, lines) \in Seq(FitLines)
<1>1. Dest = R(GetReg(instr.dest), 8) /\ GetReg(instr.dest) \in HwRegs
  BY OutputIs, BoolSize DEF Dest
<1>2. 8 \in Widths /\ Takes(R(RAX, 8), 8)
  BY ScratchIn, RegTaken DEF Widths
<1>3. CASE AreOpEqual(ptr, instr.dest)
  <2> DEFINE l == Bin("add", ConvertOperand(ptr), R(RAX, 8))
  <2>1. ~IsConstant(ptr)
    BY <1>3 DEF AreOpEqual, Output, Reg, IsConstant
  <2>2. ConvertOperand(ptr) = R(GetReg(ptr), 8) /\ GetReg(ptr) \in HwRegs
    BY <2>1, InputIs, OutputIs, BoolSize DEF IsPtr
  <2>3. l \in FitLines
    BY <1>2, <2>2, TakenFits
  <2>4. Offset(ptr, lines) = lines \o <<l>>
    BY <1>3 DEF Offset
  <2> HIDE DEF l
  <2> QED BY <2>3, <2>4, Few, Both
<1>4. CASE ~AreOpEqual(ptr, instr.dest)
  <2> DEFINE m == Bin("mov", Dest, ConvertOperand(ptr))
             l == Bin("add", Dest, R(RAX, 8))
  <2>1. Loads(ConvertOperand(ptr), 8)
    BY InputIs, BoolSize DEF IsPtr
  <2>2. m \in FitLines
    BY <1>1, <1>2, <2>1, MoveFits
  <2>3. l \in FitLines
    BY <1>1, <1>2, TakenFits
  <2>4. Offset(ptr, lines) = lines \o <<m, l>>
    BY <1>4 DEF Offset
  <2> HIDE DEF m, l
  <2> QED BY <2>2, <2>3, <2>4, Few, Both
<1> QED BY <1>3, <1>4

LEMMA GenAddPtrFits == instr \in Instrs /\ GenAddPtr => code' \in Seq(FitLines)
<1> SUFFICES ASSUME instr \in Instrs, GenAddPtr PROVE code' \in Seq(FitLines)
  OBVIOUS
<1>1. \E p, o \in {instr.a, instr.b} : IsPtr(p) /\ code' = Offset(p, <<Widened(o)>>)
  BY DEF GenAddPtr, Gen
<1>2. instr.k = "add" /\ (IsPtr(instr.a) \/ IsPtr(instr.b))
  BY DEF GenAddPtr
<1>3. /\ Input(instr.a) /\ Input(instr.b)
      /\ Output(instr.dest) /\ instr.dest.t = "ptr"
  BY <1>2, PointerOperands
<1>4. \A o \in {instr.a, instr.b} : <<Widened(o)>> \in Seq(FitLines)
  BY <1>3, WidenedFits, Few
<1>5. \A p, o \in {instr.a, instr.b} : IsPtr(p) => Offset(p, <<Widened(o)>>) \in Seq(FitLines)
  BY <1>3, <1>4, OffsetFits
<1> QED BY <1>1, <1>5

LEMMA GenSubPtrFits == instr \in Instrs /\ GenSubPtr => code' \in Seq(FitLines)
<1> SUFFICES ASSUME instr \in Instrs, GenSubPtr PROVE code' \in Seq(FitLines)
  OBVIOUS
<1> DEFINE w == Widened(instr.b)
           n == Unary("neg", R(RAX, 8))
<1>1. code' = Offset(instr.a, <<w, n>>)
  BY DEF GenSubPtr, Gen
<1>2. instr.k = "sub" /\ IsPtr(instr.a)
  BY DEF GenSubPtr
<1>3. /\ Input(instr.a) /\ Input(instr.b)
      /\ Output(instr.dest) /\ instr.dest.t = "ptr"
  BY <1>2, PointerOperands
<1>4. w \in FitLines
  BY <1>3, WidenedFits
<1>5. n \in FitLines
  BY ScratchIn, UnaryFits DEF Widths
<1> HIDE DEF w, n
<1>6. <<w, n>> \in Seq(FitLines)
  BY <1>4, <1>5, Few
<1> QED BY <1>1, <1>2, <1>3, <1>6, OffsetFits

LEMMA GenSubFits == instr \in Instrs /\ GenSub => code' \in Seq(FitLines)
<1> SUFFICES ASSUME instr \in Instrs, GenSub PROVE code' \in Seq(FitLines)
  OBVIOUS
<1> DEFINE r   == Resolve(instr.b)
           z   == Size(instr.t)
           rax == R(RAX, z)
           s   == Bin("sub", Dest, r.op)
           m   == Bin("mov", Dest, A)
           x   == Bin("xor", R(RAX, 8), R(RAX, 8))
           a   == Bin("mov", rax, A)
           b   == Bin("sub", rax, r.op)
           d   == Bin("mov", Dest, rax)
<1>1. \/ code' = r.pre \o <<s>>
      \/ code' = r.pre \o <<x, a, b, d>>
      \/ code' = r.pre \o <<m, s>>
  BY Zenon DEF GenSub, Gen, Part
<1>2. Uniform
  BY ArithmeticUniform DEF GenSub
<1>3. r.pre \in Seq(FitLines) /\ Takes(r.op, z) /\ z \in Widths /\ RAX \in HwRegs
  BY <1>2, UniformIs, ScratchIn
<1> HIDE DEF r
<1>4. s \in FitLines /\ m \in FitLines
  BY <1>2, <1>3, UniformIs, TakenFits
<1>5. x \in FitLines
  BY ScratchIn, RegTaken, TakenFits DEF Widths
<1>6. a \in FitLines /\ b \in FitLines
  BY <1>2, <1>3, UniformIs, MoveFits, TakenFits
<1>7. d \in FitLines
  BY <1>2, <1>3, RegTaken, DestFits DEF Uniform
<1> HIDE DEF s, m, x, a, b, d
<1> QED BY <1>1, <1>3, <1>4, <1>5, <1>6, <1>7, Few, Both

LEMMA GenConvertFits == instr \in Instrs /\ GenConvert => code' \in Seq(FitLines)
<1> SUFFICES ASSUME instr \in Instrs, GenConvert PROVE code' \in Seq(FitLines)
  OBVIOUS
<1> DEFINE from    == instr.a.t
           To(src) == MovT(GetReg(instr.dest), src, Size(instr.t), Size(from),
                           IsSigned(instr.t), IsSigned(from))
           r       == Resolve(instr.a)
           m       == Bin("mov", Part(RCX, from), r.op)
<1>1. \/ code' = r.pre \o <<m, To(RCX)>>
      \/ code' = <<>>
      \/ ~IsConstant(instr.a) /\ code' = <<To(GetReg(instr.a))>>
  BY Zenon DEF GenConvert, Gen
<1>2. instr.k = "convert"
  BY DEF GenConvert
<1>3. instr.t \in Basic /\ Imme(instr.a, Basic) /\ Reg(instr.dest, {instr.t})
  BY <1>2, Checked DEF CheckInstr, Comparisons, Divisions, Shifts
<1>4. Input(instr.a) /\ Output(instr.dest)
  BY <1>3, Checked DEF Input, Output, Reg
<1>5. Size(from) \in Widths /\ Size(instr.t) \in Widths /\ GetReg(instr.dest) \in HwRegs
  BY <1>3, <1>4, SizeIn, InputIs, OutputIs
<1>6. \A src \in HwRegs : To(src) \in FitLines
  BY <1>5, MovTFits
<1>7. r.pre \in Seq(FitLines) /\ Takes(r.op, Size(from))
  BY <1>4, ResolveFits
<1> HIDE DEF r
<1>8. m \in FitLines
  BY <1>5, <1>7, ScratchIn, MoveFits DEF Part, Takes
<1>9. ~IsConstant(instr.a) => GetReg(instr.a) \in HwRegs
  BY <1>4, InputIs, OutputIs
<1> HIDE DEF m, To
<1>10. <<>> \in Seq(FitLines)
  OBVIOUS
<1> QED BY <1>1, <1>6, <1>7, <1>8, <1>9, <1>10, ScratchIn, Few, Both

LEMMA GenCondJmpFits == instr \in Instrs /\ GenCondJmp => code' \in Seq(FitLines)
<1> SUFFICES ASSUME instr \in Instrs, GenCondJmp PROVE code' \in Seq(FitLines)
  OBVIOUS
<1> DEFINE s   == Size(instr.a.t)
           rcx == R(RCX, s)
           m   == Bin("mov", rcx, A)
           c(o) == Bin("cmp", o, Imm(1))
           j   == Plain("je")
<1>1. \/ code' = <<m, c(rcx), j>>
      \/ ~IsConstant(instr.a) /\ code' = <<c(A), j>>
  BY Zenon DEF GenCondJmp, Gen, Part
<1>2. instr.k = "if"
  BY DEF GenCondJmp
<1>3. Imme(instr.a, {"bool"})
  BY <1>2, Checked DEF CheckInstr, Comparisons, Divisions, Shifts
<1>4. Input(instr.a)
  BY <1>3, Checked, IntegersBasic DEF Input, Imme
<1>5. s \in Widths /\ Loads(A, s) /\ Takes(Imm(1), s) /\ RCX \in HwRegs
  BY <1>4, InputIs, SmallTaken, ScratchIn DEF A
<1>6. m \in FitLines /\ c(rcx) \in FitLines
  BY <1>5, MoveFits, TakenFits
<1>7. ~IsConstant(instr.a) => c(A) \in FitLines
  BY <1>4, <1>5, InputIs, OutputIs, TakenFits DEF A
<1>8. j \in FitLines
  BY PlainFits DEF Plains
<1> HIDE DEF m, c, j
<1> QED BY <1>1, <1>6, <1>7, <1>8, Few

LEMMA GenExitFits == instr \in Instrs /\ GenExit => code' \in Seq(FitLines)
<1> SUFFICES ASSUME instr \in Instrs, GenExit PROVE code' \in Seq(FitLines)
  OBVIOUS
<1> DEFINE x == Bin("xor", R(RDI, 8), R(RDI, 8))
           m == Bin("mov", R(RDI, 1), A)
           n == Bin("mov", R(RAX, 8), Imm(60))
           c == Plain("syscall")
<1>1. code' = <<x, m, n, c>>
  BY DEF GenExit, Gen
<1>2. instr.k = "exit"
  BY DEF GenExit
<1>3. Imme(instr.a, {"i8"}) \/ Addr(instr.a, {"i8"})
  BY <1>2, Checked DEF CheckInstr, Comparisons, Divisions, Shifts
<1>4. Loads(A, 1)
  <2>1. CASE Imme(instr.a, {"i8"})
    <3>1. Input(instr.a) /\ Size(instr.a.t) = 1
      BY <2>1, Checked, IntegersBasic, BoolSize DEF Input, Imme
    <3> QED BY <3>1, InputIs DEF A
  <2>2. CASE Addr(instr.a, {"i8"})
    <3>1. A = Cell(1)
      BY <2>2, BoolSize DEF Addr, A, ConvertOperand
    <3> QED BY <3>1 DEF Loads, Cell, Cells, Operands, Places, Widths
  <2> QED BY <1>3, <2>1, <2>2
<1>5. x \in FitLines
  BY ScratchIn, RegTaken, TakenFits DEF Widths
<1>6. m \in FitLines
  BY <1>4, ScratchIn, MoveFits DEF Widths
<1>7. n \in FitLines
  <2>1. Span(8) > 60
    <3>1. Span(4) \in Nat /\ Span(4) >= 16 /\ Span(8) = Span(4) * Span(4)
      BY SpansGrow, Spans, SpanPositive DEF Widths
    <3>2. Span(4) * Span(4) >= 16 * Span(4)
      BY <3>1
    <3> QED BY <3>1, <3>2
  <2>2. 60 \in Literals(8)
    BY <2>1, SpanPositive, Half DEF Literals, Widths
  <2>3. Loads(Imm(60), 8)
    BY <2>2 DEF Loads, Imm, Imms, Operands
  <2> QED BY <2>3, ScratchIn, MoveFits DEF Widths
<1>8. c \in FitLines
  BY PlainFits DEF Plains
<1> HIDE DEF x, m, n, c
<1> QED BY <1>1, <1>5, <1>6, <1>7, <1>8, Few

LEMMA SelectFits == instr \in Instrs /\ Select => code' \in Seq(FitLines)
BY GenLoadStoreFits, GenLoadPtrFits, GenStorePtrFits, GenNegFits, GenNotFits, GenCompFits,
   GenSimpleBinFits, GenMulByteFits, GenDivisionFits, GenShiftFits, GenAddPtrFits,
   GenSubPtrFits, GenSubFits, GenConvertFits, GenCondJmpFits, GenExitFits, Zenon DEF Select

-----------------------------------------------------------------------------
\* LinesWellFormed says nothing of where a line comes from.
WellFormed == /\ instr \in Instrs
              /\ phase \in {"select", "execute", "done"}
              /\ Holding(machine)
              /\ code \in Seq(FitLines)

\* What fits depends on the instruction and the machine before it only.
LEMMA SameFit ==
  ASSUME instr' = instr, before' = before
  PROVE  FitLines' = FitLines
<1>1. Assured' = Assured
  BY DEF Assured, Defined, Commutes, Comparable, Value
<1> QED BY <1>1 DEF FitLines

LEMMA StartsHolding ==
  ASSUME NEW f \in [Inputs(instr) -> Samples], NEW cell \in Samples \cup {Junk},
         NEW pointee \in Samples \cup {Junk}
  PROVE  Holding(Machine([r \in HwRegs |-> IF r \in Inputs(instr) THEN f[r] ELSE Junk],
                         cell, pointee))
<1> DEFINE g == [r \in HwRegs |-> IF r \in Inputs(instr) THEN f[r] ELSE Junk]
<1>1. g \in [HwRegs -> Words]
  BY Sampled
<1> HIDE DEF g
<1>2. Holding(Machine(g, cell, pointee))
  BY <1>1, Sampled DEF Machine, Holding, Parts
<1> QED BY <1>2 DEF g

LEMMA StartsWell == Init => WellFormed
<1> SUFFICES ASSUME Init PROVE WellFormed
  OBVIOUS
<1>1. PICK f \in [Inputs(instr) -> Samples],
           cell \in Among(instr.a.class = "local"), pointee \in Among(instr.k = "loadptr") :
        machine = Machine([r \in HwRegs |-> IF r \in Inputs(instr) THEN f[r] ELSE Junk],
                          cell, pointee)
  BY DEF Init
<1>2. cell \in Samples \cup {Junk} /\ pointee \in Samples \cup {Junk}
  BY DEF Among
<1>3. Holding(machine)
  BY <1>1, <1>2, StartsHolding
<1>4. <<>> \in Seq(FitLines)
  OBVIOUS
<1> QED BY <1>3, <1>4 DEF Init, WellFormed

LEMMA StaysWell == WellFormed /\ [Next]_vars => WellFormed'
<1> SUFFICES ASSUME WellFormed, [Next]_vars PROVE WellFormed'
  OBVIOUS
<1> USE DEF WellFormed
<1>1. CASE Select
  <2>1. UNCHANGED <<instr, machine, before>>
    BY <1>1, SelectsOnly
  <2>2. code' \in Seq(FitLines)
    BY <1>1, SelectFits
  <2>3. phase' = "execute"
    BY <1>1, Zenon
       DEF Select, Gen, GenLoadStore, GenLoadPtr, GenStorePtr, GenNeg, GenNot, GenComp,
           GenSimpleBin, GenMulByte, GenDivision, GenShift, GenAddPtr, GenSubPtr, GenSub,
           GenConvert, GenCondJmp, GenExit
  <2>4. FitLines' = FitLines
    BY <2>1, SameFit
  <2> QED BY <2>1, <2>2, <2>3, <2>4 DEF Holding
<1>2. CASE Run
  <2>1. instr' = instr /\ before' = before
    BY <1>2 DEF Run
  <2>2. FitLines' = FitLines
    BY <2>1, SameFit
  <2>3. CASE UNCHANGED <<code, machine>> /\ phase' = "done"
    BY <2>1, <2>2, <2>3 DEF Holding
  <2>4. CASE ~ (UNCHANGED <<code, machine>> /\ phase' = "done")
    <3>1. /\ machine' = Execute(machine, Head(code))
          /\ code' = Tail(code) /\ code # <<>> /\ phase' = phase
      BY <1>2, <2>4 DEF Run
    <3>2. Head(code) \in FitLines /\ Tail(code) \in Seq(FitLines)
      BY <3>1
    <3>3. Holding(Execute(machine, Head(code)))
      BY <3>2, ExecuteHolds DEF FitLines
    <3>4. Holding(machine')
      BY <3>1, <3>3
    <3> QED BY <2>1, <2>2, <3>1, <3>2, <3>4 DEF Holding
  <2> QED BY <2>3, <2>4
<1>3. CASE UNCHANGED vars
  <2>1. FitLines' = FitLines
    BY <1>3, SameFit DEF vars
  <2> QED BY <1>3, <2>1 DEF vars, Holding
<1> QED BY <1>1, <1>2, <1>3 DEF Next, Done

LEMMA WellMeans ==
  WellFormed => TypeOK /\ (Commutes(instr) /\ Comparable(instr) => Assembles)
<1> SUFFICES ASSUME WellFormed
             PROVE  TypeOK /\ (Commutes(instr) /\ Comparable(instr) => Assembles)
  OBVIOUS
<1>1. \A n \in DOMAIN code : code[n] \in FitLines
  BY DEF WellFormed
<1>2. \A n \in DOMAIN code : {code[n].d.k, code[n].s.k} \subseteq {"reg", "imm", "cell", "deref"}
  BY <1>1, FormedKinds DEF FitLines
<1>3. TypeOK
  BY <1>2 DEF TypeOK, WellFormed, Holding
<1>4. Commutes(instr) /\ Comparable(instr) /\ Defined => \A n \in DOMAIN code : Encodable(code[n])
  BY <1>1 DEF FitLines, Assured
<1> QED BY <1>3, <1>4 DEF Assembles

\* For bytes of any width and every set of MIR instructions the MIR checker lets
\* through, whatever the registers, the slot and the pointee hold: at every line
\* the machine still holds words, it has met no fault but the two there are, and
\* the lines to come have operands of the kinds the machine knows, even of an
\* instruction gen gets wrong.
THEOREM MachineTyped == Spec => []TypeOK
<1>1. Spec => []WellFormed
  BY StartsWell, StaysWell, PTL DEF Spec
<1>2. WellFormed => TypeOK
  BY WellMeans
<1> QED BY <1>1, <1>2, PTL

\* And the assembler accepts every line of an instruction that means something,
\* if no count is in the destination's register unless the value shifted is, and
\* no literal boolean is negated: the two instructions of which gen writes lines
\* that do not exist.
THEOREM LinesAssemble ==
  ASSUME \A i \in Instrs : Commutes(i) /\ Comparable(i)
  PROVE  Spec => []LinesWellFormed
<1>1. Spec => []WellFormed
  BY StartsWell, StaysWell, PTL DEF Spec
<1>2. WellFormed => LinesWellFormed
  <2>1. WellFormed => instr \in Instrs
    BY DEF WellFormed
  <2> QED BY <2>1, WellMeans DEF LinesWellFormed
<1> QED BY <1>1, <1>2, PTL

=============================================================================

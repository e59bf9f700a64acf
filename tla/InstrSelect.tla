---------------------------- MODULE InstrSelect ----------------------------
(***************************************************************************)
(* Instruction selection (backend0/gen/gen.go): each MIR instruction, with *)
(* its operands where the register allocator has put them, becomes a few   *)
(* lines of two-address assembly.  gen takes RAX, RCX and RDX as scratch;  *)
(* the allocator has the other registers.                                  *)
(*                                                                         *)
(* A behaviour selects the lines for one instruction and executes them on  *)
(* the machine of Amd64.                                                   *)
(***************************************************************************)
EXTENDS Amd64, Sequences

CONSTANTS
  Instrs,    \* the MIR instructions
  Samples,   \* words for the operands' registers, the slot and the pointee
  Junk       \* the word that is in every other register

ASSUME Sampled == Samples \subseteq Words /\ Junk \in Words

VARIABLES
  instr,
  phase,     \* "select", "execute" or "done"
  code,      \* the lines still to be executed
  machine,
  before     \* the machine when the instruction begins

vars == <<instr, phase, code, machine, before>>

-----------------------------------------------------------------------------
\* Types, operands and instructions of MIR.

Sizes == [i8 |-> 1, i16 |-> 2, i32 |-> 4, i64 |-> 8,
          u8 |-> 1, u16 |-> 2, u32 |-> 4, u64 |-> 8, ptr |-> 8, bool |-> 1]

Basic   == DOMAIN Sizes
Integer == Basic \ {"ptr", "bool"}

Size(t)     == Sizes[t]
IsSigned(t) == t \in {"i8", "i16", "i32", "i64"}

Values(t) == IF IsSigned(t) THEN -(Span(Size(t)) \div 2) .. Span(Size(t)) \div 2 - 1
                           ELSE 0 .. Span(Size(t)) - 1

Operand(class, n, t) == [class |-> class, n |-> n, t |-> t]

Register(n, t) == Operand("reg", n, t)
Literal(v, t)  == Operand("lit", v, t)
Static(t)      == Operand("static", Pointee, t)   \* the label of a data symbol
Local(t)       == Operand("local", 0, t)          \* a slot of the frame

None == Operand("none", 0, "bool")

Instr(k, t, a, b, dest) == [k |-> k, t |-> t, a |-> a, b |-> b, dest |-> dest]

IsConstant(o) == o.class \in {"lit", "static"}
IsPtr(o)      == o.t = "ptr"

Divisions   == {"div", "rem"}
Shifts      == {"shl", "shr"}
Comparisons == {"eq", "diff", "less", "more", "lesseq", "moreeq"}
Simple      == {"add", "mult", "and", "or", "xor"}

Registers == <<15, 14, 13, 12, 11, 10, 9, 8, 7, 6, 3>>

-----------------------------------------------------------------------------
\* The instructions gen is given: the MIR checker has let them through.  That
\* no pointer is subtracted from an integer is the type checker's, and so are
\* the operands of a jump and of an exit.

Imme(o, types) == o.class \in {"reg", "lit", "static"} /\ o.t \in types
Reg(o, types)  == o.class = "reg" /\ o.t \in types
Addr(o, types) == o.class = "local" /\ o.t \in types

CheckAddSub(i) ==
  \/ Imme(i.a, {"ptr"}) /\ Imme(i.b, Integer) /\ Reg(i.dest, {"ptr"})
  \/ i.k = "add" /\ Imme(i.a, Integer) /\ Imme(i.b, {"ptr"}) /\ Reg(i.dest, {"ptr"})
  \/ i.t \in Integer /\ Imme(i.a, {i.t}) /\ Imme(i.b, {i.t}) /\ Reg(i.dest, {i.t})

\* Load, Store and Copy are all a move.
CheckMove(i) == \/ Addr(i.a, {i.t}) /\ Reg(i.dest, {i.t})
                \/ Imme(i.a, {i.t}) /\ (Addr(i.dest, {i.t}) \/ Reg(i.dest, {i.t}))

CheckInstr(i) ==
  \/ i.k \in {"add", "sub"} /\ CheckAddSub(i)
  \/ /\ i.k \in {"mult"} \cup Divisions \cup Shifts
     /\ i.t \in Integer /\ Imme(i.a, {i.t}) /\ Imme(i.b, {i.t}) /\ Reg(i.dest, {i.t})
  \/ /\ i.k \in {"and", "or", "xor"}
     /\ i.t \in Basic /\ Imme(i.a, {i.t}) /\ Imme(i.b, {i.t}) /\ Reg(i.dest, {i.t})
  \/ /\ i.k \in Comparisons
     /\ i.t \in Basic /\ Imme(i.a, {i.t}) /\ Imme(i.b, {i.t}) /\ Reg(i.dest, {"bool"})
  \/ i.k = "neg" /\ i.t \in Integer /\ Imme(i.a, {i.t}) /\ Reg(i.dest, {i.t})
  \/ i.k = "not" /\ i.t \in Basic /\ Imme(i.a, {i.t}) /\ Reg(i.dest, {i.t})
  \/ i.k = "convert" /\ i.t \in Basic /\ Imme(i.a, Basic) /\ Reg(i.dest, {i.t})
  \/ i.k = "loadptr" /\ i.t \in Basic /\ Imme(i.a, {"ptr"}) /\ Reg(i.dest, {i.t})
  \/ i.k = "storeptr" /\ i.t \in Basic /\ Imme(i.a, {i.t}) /\ Imme(i.b, {"ptr"})
  \/ i.k = "move" /\ i.t \in Basic /\ CheckMove(i)
  \/ i.k = "if" /\ Imme(i.a, {"bool"})
  \/ i.k = "exit" /\ (Imme(i.a, {"i8"}) \/ Addr(i.a, {"i8"}))

\* The allocator counts its registers, a literal is of its type.
Given(o) == /\ o.class = "reg" => o.n + 1 \in DOMAIN Registers
            /\ o.class = "lit" => o.n \in Values(o.t)
            /\ o.class = "static" => o.n = Pointee /\ o.t = "ptr"

ASSUME InstrsChecked ==
  \A i \in Instrs : CheckInstr(i) /\ Given(i.a) /\ Given(i.b) /\ Given(i.dest)

-----------------------------------------------------------------------------
\* Operands of the assembly.

GetReg(o) == Registers[o.n + 1]

Part(r, t) == R(r, Size(t))

ConvertOperand(o) == CASE o.class = "reg" -> Part(GetReg(o), o.t)
                       [] o.class = "local" -> Cell(Size(o.t))
                       [] OTHER -> Imm(o.n)

\* Mutant of Resolve: every literal fits an instruction.
ResolveNothing(o) == [pre |-> <<>>, op |-> ConvertOperand(o)]

\* A literal beyond 32 bits goes through RCX.
Resolve(o) ==
  IF o.class = "lit" /\ o.n \notin Imm32
    THEN [pre |-> <<Bin("mov", Part(RCX, o.t), Imm(o.n))>>, op |-> Part(RCX, o.t)]
    ELSE [pre |-> <<>>, op |-> ConvertOperand(o)]

\* Dest is a register, so the literals of two operands never have to be compared.
AreOpEqual(o, dest) == o.class = dest.class /\ o.n = dest.n

\* convertToTwoAddr: the operand that is not the destination already.
IsTwoAddr(i) == AreOpEqual(i.a, i.dest) \/ AreOpEqual(i.b, i.dest)
Other(i)     == IF AreOpEqual(i.a, i.dest) THEN i.b ELSE i.a

\* A move between parts of two sizes.
MovT(dest, source, destSize, size, destSigned, signed) ==
  IF destSize <= size THEN Bin("mov", R(dest, destSize), R(source, destSize))
  ELSE IF destSize = 8 /\ size = 4
    THEN IF destSigned /\ signed THEN Bin("movsxd", R(dest, 8), R(source, 4))
                                 ELSE Bin("mov", R(dest, 4), R(source, 4))
  ELSE Bin(IF destSigned /\ signed THEN "movsx" ELSE "movzx",
           R(dest, destSize), R(source, size))

GenInstrName(k, t) ==
  CASE k \in {"add", "sub", "and", "or", "xor"} -> k
    [] k = "mult"      -> "imul"
    [] k \in Divisions -> IF IsSigned(t) THEN "idiv" ELSE "div"
    [] k = "shl"       -> IF IsSigned(t) THEN "sal" ELSE "shl"
    [] k = "shr"       -> IF IsSigned(t) THEN "sar" ELSE "shr"
    [] k = "eq"        -> "sete"
    [] k = "diff"      -> "setne"
    [] k = "less"      -> IF IsSigned(t) THEN "setl" ELSE "setb"
    [] k = "more"      -> IF IsSigned(t) THEN "setg" ELSE "seta"
    [] k = "lesseq"    -> IF IsSigned(t) THEN "setle" ELSE "setbe"
    [] k = "moreeq"    -> IF IsSigned(t) THEN "setge" ELSE "setae"

Name == GenInstrName(instr.k, instr.t)
A    == ConvertOperand(instr.a)
B    == ConvertOperand(instr.b)
Dest == ConvertOperand(instr.dest)

Gen(lines) == /\ phase = "select"
              /\ phase' = "execute"
              /\ code' = lines
              /\ UNCHANGED <<instr, machine, before>>

-----------------------------------------------------------------------------
GenLoadStore == /\ instr.k = "move"
                /\ LET r == Resolve(instr.a)
                   IN Gen(r.pre \o <<Bin("mov", Dest, r.op)>>)

GenLoadPtr == /\ instr.k = "loadptr"
              /\ Gen(<<Bin("mov", Dest, Deref(A, Size(instr.t)))>>)

GenStorePtr == /\ instr.k = "storeptr"
               /\ LET r == Resolve(instr.a)
                  IN Gen(r.pre \o <<Bin("mov", Deref(B, Size(instr.t)), r.op)>>)

GenNeg == /\ instr.k = "neg"
          /\ LET r == Resolve(instr.a)
             IN Gen(r.pre \o <<Bin("mov", Dest, r.op), Unary("neg", Dest)>>)

GenNot == /\ instr.k = "not"
          /\ IF instr.t = "bool"
             THEN Gen(<<Bin("cmp", A, Imm(0)), Unary("sete", Dest)>>)
             ELSE LET r == Resolve(instr.a)
                  IN Gen(r.pre \o <<Bin("mov", Dest, r.op), Unary("not", Dest)>>)

GenComp == /\ instr.k \in Comparisons
           /\ LET r   == Resolve(instr.b)
                  rax == Part(RAX, instr.a.t)
              IN IF IsConstant(instr.a)
                 THEN Gen(r.pre \o <<Bin("mov", rax, A), Bin("cmp", rax, r.op),
                                     Unary(Name, Dest)>>)
                 ELSE Gen(r.pre \o <<Bin("cmp", A, r.op), Unary(Name, Dest)>>)

\* Two addresses if an operand is the destination already.
Binary == IF IsTwoAddr(instr)
          THEN LET r == Resolve(Other(instr))
               IN r.pre \o <<Bin(Name, Dest, r.op)>>
          ELSE LET r == Resolve(instr.b)
               IN r.pre \o <<Bin("mov", Dest, A), Bin(Name, Dest, r.op)>>

\* genSimpleBin, and genMul from two bytes on.
GenSimpleBin == /\ instr.k \in Simple
                /\ instr.k = "add" => ~IsPtr(instr.a) /\ ~IsPtr(instr.b)
                /\ instr.k = "mult" => Size(instr.t) > 1
                /\ Gen(Binary)

\* There is no product of two bytes: both are extended to words.
GenMulByte ==
  /\ instr.k = "mult"
  /\ Size(instr.t) = 1
  /\ LET signed == IsSigned(instr.t)
         Extend(r, o) == IF IsConstant(o) THEN Bin("mov", R(r, 2), Imm(o.n))
                         ELSE MovT(r, GetReg(o), 2, 1, signed, signed)
     IN Gen(<<Extend(RAX, instr.a), Extend(RCX, instr.b),
              Bin(Name, R(RAX, 2), R(RCX, 2)),
              MovT(GetReg(instr.dest), RAX, 1, 2, signed, signed)>>)

\* signExtend: the divisor as the instruction takes it, and the extension.
Divisor(r, t)   == R(r, IF Size(t) < 8 THEN 4 ELSE 8)
SignExtend(t)   == IF Size(t) < 8 THEN "cdq" ELSE IF IsSigned(t) THEN "cqo" ELSE "nop"

\* genRem takes a register to be an immediate, and so uses RCX always.
GenDivision ==
  /\ instr.k \in Divisions
  /\ LET t     == instr.t
         rcx   == IsConstant(instr.b) \/ instr.k = "rem"
         from  == IF instr.k = "div" THEN RAX ELSE RDX
     IN Gen(<<Bin("xor", R(RDX, 8), R(RDX, 8)), Bin("mov", Part(RAX, t), A)>>
              \o (IF rcx THEN <<Bin("mov", Part(RCX, t), B)>> ELSE <<>>)
              \o <<Plain(SignExtend(t)),
                   Unary(Name, Divisor(IF rcx THEN RCX ELSE GetReg(instr.b), t)),
                   Bin("mov", Dest, Part(from, t))>>)

\* A count in a register has to be in CL.
GenShift ==
  /\ instr.k \in Shifts
  /\ LET count == IF IsTwoAddr(instr) THEN Other(instr) ELSE instr.b
         r     == Resolve(count)
         inCL  == count.class = "reg"
         pre   == IF inCL THEN <<MovT(RCX, GetReg(count), 1, Size(count.t), FALSE, IsSigned(count.t))>>
                          ELSE r.pre
         copy  == IF IsTwoAddr(instr) THEN <<>> ELSE <<Bin("mov", Dest, A)>>
     IN Gen(pre \o copy \o <<Bin(Name, Dest, IF inCL THEN R(RCX, 1) ELSE r.op)>>)

\* The integer of pointer arithmetic, as wide as a pointer, in RAX.
Widened(o) == IF IsConstant(o) THEN Bin("mov", R(RAX, 8), Imm(o.n))
              ELSE MovT(RAX, GetReg(o), 8, Size(o.t), TRUE, IsSigned(o.t))

\* Mutant of Offset: the pointer is taken to be the destination.
OffsetInPlace(ptr, lines) == lines \o <<Bin("add", ConvertOperand(ptr), R(RAX, 8))>>

Offset(ptr, lines) ==
  IF AreOpEqual(ptr, instr.dest)
    THEN lines \o <<Bin("add", ConvertOperand(ptr), R(RAX, 8))>>
    ELSE lines \o <<Bin("mov", Dest, ConvertOperand(ptr)), Bin("add", Dest, R(RAX, 8))>>

GenAddPtr == /\ instr.k = "add"
             /\ \/ IsPtr(instr.a) /\ Gen(Offset(instr.a, <<Widened(instr.b)>>))
                \/ ~IsPtr(instr.a) /\ IsPtr(instr.b) /\ Gen(Offset(instr.b, <<Widened(instr.a)>>))

GenSubPtr == /\ instr.k = "sub"
             /\ IsPtr(instr.a)
             /\ Gen(Offset(instr.a, <<Widened(instr.b), Unary("neg", R(RAX, 8))>>))

\* Mutant of GenSub: the subtrahend may be overwritten before it is used.
GenSubOverwriting ==
  /\ instr.k = "sub"
  /\ ~IsPtr(instr.a)
  /\ LET r == Resolve(instr.b)
     IN IF AreOpEqual(instr.a, instr.dest) THEN Gen(r.pre \o <<Bin("sub", Dest, r.op)>>)
        ELSE Gen(r.pre \o <<Bin("mov", Dest, A), Bin("sub", Dest, r.op)>>)

GenSub == /\ instr.k = "sub"
          /\ ~IsPtr(instr.a)
          /\ LET r   == Resolve(instr.b)
                 rax == Part(RAX, instr.t)
             IN IF AreOpEqual(instr.a, instr.dest)
                  THEN Gen(r.pre \o <<Bin("sub", Dest, r.op)>>)
                ELSE IF AreOpEqual(instr.b, instr.dest)
                  THEN Gen(r.pre \o <<Bin("xor", R(RAX, 8), R(RAX, 8)), Bin("mov", rax, A),
                                      Bin("sub", rax, r.op), Bin("mov", Dest, rax)>>)
                ELSE Gen(r.pre \o <<Bin("mov", Dest, A), Bin("sub", Dest, r.op)>>)

GenConvert ==
  /\ instr.k = "convert"
  /\ LET from    == instr.a.t
         To(src) == MovT(GetReg(instr.dest), src, Size(instr.t), Size(from),
                         IsSigned(instr.t), IsSigned(from))
         r       == Resolve(instr.a)
     IN IF IsConstant(instr.a)
          THEN Gen(r.pre \o <<Bin("mov", Part(RCX, from), r.op), To(RCX)>>)
        ELSE IF AreOpEqual(instr.a, instr.dest) /\ from = instr.t THEN Gen(<<>>)
        ELSE Gen(<<To(GetReg(instr.a))>>)

GenCondJmp == /\ instr.k = "if"
              /\ IF IsConstant(instr.a)
                 THEN Gen(<<Bin("mov", Part(RCX, instr.a.t), A),
                            Bin("cmp", Part(RCX, instr.a.t), Imm(1)), Plain("je")>>)
                 ELSE Gen(<<Bin("cmp", A, Imm(1)), Plain("je")>>)

GenExit == /\ instr.k = "exit"
           /\ Gen(<<Bin("xor", R(RDI, 8), R(RDI, 8)), Bin("mov", R(RDI, 1), A),
                    Bin("mov", R(RAX, 8), Imm(60)), Plain("syscall")>>)

Select == \/ GenLoadStore \/ GenLoadPtr \/ GenStorePtr
          \/ GenNeg \/ GenNot \/ GenComp \/ GenSimpleBin \/ GenMulByte
          \/ GenDivision \/ GenShift \/ GenAddPtr \/ GenSubPtr \/ GenSub
          \/ GenConvert \/ GenCondJmp \/ GenExit

-----------------------------------------------------------------------------
Run == /\ phase = "execute"
       /\ IF code = <<>> \/ machine.fault # "none"
          THEN phase' = "done" /\ UNCHANGED <<code, machine>>
          ELSE /\ machine' = Execute(machine, Head(code))
               /\ code' = Tail(code)
               /\ UNCHANGED phase
       /\ UNCHANGED <<instr, before>>

Done == phase = "done" /\ UNCHANGED vars

\* The registers the allocator has put operands in.
Inputs(i) == {GetReg(o) : o \in {o \in {i.a, i.b} : o.class = "reg"}}

Among(relevant) == IF relevant THEN Samples ELSE {Junk}

Init == /\ instr \in Instrs
        /\ phase = "select"
        /\ code = <<>>
        /\ \E f \in [Inputs(instr) -> Samples],
              cell \in Among(instr.a.class = "local"),
              pointee \in Among(instr.k = "loadptr") :
             machine = Machine([r \in HwRegs |-> IF r \in Inputs(instr) THEN f[r] ELSE Junk],
                               cell, pointee)
        /\ before = machine

Next == Select \/ Run \/ Done

Spec == Init /\ [][Next]_vars

-----------------------------------------------------------------------------
\* What a MIR instruction means, of the machine before it: a word of which
\* the destination is the low part, or a fault.

\* The integer an operand stands for.
Value(o) == CASE o.class \in {"lit", "static"} -> o.n
              [] OTHER -> LET w == Val(before, ConvertOperand(o), Size(o.t))
                          IN IF IsSigned(o.t) THEN AsSigned(w, Size(o.t)) ELSE w

Ordered(k, a, b) == CASE k = "eq" -> a = b      [] k = "diff" -> a # b
                      [] k = "less" -> a < b    [] k = "more" -> a > b
                      [] k = "lesseq" -> a <= b [] k = "moreeq" -> a >= b

\* The program means something: its booleans are 0 or 1, it divides by no
\* zero and to no quotient out of range, shifts by less than the width, and
\* accesses the one address there is.
Defined ==
  LET a == Value(instr.a)
      b == Value(instr.b)
  IN /\ \A o \in {instr.a, instr.b} \ {None} : o.t = "bool" => Value(o) \in {0, 1}
     /\ CASE instr.k \in Divisions -> b # 0 /\ Quotient(a, b) \in Values(instr.t)
          [] instr.k \in Shifts    -> b \in 0 .. Bits(Size(instr.t)) - 1 /\ b < Span(1)
          [] instr.k = "loadptr"   -> a = Pointee
          [] instr.k = "storeptr"  -> b = Pointee
          [] instr.k = "convert"   -> a \in Values(instr.t) \/ Size(instr.t) <= Size(instr.a.t)
          [] OTHER -> TRUE

Meaning ==
  LET i == instr
      s == Size(i.t)
      a == Value(i.a)
      b == Value(i.b)
  IN CASE i.k \in {"move", "convert", "storeptr", "if", "exit"} -> a
       [] i.k = "loadptr" -> before.pointee
       [] i.k = "add"  -> a + b
       [] i.k = "sub"  -> a - b
       [] i.k = "mult" -> AsSigned(a, s) * AsSigned(b, s)
       [] i.k = "neg"  -> -a
       [] i.k = "not"  -> IF i.t = "bool" THEN 1 - a ELSE -1 - a
       [] i.k = "and"  -> And(Low(a, s), Low(b, s))
       [] i.k = "or"   -> Or(Low(a, s), Low(b, s))
       [] i.k = "xor"  -> Xor(Low(a, s), Low(b, s))
       [] i.k = "div"  -> Quotient(a, b)
       [] i.k = "rem"  -> Remainder(a, b)
       [] i.k = "shl"  -> Shifted(Low(a, s), b, s)
       [] i.k = "shr"  -> a \div Power[b]
       [] i.k \in Comparisons -> IF Ordered(i.k, a, b) THEN 1 ELSE 0

\* What selection takes for granted: that operands which it exchanges commute
\* (it exchanges those of a shift), and that one which it compares is no literal.
Commutes(i) ==
  i.k \in Shifts /\ AreOpEqual(i.b, i.dest) => AreOpEqual(i.a, i.dest)

Comparable(i) == i.k = "not" /\ i.t = "bool" => ~ IsConstant(i.a)

\* Where the result goes.
Target == CASE instr.k = "storeptr" -> Deref(B, Size(instr.t))
            [] instr.k = "exit"     -> R(RDI, 1)
            [] OTHER                -> Dest

-----------------------------------------------------------------------------
\* The machine holds words, and the selected lines have operands.
TypeOK == /\ phase \in {"select", "execute", "done"}
          /\ machine.reg \in [HwRegs -> Words]
          /\ machine.cell \in Words /\ machine.pointee \in Words
          /\ machine.fault \in {"none", "divide", "wild"}
          /\ \A l \in {code[n] : n \in DOMAIN code} :
               {l.d.k, l.s.k} \subseteq {"reg", "imm", "cell", "deref"}

\* The selected lines compute what the instruction means, from operands in
\* any placement, and whatever the scratch registers and the parts of the
\* registers that are no part of the operands hold.
Computes ==
  phase = "done" /\ Defined =>
    /\ machine.fault = "none"
    /\ IF instr.k = "if" THEN machine.jumped <=> Meaning = 1
       ELSE Val(machine, Target, Target.size) = Low(Meaning, Target.size)

\* An instruction writes no register but its destination and the scratch
\* registers, and no memory but its destination: no value the allocator
\* keeps in a register is lost.
KeepsLiveValues ==
  LET writes == {RAX, RCX, RDX} \cup (IF Target.k = "reg" THEN {Target.r} ELSE {})
  IN /\ \A r \in HwRegs \ writes : machine.reg[r] = before.reg[r]
     /\ Target.k # "cell" => machine.cell = before.cell
     /\ Target.k # "deref" => machine.pointee = before.pointee

\* The assembler accepts every line.
Assembles == Defined => \A n \in DOMAIN code : Encodable(code[n])

\* The lines are ones the assembler has: operands of the right kinds, in forms
\* that can be encoded.
LinesWellFormed == TypeOK /\ Assembles

=============================================================================

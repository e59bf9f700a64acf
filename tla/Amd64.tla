------------------------------- MODULE Amd64 -------------------------------
(***************************************************************************)
(* The part of the processor and of the assembler that gen writes for:     *)
(* registers with parts of 1, 2, 4 and 8 bytes, the instructions gen uses, *)
(* and which forms of them exist.  A byte has ByteBits bits here, so that  *)
(* a small instance has all the widths in their proportions.               *)
(***************************************************************************)
EXTENDS Integers

CONSTANT ByteBits

ASSUME ByteWidth == ByteBits \in Nat \ {0}

\* Two to the n, as a function that proofs can unfold.
Power[n \in Nat] == IF n = 0 THEN 1 ELSE 2 * Power[n - 1]

Bits(size)  == ByteBits * size
Span(size)  == Power[Bits(size)]
Words       == 0 .. Span(8) - 1

\* The part of a word, and the integer it stands for.
Low(w, size)      == w % Span(size)
AsSigned(w, size) == LET v == Low(w, size)
                     IN IF 2 * v < Span(size) THEN v ELSE v - Span(size)

\* Writing 4 bytes clears the upper 4; writing 1 or 2 keeps the rest.
WritePart(old, size, v) ==
  IF size \in {4, 8} THEN Low(v, size) ELSE old - Low(old, size) + Low(v, size)

\* Immediates of all instructions but a move to an 8-byte register.
Imm32 == -(Span(4) \div 2) .. Span(4) \div 2 - 1

HwRegs == 0 .. 15
RAX == 0
RCX == 1
RDX == 2
RDI == 7

-----------------------------------------------------------------------------
\* Operands and lines.

R(r, size)       == [k |-> "reg", r |-> r, size |-> size]
Imm(v)           == [k |-> "imm", v |-> v]
Cell(size)       == [k |-> "cell", size |-> size]               \* a frame slot
Deref(a, size)   == [k |-> "deref", a |-> a, size |-> size]     \* [a]

Bin(op, d, s) == [op |-> op, d |-> d, s |-> s]
Unary(op, d)  == [op |-> op, d |-> d, s |-> Imm(0)]
Plain(op)     == [op |-> op, d |-> Imm(0), s |-> Imm(0)]

\* A machine: its registers, one frame slot and the word at Pointee, the
\* last comparison, whether a jump was taken, and what went wrong.
Pointee == 1

Machine(reg, cell, pointee) ==
  [reg |-> reg, cell |-> cell, pointee |-> pointee,
   cmp |-> [a |-> 0, b |-> 0, size |-> 1], jumped |-> FALSE, fault |-> "none"]

Val(m, o, size) == CASE o.k = "reg"   -> Low(m.reg[o.r], size)
                     [] o.k = "imm"   -> Low(o.v, size)
                     [] o.k = "cell"  -> Low(m.cell, size)
                     [] o.k = "deref" -> Low(m.pointee, size)

\* An immediate is no destination: see Encodable.
Put(m, o, v) ==
  CASE o.k = "reg"   -> [m EXCEPT !.reg[o.r] = WritePart(@, o.size, v)]
    [] o.k = "cell"  -> [m EXCEPT !.cell = @ - Low(@, o.size) + Low(v, o.size)]
    [] o.k = "deref" -> [m EXCEPT !.pointee = @ - Low(@, o.size) + Low(v, o.size)]
    [] OTHER -> m

-----------------------------------------------------------------------------
\* Arithmetic.

Bit(w, i) == (w \div Power[i]) % 2

\* The sum of the bits the words have in common, from the lowest.
And(a, b) ==
  LET sum[n \in Nat] ==
        IF n = 0 THEN 0 ELSE sum[n - 1] + Power[n - 1] * Bit(a, n - 1) * Bit(b, n - 1)
  IN sum[Bits(8)]
Or(a, b)  == a + b - And(a, b)
Xor(a, b) == a + b - 2 * And(a, b)

Magnitude(v) == IF v < 0 THEN -v ELSE v
SignOf(v)    == IF v < 0 THEN -1 ELSE 1

\* Division rounds towards zero; the remainder has the dividend's sign.
Quotient(a, b)  == SignOf(a) * SignOf(b) * (Magnitude(a) \div Magnitude(b))
Remainder(a, b) == a - b * Quotient(a, b)

Count(c, size) == c % Bits(IF size = 8 THEN 8 ELSE 4)

Shifted(a, c, size) == IF c >= Bits(size) THEN 0 ELSE (a % Power[Bits(size) - c]) * Power[c]

Arith(op, a, b, size) ==
  CASE op = "mov" -> b
    [] op = "add" -> a + b
    [] op = "sub" -> a - b
    [] op = "and" -> And(a, b)
    [] op = "or"  -> Or(a, b)
    [] op = "xor" -> Xor(a, b)
    [] op = "imul" -> AsSigned(a, size) * AsSigned(b, size)
    [] op \in {"shl", "sal"} -> Shifted(a, Count(b, size), size)
    [] op = "shr" -> a \div Power[Count(b, size)]
    [] op = "sar" -> AsSigned(a, size) \div Power[Count(b, size)]

Holds(cc, c) ==
  LET sa == AsSigned(c.a, c.size)
      sb == AsSigned(c.b, c.size)
  IN CASE cc = "sete"  -> c.a = c.b    [] cc = "setne" -> c.a # c.b
       [] cc = "setl"  -> sa < sb      [] cc = "setg"  -> sa > sb
       [] cc = "setle" -> sa <= sb     [] cc = "setge" -> sa >= sb
       [] cc = "setb"  -> c.a < c.b    [] cc = "seta"  -> c.a > c.b
       [] cc = "setbe" -> c.a <= c.b   [] cc = "setae" -> c.a >= c.b

\* div and idiv: the dividend is in RDX and RAX; the quotient must fit.
Divide(m, op, o) ==
  LET size == o.size
      hi   == Low(m.reg[RDX], size)
      lo   == Low(m.reg[RAX], size)
      a    == IF op = "div" THEN hi * Span(size) + lo
                            ELSE AsSigned(hi, size) * Span(size) + lo
      b    == IF op = "div" THEN Val(m, o, size) ELSE AsSigned(Val(m, o, size), size)
      q    == Quotient(a, b)
      fits == IF op = "div" THEN q < Span(size)
                            ELSE q >= -(Span(size) \div 2) /\ q < Span(size) \div 2
  IN IF b = 0 THEN [m EXCEPT !.fault = "divide"]
     ELSE IF ~fits THEN [m EXCEPT !.fault = "divide"]
     ELSE Put(Put(m, R(RAX, size), q), R(RDX, size), Remainder(a, b))

\* cdq, cqo: RDX is the sign of RAX.
SpreadSign(m, size) ==
  Put(m, R(RDX, size), IF AsSigned(m.reg[RAX], size) < 0 THEN Span(size) - 1 ELSE 0)

\* An access to memory through another address than Pointee.
Wild(m, o) == o.k = "deref" /\ Val(m, o.a, 8) # Pointee

Execute(m, l) ==
  LET size == l.d.size
      a    == Val(m, l.d, size)
      b    == Val(m, l.s, IF l.s.k = "imm" THEN size ELSE l.s.size)
  IN IF Wild(m, l.d) \/ Wild(m, l.s) THEN [m EXCEPT !.fault = "wild"]
     ELSE
     CASE l.op = "cdq" -> SpreadSign(m, 4)
       [] l.op = "cqo" -> SpreadSign(m, 8)
       [] l.op \in {"nop", "syscall"} -> m
       [] l.op \in {"div", "idiv"} -> Divide(m, l.op, l.d)
       [] l.op = "cmp" -> [m EXCEPT !.cmp = [a |-> a, b |-> b, size |-> size]]
       [] l.op = "je"  -> [m EXCEPT !.jumped = m.cmp.a = m.cmp.b]
       [] l.op \in {"sete", "setne", "setl", "setg", "setle", "setge",
                    "setb", "seta", "setbe", "setae"} ->
            Put(m, l.d, IF Holds(l.op, m.cmp) THEN 1 ELSE 0)
       [] l.op = "neg" -> Put(m, l.d, -a)
       [] l.op = "not" -> Put(m, l.d, Span(size) - 1 - a)
       [] l.op \in {"movsx", "movsxd"} -> Put(m, l.d, AsSigned(b, l.s.size))
       [] l.op = "movzx" -> Put(m, l.d, b)
       [] OTHER -> Put(m, l.d, Arith(l.op, a, b, size))

-----------------------------------------------------------------------------
\* What the assembler accepts.

Memory(o) == o.k \in {"cell", "deref"}

Encodable(l) ==
  LET d == l.d
      s == l.s
      sized == s.k = "imm" \/ s.size = d.size
      fits  == s.k = "imm" =>
                 IF d.size < 8 THEN s.v \in -(Span(d.size) \div 2) .. Span(d.size) - 1
                 ELSE s.v \in Imm32 \/ (l.op = "mov" /\ d.k = "reg")
  IN CASE l.op \in {"cdq", "cqo", "nop", "je", "syscall"} -> TRUE
       [] l.op \in {"sete", "setne", "setl", "setg", "setle", "setge",
                    "setb", "seta", "setbe", "setae"} -> d.k # "imm" /\ d.size = 1
       [] l.op \in {"neg", "not", "div", "idiv"} -> d.k # "imm"
       [] l.op \in {"shl", "sal", "shr", "sar"} ->
            /\ d.k # "imm"
            /\ s = R(RCX, 1) \/ (s.k = "imm" /\ s.v \in -(Span(1) \div 2) .. Span(1) - 1)
       [] l.op = "movsx"  -> d.k = "reg" /\ s.k # "imm" /\ s.size < d.size /\ s.size < 4
       [] l.op = "movzx"  -> d.k = "reg" /\ s.k # "imm" /\ s.size < d.size /\ s.size < 4
       [] l.op = "movsxd" -> d.k = "reg" /\ s.k # "imm" /\ s.size = 4 /\ d.size = 8
       [] l.op = "imul"   -> d.k = "reg" /\ d.size > 1 /\ sized /\ fits
       [] OTHER -> d.k # "imm" /\ ~(Memory(d) /\ Memory(s)) /\ sized /\ fits

=============================================================================

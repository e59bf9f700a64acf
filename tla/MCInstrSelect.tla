--------------------------- MODULE MCInstrSelect ---------------------------
(***************************************************************************)
(* Every MIR instruction, of every type, with its operands in every        *)
(* combination of registers and literals the allocator produces: the       *)
(* destination may be the register of an operand that is not used again.   *)
(***************************************************************************)
EXTENDS InstrSelect

\* The ends of a type's range and of 32 bits, and around zero.
Literals(t) == LET m == Span(Size(t))
               IN {Literal(v, t) : v \in Values(t) \cap
                     {-(m \div 2), -1, 1, 2, Span(4) \div 2, m \div 2 - 1, m - 1}}

Sources(n, t) == {Register(n, t)} \cup Literals(t)

Dests(t) == {Register(n, t) : n \in 0 .. 2}

\* Operand b is in another register than a, or the same.
Binaries(ks, t, out) ==
  {Instr(k, t, a, b, d) : k \in ks, a \in Sources(0, t),
                          b \in Sources(1, t) \cup {Register(0, t)}, d \in Dests(out)}

Unaries(k, t, as, ds) == {Instr(k, t, a, None, d) : a \in as, d \in ds}

Arithmetic(t) ==
  Binaries(Simple \cup {"sub"} \cup Divisions \cup Shifts, t, t)
    \cup Binaries(Comparisons, t, "bool")
    \cup Unaries("neg", t, Sources(0, t), Dests(t))
    \cup Unaries("not", t, Sources(0, t), Dests(t))

Bools == Binaries({"and", "or", "xor"}, "bool", "bool")
           \cup Binaries({"eq", "diff"}, "bool", "bool")
           \cup Unaries("not", "bool", Sources(0, "bool"), Dests("bool"))
           \cup Unaries("if", "bool", Sources(0, "bool"), {None})

Moves(t) ==
  Unaries("move", t, Sources(0, t), Dests(t) \cup {Local(t)})
    \cup Unaries("move", t, {Local(t)}, Dests(t))
    \cup Unaries("loadptr", t, {Register(0, "ptr"), Static("ptr")}, Dests(t))
    \cup {Instr("storeptr", t, a, p, None) :
            a \in Sources(0, t), p \in {Register(1, "ptr"), Static("ptr")}}

Conversions == UNION {Unaries("convert", t, Sources(0, s), Dests(t)) :
                        s \in Integer, t \in Integer}

Pointers == {Static("ptr"), Register(0, "ptr"), Register(1, "ptr")}

PtrArithmetic ==
  {Instr(k, "ptr", p, n, d) : k \in {"add", "sub"}, p \in Pointers,
      n \in UNION {Sources(1, t) : t \in Integer}, d \in Dests("ptr")}
    \cup {Instr("add", "ptr", n, p, d) : p \in Pointers \ {Register(1, "ptr")},
            n \in UNION {Sources(1, t) : t \in Integer}, d \in Dests("ptr")}

\* The code may be in any register of the allocator.
Exits == Unaries("exit", "i8", Literals("i8") \cup {Local("i8")}
                   \cup {Register(n - 1, "i8") : n \in DOMAIN Registers}, {None})

All == UNION {Arithmetic(t) : t \in Integer} \cup UNION {Moves(t) : t \in Integer \cup {"ptr", "bool"}}
         \cup Bools \cup Conversions \cup PtrArithmetic \cup Exits

-----------------------------------------------------------------------------
\* What gen gets right; each conjunct leaves out what it does not: shifts,
\* which convertToTwoAddr takes to commute, the not of a literal, and these.

\* cdq extends eax, of which a smaller dividend is only a part, and an
\* unsigned one is not to be extended by its sign.
Extended(i) == i.k \in Divisions => i.t \in {"i32", "i64", "u64"}

\* genExit clears RDI before it moves the code into it.
Kept(i) == i.k = "exit" /\ i.a.class = "reg" => GetReg(i.a) # RDI

Sound(i) == Commutes(i) /\ Extended(i) /\ Kept(i) /\ Comparable(i)

MCInstrs == {i \in All : Sound(i)}

\* set b = 1 << i, where i is not used again, and a number too large for a count.
ShiftInstrs == {Instr("shl", "i32", Literal(v, "i32"), Register(0, "i32"), Register(0, "i32"))
                  : v \in {1, 100}}

\* exit b, where b is in RDI.
ExitInstrs == {i \in Exits : ~ Kept(i)}

\* b = not false, and a quotient of unsigned numbers of 4 bytes.
NotInstrs == {i \in Bools : ~ Comparable(i)}
DivisionInstrs == {Instr("div", "u32", Register(0, "u32"), Register(1, "u32"), Register(2, "u32"))}

MCSamples == {0, 1, 3, 128, 255, 21848, 32768, 43691, 65535}

=============================================================================

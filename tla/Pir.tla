-------------------------------- MODULE Pir --------------------------------
(***************************************************************************)
(* The compiler's first intermediate representation (core/pir/pir.go): a   *)
(* procedure is a list of basic blocks, a block is straight-line code      *)
(* followed by one control-flow record.                                    *)
(*                                                                         *)
(* An operand is a record of a class and an identifier.  Temporaries,      *)
(* variables and arguments are values: they live somewhere in the frame or *)
(* in a register.  Literals and globals are constants of the code.  Types  *)
(* and source ranges of operands are left out: no decision modelled here   *)
(* looks at them.                                                          *)
(***************************************************************************)
EXTENDS Integers, Sequences

CONSTANTS
  NumTemps,   \* temporaries a block may use
  NumVars,    \* local variables of the procedure
  NumArgs     \* arguments of the procedure

ASSUME PirSizes == /\ NumTemps \in Nat
                   /\ NumVars \in Nat
                   /\ NumArgs \in Nat

Operand(class, id) == [class |-> class, id |-> id]

Temp(i)   == Operand("temp", i)
Var(i)    == Operand("var", i)
Arg(i)    == Operand("arg", i)
Lit(i)    == Operand("lit", i)
Global(i) == Operand("global", i)

\* Identifiers count from zero, as in the compiler.
Temps  == {Temp(i) : i \in 0 .. NumTemps - 1}
Locals == {Var(i) : i \in 0 .. NumVars - 1}
Args   == {Arg(i) : i \in 0 .. NumArgs - 1}
Values == Temps \cup Locals \cup Args

-----------------------------------------------------------------------------
\* Instructions: a kind, the operands read, the operands written.

Instr(kind, ops, dest) == [t |-> kind, ops |-> ops, dest |-> dest]

Bin(a, b, c)           == Instr("bin", <<a, b>>, <<c>>)
UnWithDest(a, c)       == Instr("un", <<a, c>>, <<c>>)     \* mutant of Un
Un(a, c)               == Instr("un", <<a>>, <<c>>)
LoadPtr(ptr, c)        == Instr("loadptr", <<ptr>>, <<c>>)
StorePtr(source, ptr)  == Instr("storeptr", <<source, ptr>>, <<>>)
Copy(source, c)        == Instr("copy", <<source>>, <<c>>)
Call(proc, args, rets) == Instr("call", <<proc>> \o args, rets)

\* Control flow out of a block; branch targets belong to the procedure.
Flow(kind, v) == [t |-> kind, v |-> v]

Jmp       == Flow("jmp", <<>>)
If(cond)  == Flow("if", <<cond>>)
Exit(c)   == Flow("exit", <<c>>)
Return(v) == Flow("return", v)

\* Operands and instructions of a block, for typing.
Operands == Values \cup [class : {"lit", "global"}, id : Nat]

Instrs == [t    : {"bin", "un", "loadptr", "storeptr", "copy", "call"},
           ops  : Seq(Operands),
           dest : Seq(Values)]

Arity == [bin |-> <<2, 1>>, un |-> <<1, 1>>, loadptr |-> <<1, 1>>,
          storeptr |-> <<2, 0>>, copy |-> <<1, 1>>]

WellFormedInstr(ins) ==
  /\ ins \in Instrs
  /\ IF ins.t = "call"
       THEN /\ ins.ops # <<>>
            /\ \A k \in DOMAIN ins.dest : /\ ins.dest[k] \in Temps
                                          /\ ins.dest[k] # ins.ops[1]
       ELSE <<Len(ins.ops), Len(ins.dest)>> = Arity[ins.t]

WellFormedFlow(out) ==
  /\ out \in [t : {"jmp", "if", "exit", "return"}, v : Seq(Operands)]
  /\ out.t = "jmp" => out.v = <<>>
  /\ out.t \in {"if", "exit"} => Len(out.v) = 1

=============================================================================

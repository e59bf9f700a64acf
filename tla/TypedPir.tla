------------------------------ MODULE TypedPir ------------------------------
(***************************************************************************)
(* PIR instructions with their types, as pir/util makes them, and what the *)
(* PIR checker demands of each.                                            *)
(***************************************************************************)
EXTENDS BodySyntax

\* id: number of a temporary or a local, name of a symbol, 0 of a literal.
Operand(class, t, id) == [class |-> class, type |-> t, id |-> id]

LitOp(t) == Operand("lit", t, 0)
NoOp     == Operand("invalid", Nil, 0)    \* the zero Operand

Instr(kind, t, ops, dest) == [kind |-> kind, type |-> t, ops |-> ops, dest |-> dest]

BinI(o, a, b, dest)    == Instr(o, dest.type, <<a, b>>, <<dest>>)
BinOut(o, a, b, dest)  == Instr(o, a.type, <<a, b>>, <<dest>>)
UnI(o, a, dest)        == Instr(o, dest.type, <<a>>, <<dest>>)
ConvertI(a, dest)      == Instr("convert", dest.type, <<a>>, <<dest>>)
CopyI(a, dest)         == Instr("copy", a.type, <<a>>, <<dest>>)
LoadPtr(p, dest)       == Instr("load", dest.type, <<p>>, <<dest>>)
StorePtr(a, p)         == Instr("store", a.type, <<a, p>>, <<>>)
CallI(p, args, rets)   == Instr("call", Nil, <<p>> \o args, rets)
Flow(kind, ops)        == Instr(kind, Nil, ops, <<>>)   \* how a block ends

-----------------------------------------------------------------------------
IsOperable(c) == c \in {"temp", "lit", "variable", "arg", "global"}
IsResult(c)   == c \in {"temp", "variable", "arg"}

Basics == Integers \cup Pointers \cup {"bool", "void"}
All    == Basics \cup DOMAIN Procs

Oper(op, T) == op.type \in T /\ IsOperable(op.class)
Res(op, T)  == op.type \in T /\ IsResult(op.class)

\* checkForm
Form(i, n, hasDest) ==
  /\ Len(i.ops) = n
  /\ \A k \in DOMAIN i.ops : i.ops[k].class # "invalid"
  /\ hasDest => i.dest # <<>>

\* checkEqual over the type of the instruction, the operands and the result.
EqualAll(i)  == \A k \in DOMAIN i.ops : i.ops[k].type = i.type
EqualDest(i) == i.dest[1].type = i.type

Binary(i, A, B, C) == Oper(i.ops[1], A) /\ Oper(i.ops[2], B) /\ Res(i.dest[1], C)
Unary(i, A, C)     == Oper(i.ops[1], A) /\ Res(i.dest[1], C)

CheckAddSub(i) ==
  LET a == i.ops[1].type b == i.ops[2].type
  IN CASE IsPtr(a) -> Binary(i, Pointers, Integers, Pointers)
       [] ~IsPtr(a) /\ IsPtr(b) -> Binary(i, Integers, Pointers, Pointers)
       [] OTHER -> EqualAll(i) /\ EqualDest(i) /\ Binary(i, Integers, Integers, Integers)

CheckCallInstr(i) ==
  /\ i.ops # <<>> /\ IsProc(i.ops[1].type)
  /\ LET p == Procs[i.ops[1].type]
     IN /\ [k \in 1..Len(i.ops) - 1 |-> i.ops[k + 1].type] = p.args
        /\ [k \in DOMAIN i.dest |-> i.dest[k].type] = p.rets

CheckInstr(i) ==
  CASE i.kind \in {"+", "-"} -> Form(i, 2, TRUE) /\ CheckAddSub(i)
    [] i.kind \in {"*", "/", "%", "<<", ">>"} ->
         Form(i, 2, TRUE) /\ EqualAll(i) /\ EqualDest(i) /\ Binary(i, Integers, Integers, Integers)
    [] i.kind \in {"==", "!="} -> Form(i, 2, TRUE) /\ EqualAll(i) /\ Binary(i, All, All, {"bool"})
    [] i.kind \in Comparisons \ {"==", "!="} ->
         Form(i, 2, TRUE) /\ EqualAll(i) /\ Binary(i, Basics, Basics, {"bool"})
    [] i.kind \in {"and", "or", "xor"} ->
         Form(i, 2, TRUE) /\ EqualAll(i) /\ EqualDest(i) /\ Binary(i, Basics, Basics, Basics)
    [] i.kind = "not"     -> Form(i, 1, TRUE) /\ EqualAll(i) /\ EqualDest(i) /\ Unary(i, Basics, Basics)
    [] i.kind = "neg"     -> Form(i, 1, TRUE) /\ EqualAll(i) /\ EqualDest(i) /\ Unary(i, Integers, Integers)
    [] i.kind = "convert" -> Form(i, 1, TRUE) /\ EqualDest(i) /\ Unary(i, All, All)
    [] i.kind = "copy"    -> Form(i, 1, TRUE) /\ EqualAll(i) /\ EqualDest(i) /\ Unary(i, All, All)
    [] i.kind = "load"    -> Form(i, 1, TRUE) /\ Unary(i, Pointers, All)  \* checkEqual's error is dropped
    [] i.kind = "store"   -> /\ Form(i, 2, FALSE) /\ i.ops[1].type = i.type
                             /\ Oper(i.ops[1], All) /\ Oper(i.ops[2], Pointers)
    [] i.kind = "call"    -> CheckCallInstr(i)
    [] i.kind = "branch"  -> TRUE
    [] i.kind = "return"  -> [k \in DOMAIN i.ops |-> i.ops[k].type] = Rets
    [] i.kind = "exit"    -> Len(i.ops) = 1 /\ i.ops[1].type = "i8"

=============================================================================

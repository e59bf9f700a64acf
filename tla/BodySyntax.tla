----------------------------- MODULE BodySyntax -----------------------------
(***************************************************************************)
(* Bodies of procedures as the type checker and linearization see them:    *)
(* types, names in scope, the nodes of expressions and statements.         *)
(*                                                                         *)
(* A type is its name: the basic types by theirs, a struct by its own, and *)
(* a procedure type by one that stands for its arguments and results, so   *)
(* that two types are equal (Type.Equals) when their names are.            *)
(***************************************************************************)
EXTENDS Naturals, Sequences, SequencesExt

CONSTANTS
  Nil,        \* a type that was never set
  Structs,    \* Structs[t]: the fields of struct type t, and their types
  Procs,      \* Procs[t]: the arguments and results of procedure type t
  Locals,     \* Locals[n]: class, position and type of a local
  Globals,    \* Globals[n]: kind and type of a symbol of the module
  Externals,  \* the same of the symbols other modules export
  Rets        \* result types of the procedure

ASSUME ProcTypesDiffer == \A s, t \in DOMAIN Procs : Procs[s] = Procs[t] => s = t

Ok == "ok"
Error == "error"
Panic == "panic"

-----------------------------------------------------------------------------
\* Types.

Integers == {"i8", "i16", "i32", "i64", "u8", "u16", "u32", "u64"}
Pointers == {"ptr"} \cup DOMAIN Structs

IsProc(t) == t \in DOMAIN Procs
IsStruct(t) == t \in DOMAIN Structs
IsPtr(t) == t \in Pointers
IsInteger(t) == t \in Integers
IsBool(t) == t = "bool"

\* Void is a basic type.
IsBasic(t) == t \in Integers \cup Pointers \cup {"bool", "void"}
IsBasicOrProc(t) == IsBasic(t) \/ IsProc(t)

Narrow(t) == t \in {"bool", "i8", "u8", "i16", "u16"}   \* Size() < 4

-----------------------------------------------------------------------------
\* Expressions.

Name(n)         == [lex |-> "name", name |-> n]
External(n)     == [lex |-> "external", name |-> n]
Lit(t)          == [lex |-> "literal", type |-> t]
Sizeof(x)       == [lex |-> "sizeof", of |-> x]           \* a type or a name
SizeofField(x, f) == [lex |-> "sizeofField", of |-> x, field |-> f]
Bin(o, a, b)    == [lex |-> "binary", op |-> o, left |-> a, right |-> b]
Un(o, a)        == [lex |-> "unary", op |-> o, arg |-> a]
Convert(a, t)   == [lex |-> "convert", arg |-> a, type |-> t]
Deref(a, t)     == [lex |-> "deref", arg |-> a, type |-> t]
Dot(a, f)       == [lex |-> "dot", arg |-> a, field |-> f]
Arrow(a, f)     == [lex |-> "arrow", arg |-> a, field |-> f]
Call(p, args)   == [lex |-> "call", callee |-> p, args |-> args]

\* The expressions an expression is made of, in the order they are evaluated.
Parts(e) ==
  CASE e.lex = "binary" -> <<e.left, e.right>>
    [] e.lex \in {"unary", "convert", "deref", "dot", "arrow"} -> <<e.arg>>
    [] e.lex = "call"   -> <<e.callee>> \o e.args
    [] OTHER            -> <<>>

Comparisons == {"==", "!=", "<", "<=", ">", ">="}
Arithmetic  == {"*", "/", "%", "&", "|", "^", "<<", ">>"}

\* Statements.  A control structure is its condition here: what it does with
\* blocks is in ControlFlow.
Do(e)           == [lex |-> "expression", exp |-> e]
Cond(k, e)      == [lex |-> k, exp |-> e]       \* if, elseif, while, dowhile
Return(es)      == [lex |-> "return", exps |-> es]
Exit(e)         == [lex |-> "exit", exp |-> e]
Assign(ts, e)   == [lex |-> "set", left |-> ts, right |-> e]
OpAssign(t, o, e) == [lex |-> "opset", left |-> <<t>>, op |-> o, right |-> e]
Swap(t, e)      == [lex |-> "swap", left |-> <<t>>, right |-> e]
Step(t, o)      == [lex |-> "step", left |-> <<t>>, op |-> o]   \* ++ and --

Conditions == {"if", "elseif", "while", "dowhile"}

=============================================================================

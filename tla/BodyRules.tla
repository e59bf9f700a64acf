----------------------------- MODULE BodyRules ------------------------------
(***************************************************************************)
(* What types mean in a body: an operator has signatures, an expression    *)
(* has the types it gets from them, without an order of checks, and what   *)
(* it reads and writes in memory is as wide as its types say.  An          *)
(* expression gives a sequence of values: none, one, or those of a call.   *)
(***************************************************************************)
EXTENDS BodySyntax

Values == Integers \cup Pointers \cup {"bool"} \cup DOMAIN Procs

Signatures(o) ==
  LET same(T)   == {<<t, t, t>> : t \in T}
      moved     == {<<p, i, p>> : p \in Pointers, i \in Integers}
      compare(T) == {<<t, t, "bool">> : t \in T}
  IN CASE o = "+" -> same(Integers) \cup moved \cup {<<s[2], s[1], s[3]>> : s \in moved}
       [] o = "-" -> same(Integers) \cup moved
       [] o \in {"==", "!="} -> compare(Values)
       [] o \in Comparisons \ {"==", "!="} -> compare(Values \ DOMAIN Procs)
       [] o \in {"and", "or"} -> compare({"bool"})
       [] OTHER -> same(Integers)

Singly(T) == {<<t>> : t \in T}

Declared(symbols, n) ==
  {<<symbols[x].type>> : x \in {y \in {n} \cap DOMAIN symbols : symbols[y].kind # "struct"}}

StructNames == {n \in DOMAIN Globals : Globals[n].kind = "struct"}

Having(f) == {s \in DOMAIN Structs : f \in DOMAIN Structs[s]}

RECURSIVE TypesOf(_)
TypesOf(e) ==
  LET of == [i \in DOMAIN Parts(e) |-> TypesOf(Parts(e)[i])]
  IN CASE e.lex = "name" -> IF e.name \in DOMAIN Locals THEN {<<Locals[e.name].type>>}
                            ELSE Declared(Globals, e.name)
       [] e.lex = "external" -> Declared(Externals, e.name)
       [] e.lex = "literal"  -> {<<e.type>>}
       [] e.lex = "sizeof"   -> {<<"i32">> : x \in {e.of} \cap
                                  (Values \cup {n \in DOMAIN Globals : Globals[n].kind = "data"})}
       [] e.lex = "sizeofField" -> {<<"i32">> : s \in {e.of} \cap StructNames \cap Having(e.field)}
       [] e.lex = "binary"   ->
            {<<s[3]>> : s \in {x \in Signatures(e.op) : <<x[1]>> \in of[1] /\ <<x[2]>> \in of[2]}}
       [] e.lex = "unary"    -> of[1] \cap Singly(IF e.op = "not" THEN {"bool"} ELSE Integers)
       [] e.lex = "convert"  -> {<<e.type>> : t \in of[1] \cap Singly(Values)}
       [] e.lex = "deref"    -> {<<e.type>> : t \in of[1] \cap Singly(Pointers)}
       [] e.lex = "dot"      -> IF e.arg.lex = "name" /\ e.arg.name \in StructNames
                                THEN {<<"i32">> : s \in {e.arg.name} \cap Having(e.field)}
                                ELSE {<<"ptr">> : t \in of[1] \cap Singly(Having(e.field))}
       [] e.lex = "arrow"    -> {<<Structs[t[1]][e.field]>> : t \in of[1] \cap Singly(Having(e.field))}
       [] e.lex = "call"     ->
            LET Takes(p) == /\ <<p>> \in of[1]
                            /\ Len(e.args) = Len(Procs[p].args)
                            /\ \A i \in DOMAIN e.args : <<Procs[p].args[i]>> \in of[i + 1]
                Indexed(s) == /\ <<s>> \in of[1] /\ Len(e.args) = 1
                              /\ of[2] \cap Singly(Integers) # {}
            IN {Procs[p].rets : p \in {x \in DOMAIN Procs : Takes(x)}}
                 \cup Singly({s \in DOMAIN Structs : Indexed(s)})

-----------------------------------------------------------------------------
\* Statements.

IsPlace(e) == (e.lex = "name" => e.name \in DOMAIN Locals) /\ e.lex \in {"name", "deref", "arrow"}

Places(es) == \A i \in DOMAIN es : IsPlace(es[i]) /\ TypesOf(es[i]) # {}

Has(e, t) == <<t>> \in TypesOf(e)

WellTyped(s) ==
  CASE s.lex = "expression" -> TypesOf(s.exp) # {}
    [] s.lex \in Conditions -> Has(s.exp, "bool")
    [] s.lex = "exit"   -> Has(s.exp, "i8")
    [] s.lex = "return" -> Len(s.exps) = Len(Rets) /\ \A i \in DOMAIN Rets : Has(s.exps[i], Rets[i])
    [] s.lex = "step"   -> Places(s.left) /\ \E t \in Integers \cup Pointers : Has(s.left[1], t)
    [] s.lex = "set" ->
         /\ Places(s.left)
         /\ \E r \in TypesOf(s.right) : /\ Len(r) = Len(s.left)
                                        /\ \A i \in DOMAIN r : Has(s.left[i], r[i])
    [] s.lex = "swap" ->
         Places(s.left \o <<s.right>>) /\ TypesOf(s.left[1]) = TypesOf(s.right)
    [] s.lex = "opset" ->
         /\ Places(s.left)
         /\ LET Kept(x) == x[3] = x[1] /\ Has(s.left[1], x[1]) /\ Has(s.right, x[2])
            IN \E x \in Signatures(s.op) : Kept(x)

-----------------------------------------------------------------------------
\* What a well typed statement reads, writes, calls and decides on, and as
\* what, in the order of evaluation.

Load(t)  == [do |-> "load", type |-> t]
Store(t) == [do |-> "store", type |-> t]

The(T) == CHOOSE t \in T : TRUE

TypeIn(e) == Head(The(TypesOf(e)))

RECURSIVE Effects(_)
Effects(e) ==
  LET inner == FlattenSeq([i \in DOMAIN Parts(e) |-> Effects(Parts(e)[i])])
  IN CASE e.lex \in {"deref", "arrow"} -> Append(inner, Load(TypeIn(e)))
       [] e.lex = "call" /\ IsProc(TypeIn(e.callee)) ->
            Append(inner, [do |-> "call", type |-> TypeIn(e.callee)])
       [] OTHER -> inner

Address(e) == IF e.lex = "name" THEN <<>> ELSE Effects(e.arg)

InMemory(e, accesses) == IF e.lex = "name" THEN <<>> ELSE accesses

SetEffects(s) ==
  LET l == s.left[1] r == s.right t == TypeIn(l) u == TypeIn(r)
  IN CASE s.lex = "set" -> Effects(r) \o FlattenSeq([i \in DOMAIN s.left |->
            Address(s.left[i]) \o InMemory(s.left[i], <<Store(TypeIn(s.left[i]))>>)])
       [] s.lex = "swap" -> Address(l) \o Address(r)
            \o InMemory(l, <<Load(t)>>) \o InMemory(r, <<Load(u)>>)
            \o InMemory(l, <<Store(t)>>) \o InMemory(r, <<Store(u)>>)
       [] OTHER -> Effects(r) \o Address(l) \o InMemory(l, <<Load(t), Store(t)>>)

StatementEffects(s) ==
  CASE s.lex = "expression" -> Effects(s.exp)
    [] s.lex \in Conditions ->
         Append(Effects(s.exp), [do |-> "branch", type |-> "bool"])
    [] s.lex = "exit"   -> Append(Effects(s.exp), [do |-> "exit", type |-> "i8"])
    [] s.lex = "return" -> FlattenSeq([i \in DOMAIN s.exps |-> Effects(s.exps[i])])
                             \o [i \in DOMAIN Rets |-> [do |-> "return", type |-> Rets[i]]]
    [] s.lex = "step"   -> LET l == s.left[1]
                           IN Address(l) \o InMemory(l, <<Load(TypeIn(l)), Store(TypeIn(l))>>)
    [] s.lex \in {"set", "swap", "opset"} -> SetEffects(s)

=============================================================================

--------------------------- MODULE MCCompiledFlow ---------------------------
(***************************************************************************)
(* Bodies for CompiledFlow: every control structure around every simple    *)
(* body, and every control structure around one of those, alone and with   *)
(* statements before and after it.  Names say where an expression is.      *)
(***************************************************************************)
EXTENDS CompiledFlow

Simple(p) == {<<>>, <<Do(p)>>, <<Return(p)>>, <<Do(p \o "d"), Exit(p)>>}

\* Structures over the bodies B (the first arm, or the loop) and C.
Structures(p, B, C(_)) ==
  {If(<<Arm(p \o "c", b)>>, e) : b \in B, e \in C(p \o "e")}
    \cup {If(<<Arm(p \o "c", b), Arm(p \o "c2", b2)>>, e) :
            b \in B, b2 \in C(p \o "b2"), e \in C(p \o "e")}
    \cup {If(<<Arm(p \o "c", b2), Arm(p \o "c2", b)>>, e) :
            b \in B, b2 \in C(p \o "b2"), e \in C(p \o "e")}
    \cup {While(p \o "w", b) : b \in B}
    \cup {DoWhile(b, p \o "w") : b \in B}

Flat(p) == Structures(p, Simple(p \o "b"), Simple)

Few(p) == {<<>>, <<Return(p)>>}

Inner == {<<s>> : s \in Flat("i")} \cup {<<s, Do("i2")>> : s \in Flat("i")}

Nested == Structures("o", Inner, Few)

Bodies == Simple("s")
            \cup {<<s>> : s \in Flat("o")}
            \cup {<<s, t>> : s \in Flat("o"), t \in {Do("z"), Return("z"), While("z", <<>>)}}
            \cup {<<s>> : s \in Nested}
            \cup {<<Do("a"), s, Return("z")>> : s \in Nested}

-----------------------------------------------------------------------------
\* Of a body: whether no execution of it falls off its end, taking every
\* condition to go either way.

RECURSIVE NeverEnds(_)
NeverEnds(body) ==
  \E i \in DOMAIN body :
    LET st == body[i]
    IN CASE st.k \in {"return", "exit"} -> TRUE
         [] st.k = "if" -> /\ NeverEnds(st.else)
                           /\ \A j \in DOMAIN st.arms : NeverEnds(st.arms[j].body)
         [] st.k = "dowhile" -> NeverEnds(st.body)
         [] OTHER -> FALSE

MCStopping(st) == NeverEnds(<<st>>)

\* There is something to generate after an if that NeverEnds: a statement, or
\* the end of a loop.
RECURSIVE Trapped(_)
Trapped(body) ==
  \E i \in Generated(body) :
    LET st == body[i]
    IN \/ i + 1 \in DOMAIN body /\ st.k = "if" /\ NeverEnds(<<st>>)
       \/ st.k = "if" /\ (Trapped(st.else)
                            \/ \E j \in DOMAIN st.arms : Trapped(st.arms[j].body))
       \/ st.k \in {"while", "dowhile"} /\
            \/ Trapped(st.body)
            \/ \E last \in Generated(st.body) :
                 /\ last = Len(st.body) /\ st.body[last].k = "if"
                 /\ NeverEnds(<<st.body[last]>>)

MCTrapping(st) == Trapped(<<st>>)

-----------------------------------------------------------------------------
\* What the run leaves out, and runs of their own show.

\* An elseif arm that falls through under a first arm that does not.
RECURSIVE FallsPastClosed(_)
FallsPastClosed(body) ==
  \E i \in DOMAIN body :
    LET st == body[i]
    IN \/ st.k = "if" /\
            \/ /\ NeverEnds(st.arms[1].body)
               /\ \E j \in 2 .. Len(st.arms) : ~NeverEnds(st.arms[j].body)
            \/ FallsPastClosed(st.else)
            \/ \E j \in DOMAIN st.arms : FallsPastClosed(st.arms[j].body)
       \/ st.k \in {"while", "dowhile"} /\ FallsPastClosed(st.body)

\* A do-while whose body ends with a return or an exit.
RECURSIVE LeavesDoWhile(_)
LeavesDoWhile(body) ==
  \E i \in DOMAIN body :
    LET st == body[i]
    IN \/ st.k = "dowhile" /\ \E j \in DOMAIN st.body : st.body[j].k \in {"return", "exit"}
       \/ st.k = "if" /\ (LeavesDoWhile(st.else)
                            \/ \E j \in DOMAIN st.arms : LeavesDoWhile(st.arms[j].body))
       \/ st.k \in {"while", "dowhile"} /\ LeavesDoWhile(st.body)

MCProcedures ==
  [body : {b \in Bodies : ~FallsPastClosed(b) /\ ~LeavesDoWhile(b)}, returns : BOOLEAN]

RECURSIVE WithParts(_)
WithParts(S) == LET more == S \cup UNION {Parts(st) : st \in S}
                IN IF more = S THEN S ELSE WithParts(more)

MCStmts == WithParts(UNION {Elements(p.body) : p \in Procedures})

\* What the run leaves out is no more than what Straight leaves out.
ASSUME SourcesStraight == Procedures = MCProcedures => Straight

\* if c begin return r; end  elseif c2 begin d; end  z; return z;
ElseIfProcedures ==
  {[body |-> <<If(<<Arm("c", <<Return("r")>>), Arm("c2", <<Do("d")>>)>>, <<>>),
               Do("z"), Return("z")>>, returns |-> TRUE]}

\* do begin return r; end while w;
DoWhileProcedures == {[body |-> <<DoWhile(<<Return("r")>>, "w")>>, returns |-> TRUE]}

=============================================================================

---------------------------- MODULE ControlFlow -----------------------------
(***************************************************************************)
(* The lowering of control structures to basic blocks                      *)
(* (linearization/linearization.go: genProc, genBlock and the statements   *)
(* it dispatches to), and the checks made of the result: ProperlyTerminates*)
(* (core/pir/pir.go) and the PIR checker's walk (core/pir/checker).        *)
(*                                                                         *)
(* The generator is recursive on the body.  `work` is its call stack: a    *)
(* frame is the statements a genBlock has left, or what a statement's      *)
(* handler does when the genBlock it called returns.  One action is what   *)
(* happens between two calls.                                              *)
(***************************************************************************)
EXTENDS Integers, Sequences

-----------------------------------------------------------------------------
\* What the control structures of a procedure body mean.  A body is a
\* sequence of statements; expressions and plain statements are only their
\* names, for here it matters when they are evaluated and not to what.
\* The meaning is a machine on continuations: what is left to execute, and
\* whether the expression of its first statement has been evaluated.  It
\* and the machines for compiled code show the same events.

Do(e)             == [k |-> "do", e |-> e]          \* set, or an expression
Return(e)         == [k |-> "return", e |-> e]
Exit(e)           == [k |-> "exit", e |-> e]
While(e, body)    == [k |-> "while", e |-> e, body |-> body]
DoWhile(body, e)  == [k |-> "dowhile", e |-> e, body |-> body]

\* An if and its elseifs are arms; a missing else is an empty one.
Arm(e, body)      == [e |-> e, body |-> body]
If(arms, else)    == [k |-> "if", e |-> Head(arms).e, arms |-> arms, else |-> else]

\* Events: the expression e is evaluated; the flow it decides is taken.
Eval(e)        == [t |-> "eval", e |-> e]
Take(kind, e)  == [t |-> kind, e |-> e]

Machine(rest, evaluated) == [rest |-> rest, evaluated |-> evaluated]

\* Entering a do-while shows nothing.
Silent(m) == m.rest # <<>> /\ Head(m.rest).k = "dowhile"

Enter(m) ==
  LET st == Head(m.rest)
  IN Machine(st.body \o <<[st EXCEPT !.k = "test"]>> \o Tail(m.rest), FALSE)

Branching(st) == st.k \in {"if", "while", "test"}

\* Falling off the end of the body returns nothing.
Shows(m) ==
  IF m.rest = <<>> THEN Take("return", "nothing")
  ELSE LET st == Head(m.rest)
       IN IF ~m.evaluated THEN Eval(st.e)
          ELSE Take(IF Branching(st) THEN "branch" ELSE st.k, st.e)

\* The statements that come next when the condition of st is `holds`.
Chosen(st, holds) ==
  CASE st.k = "while" /\ holds    -> st.body \o <<st>>
    [] st.k = "test" /\ holds     -> <<[st EXCEPT !.k = "dowhile"]>>
    [] st.k \in {"while", "test"} /\ ~holds -> <<>>
    [] st.k = "if" /\ holds       -> Head(st.arms).body
    [] st.k = "if" /\ ~holds      -> IF Len(st.arms) = 1 THEN st.else
                                     ELSE <<If(Tail(st.arms), st.else)>>

After(m, holds) ==
  LET st == Head(m.rest)
  IN IF ~m.evaluated /\ st.k # "do" THEN Machine(m.rest, TRUE)
     ELSE Machine((IF Branching(st) THEN Chosen(st, holds) ELSE <<>>)
                    \o Tail(m.rest), FALSE)

-----------------------------------------------------------------------------
\* The generator.

CONSTANTS
  Procedures,    \* [body |-> statements, returns |-> BOOLEAN]
  Stmts          \* the statements of their bodies, with all that are in them

\* What the parser makes.  An if comes with the ifs of its later arms; that
\* nothing is returned is said of a fall off the end only.
Elements(s) == {s[i] : i \in DOMAIN s}
Listed(s)   == s \in Seq(Elements(s))

Parsed(st) ==
  CASE st.k \in {"do", "exit"} -> st = [k |-> st.k, e |-> st.e]
    [] st.k = "return" -> st = Return(st.e) /\ st.e # "nothing"
    [] st.k \in {"while", "dowhile"} ->
         st = [k |-> st.k, e |-> st.e, body |-> st.body] /\ Listed(st.body)
    [] st.k = "if" -> /\ st = If(st.arms, st.else) /\ Listed(st.else)
                      /\ Listed(st.arms) /\ st.arms # <<>>
                      /\ \A i \in DOMAIN st.arms : Listed(st.arms[i].body)
    [] OTHER -> FALSE

Parts(st) ==
  CASE st.k \in {"while", "dowhile"} -> Elements(st.body)
    [] st.k = "if" -> (UNION {Elements(st.arms[i].body) : i \in DOMAIN st.arms})
                        \cup (IF Len(st.arms) = 1 THEN Elements(st.else)
                              ELSE {If(Tail(st.arms), st.else)})
    [] OTHER -> {}

ASSUME ProceduresParsed ==
  /\ \A p \in Procedures : Listed(p.body) /\ p.returns \in BOOLEAN
  /\ \A st \in Stmts : Parsed(st)
  /\ UNION {Elements(p.body) : p \in Procedures} \subseteq Stmts
  /\ UNION {Parts(st) : st \in Stmts} \subseteq Stmts

VARIABLES
  proc,    \* the procedure being generated
  phase,
  work,
  blocks,  \* PirProc.AllBlocks; block b is blocks[b + 1]
  curr     \* CurrBlock: a block, or Nil

cfVars == <<proc, phase, work, blocks, curr>>

Nil == -1

Ids == 0 .. Len(blocks) - 1

-----------------------------------------------------------------------------
\* core/pir: blocks and their flow.

Flow(kind, e, true, false) == [t |-> kind, e |-> e, true |-> true, false |-> false]

NoFlow           == Flow("invalid", "nothing", 0, 0)
JmpTo(b)         == Flow("jmp", "nothing", b, 0)
Branch(e, t, f)  == Flow("branch", e, t, f)
ReturnOf(e)      == Flow("return", e, 0, 0)
ExitOf(e)        == Flow("exit", e, 0, 0)

EmptyBlock == [code |-> <<>>, out |-> NoFlow]

Out(b)        == blocks[b + 1].out
HasFlow(b)    == Out(b) # NoFlow
IsTerminal(b) == Out(b).t \in {"return", "exit"}

SetOut(bs, b, flow) == [bs EXCEPT ![b + 1].out = flow]

\* genExpr: code for e at the end of block b.
GenExpr(bs, b, e) == [bs EXCEPT ![b + 1].code = Append(@, Eval(e))]

\* NewBlock, n times; the first of them is N.
WithNew(bs, n) == bs \o [i \in 1 .. n |-> EmptyBlock]

N == Len(blocks)

-----------------------------------------------------------------------------
\* Frames.

Statements(s) == [k |-> "statements", s |-> s]

\* What genIf knows once the true branch is done: the out block, if there is
\* one, and outblID, which is the zero value as long as there is none.
IfFrame(kind, st, f, outbl, outblID) ==
  [k |-> kind, st |-> st, f |-> f, outbl |-> outbl, outblID |-> outblID]

LoopFrame(kind, e, start, end) == [k |-> kind, e |-> e, start |-> start, end |-> end]

Top  == Head(work)
Rest == Tail(work)

AtFrame(kind) == /\ phase = "gen"
                 /\ work # <<>>
                 /\ Top.k = kind

\* genBlock is at a statement of this kind; Later is its frame afterwards.
AtStatement(kind) == /\ AtFrame("statements")
                     /\ Top.s # <<>>
                     /\ Head(Top.s).k = kind
                     /\ curr # Nil

St    == Head(Top.s)
Later == <<Statements(Tail(Top.s))>> \o Rest

Go(w, bs, b) == /\ work' = w
                /\ blocks' = bs
                /\ curr' = b
                /\ UNCHANGED <<proc, phase>>

\* c.CurrBlock != nil && !c.CurrBlock.HasFlow()
Continues == IF curr = Nil THEN FALSE ELSE ~HasFlow(curr)

-----------------------------------------------------------------------------
CFInit == /\ proc \in Procedures
          /\ phase = "gen"
          /\ work = <<Statements(proc.body)>>
          /\ blocks = <<EmptyBlock>>
          /\ curr = 0

GenBlockEnd == /\ AtFrame("statements")
               /\ Top.s = <<>>
               /\ Go(Rest, blocks, curr)

GenStatement == /\ AtStatement("do")
                /\ Go(Later, GenExpr(blocks, curr, St.e), curr)

\* The branch of an arm: its two blocks, and the one it is generated into.
GenArm(e, body, frame, w) ==
  Go(<<Statements(body), frame>> \o w,
     WithNew(SetOut(GenExpr(blocks, curr, e), curr, Branch(e, N, N + 1)), 2),
     N)

GenIf == /\ AtStatement("if")
         /\ GenArm(St.e, Head(St.arms).body, IfFrame("true", St, N + 1, Nil, 0), Later)

\* Mutant of GenIfTrue: the out block is remembered, outblID is not.
GenIfTrueForgetful ==
  /\ AtFrame("true")
  /\ IF Continues
     THEN Go(<<IfFrame("chain", Top.st, Top.f, N, 0)>> \o Rest,
             WithNew(SetOut(blocks, curr, JmpTo(N)), 1), Top.f)
     ELSE Go(<<IfFrame("chain", Top.st, Top.f, Nil, 0)>> \o Rest, blocks, Top.f)

\* The true branch is done: an out block if it is reached.
GenIfTrue ==
  /\ AtFrame("true")
  /\ IF Continues
     THEN Go(<<IfFrame("chain", Top.st, Top.f, N, N)>> \o Rest,
             WithNew(SetOut(blocks, curr, JmpTo(N)), 1), Top.f)
     ELSE Go(<<IfFrame("chain", Top.st, Top.f, Nil, 0)>> \o Rest, blocks, Top.f)

\* genElseIfChain: the next elseif, tested in the false block of the last.
GenElseIf ==
  /\ AtFrame("chain")
  /\ Len(Top.st.arms) > 1
  /\ LET arms == Tail(Top.st.arms)
         next == If(arms, Top.st.else)
     IN GenArm(next.e, Head(arms).body,
               IfFrame("elseif", next, N + 1, Top.outbl, Top.outblID), Rest)

GenElseIfEnd ==
  /\ AtFrame("elseif")
  /\ Go(<<[Top EXCEPT !.k = "chain"]>> \o Rest,
        IF Continues THEN SetOut(blocks, curr, JmpTo(Top.outblID)) ELSE blocks,
        Top.f)

GenElse ==
  /\ AtFrame("chain")
  /\ Len(Top.st.arms) = 1
  /\ Go(<<Statements(Top.st.else), [Top EXCEPT !.k = "else"]>> \o Rest, blocks, curr)

\* Mutant of GenIfEnd: an out block is not made for the false side.
GenIfEndNoOut ==
  /\ AtFrame("else")
  /\ Go(Rest,
        IF Continues /\ Top.outbl # Nil
          THEN SetOut(blocks, curr, JmpTo(Top.outblID)) ELSE blocks,
        Top.outbl)

GenIfEnd ==
  /\ AtFrame("else")
  /\ IF Continues /\ Top.outbl = Nil
     THEN Go(Rest, WithNew(SetOut(blocks, curr, JmpTo(N)), 1), N)
     ELSE Go(Rest,
             IF Continues THEN SetOut(blocks, curr, JmpTo(Top.outblID)) ELSE blocks,
             Top.outbl)

\* Blocks N (start), N + 1 (body), N + 2 (end).
GenWhile ==
  /\ AtStatement("while")
  /\ LET bs == WithNew(SetOut(blocks, curr, JmpTo(N)), 3)
     IN Go(<<Statements(St.body), LoopFrame("while", St.e, N, N + 2)>> \o Later,
           SetOut(GenExpr(bs, N, St.e), N, Branch(St.e, N + 1, N + 2)), N + 1)

GenWhileEnd ==
  /\ AtFrame("while")
  /\ curr # Nil
  /\ Go(Rest, IF HasFlow(curr) THEN blocks ELSE SetOut(blocks, curr, JmpTo(Top.start)),
        Top.end)

\* Blocks N (body), N + 1 (end).
GenDoWhile ==
  /\ AtStatement("dowhile")
  /\ Go(<<Statements(St.body), LoopFrame("dowhile", St.e, N, N + 1)>> \o Later,
        WithNew(SetOut(blocks, curr, JmpTo(N)), 2), N)

\* Whatever flow the body ended with is replaced.
GenDoWhileEnd ==
  /\ AtFrame("dowhile")
  /\ curr # Nil
  /\ Go(Rest, SetOut(GenExpr(blocks, curr, Top.e), curr, Branch(Top.e, Top.start, Top.end)),
        Top.end)

\* A return or an exit ends its genBlock: what follows is not generated.
GenReturn ==
  /\ AtStatement("return")
  /\ Go(Rest, IF IsTerminal(curr) THEN blocks
              ELSE SetOut(GenExpr(blocks, curr, St.e), curr, ReturnOf(St.e)), curr)

GenExit ==
  /\ AtStatement("exit")
  /\ Go(Rest, SetOut(GenExpr(blocks, curr, St.e), curr, ExitOf(St.e)), curr)

\* A nil CurrBlock is dereferenced by every statement, and by the end of a
\* loop's body.
NilBlock ==
  /\ phase = "gen"
  /\ work # <<>>
  /\ curr = Nil
  /\ Top.k \in {"while", "dowhile"} \/ (Top.k = "statements" /\ Top.s # <<>>)
  /\ phase' = "panicked"
  /\ UNCHANGED <<proc, work, blocks, curr>>

-----------------------------------------------------------------------------
\* Blocks that a block's flow leads to, and all that are reached from the first.

Targets(b) == CASE Out(b).t = "branch" -> {Out(b).true, Out(b).false}
                [] Out(b).t = "jmp"    -> {Out(b).true}
                [] OTHER               -> {}

Reached ==
  LET r[n \in 0 .. Len(blocks)] ==
        IF n = 0 THEN {0} ELSE r[n - 1] \cup UNION {Targets(b) : b \in r[n - 1]}
  IN r[Len(blocks)]

\* Mutant of ProperlyTerminates: one path that ends is enough.
SomehowTerminates == \E b \in Reached : IsTerminal(b)

ProperlyTerminates == \A b \in Reached : HasFlow(b)

\* setReturn on the blocks without flow, or NotAllCodePathsReturnAValue.
GenProcEnd ==
  /\ phase = "gen"
  /\ work = <<>>
  /\ phase' = IF ~ProperlyTerminates /\ proc.returns THEN "rejected" ELSE "generated"
  /\ blocks' = IF ProperlyTerminates THEN blocks
               ELSE [i \in DOMAIN blocks |->
                       IF HasFlow(i - 1) THEN blocks[i]
                       ELSE [blocks[i] EXCEPT !.out = ReturnOf("nothing")]]
  /\ UNCHANGED <<proc, work, curr>>

\* pirchecker: every block reached has a flow, a return has what the
\* procedure returns, and every block is reached.
Check ==
  /\ phase = "generated"
  /\ phase' = IF /\ Reached = Ids
                 /\ \A b \in Ids : /\ HasFlow(b)
                                   /\ proc.returns => Out(b) # ReturnOf("nothing")
              THEN "checked" ELSE "refused"
  /\ UNCHANGED <<proc, work, blocks, curr>>

CFNext == \/ GenBlockEnd \/ GenStatement
          \/ GenIf \/ GenIfTrue \/ GenElseIf \/ GenElseIfEnd \/ GenElse \/ GenIfEnd
          \/ GenWhile \/ GenWhileEnd \/ GenDoWhile \/ GenDoWhileEnd
          \/ GenReturn \/ GenExit \/ NilBlock
          \/ GenProcEnd \/ Check

=============================================================================

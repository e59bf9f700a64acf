---------------------------- MODULE CompiledFlow ----------------------------
(***************************************************************************)
(* The control flow of a procedure from the source to the written code.    *)
(* ControlFlow and BlockOrder compile the procedure; then it runs three    *)
(* times over, in step: as the source has it, as basic blocks, and as      *)
(* lines of assembly.  A step decides every condition either way, the same *)
(* way for the three.                                                      *)
(***************************************************************************)
EXTENDS BlockOrder

\* What is said of a statement, recursions over the source; StoppingAre and
\* TrappingAre are their equations.
CONSTANTS
  Stopping(_),   \* no execution comes out at the end, taking every condition
                 \* to go either way
  Trapping(_)    \* something is to be generated after an if that is Stopping

VARIABLES
  source,   \* a source machine of ControlFlow
  block,    \* the basic blocks: which one, and which instruction of it
  at        \* the assembly: which line

runVars == <<source, block, at>>

vars == <<cfVars, boVars, runVars>>

-----------------------------------------------------------------------------
\* Basic blocks.

Code(m) == blocks[m.b + 1].code

BlockSilent(m) == m.i > Len(Code(m)) /\ Out(m.b).t = "jmp"

BlockShows(m) == IF m.i <= Len(Code(m)) THEN Code(m)[m.i]
                 ELSE Take(Out(m.b).t, Out(m.b).e)

GoTo(b) == [b |-> b, i |-> 1]

BlockAfter(m, holds) ==
  IF m.i <= Len(Code(m)) THEN [m EXCEPT !.i = @ + 1]
  ELSE GoTo(IF holds THEN Out(m.b).true ELSE Out(m.b).false)

\* Assembly.  A label is where its block is written.

LineOf(b) == CHOOSE l \in DOMAIN lines : lines[l] = Label(b)

LineSilent(l) == l \in DOMAIN lines /\ lines[l].op \in {"label", "jmp"}

LineSkip(l) == IF lines[l].op = "jmp" THEN LineOf(lines[l].arg) ELSE l + 1

LineShows(l) ==
  IF l \notin DOMAIN lines THEN Take("wild", "nothing")
  ELSE CASE lines[l].op = "code" -> lines[l].arg
         [] lines[l].op = "je"   -> Take("branch", lines[l].e)
         [] OTHER                -> Take(lines[l].op, lines[l].arg)

LineAfter(l, holds) ==
  IF lines[l].op = "je" /\ holds THEN LineOf(lines[l].arg) ELSE l + 1

-----------------------------------------------------------------------------
Init == /\ CFInit
        /\ BOInit
        /\ source = Machine(proc.body, FALSE)
        /\ block = GoTo(0)
        /\ at = 1

Start == /\ phase = "written"
         /\ phase' = "run"
         /\ UNCHANGED <<proc, work, blocks, curr, boVars, runVars>>

EnterDoWhile == /\ phase = "run"
                /\ Silent(source)
                /\ source' = Enter(source)
                /\ UNCHANGED <<cfVars, boVars, block, at>>

FollowJmp == /\ phase = "run"
             /\ BlockSilent(block)
             /\ block' = GoTo(Out(block.b).true)
             /\ UNCHANGED <<cfVars, boVars, source, at>>

SkipLine == /\ phase = "run"
            /\ LineSilent(at)
            /\ at' = LineSkip(at)
            /\ UNCHANGED <<cfVars, boVars, source, block>>

Visible == /\ phase = "run"
           /\ ~Silent(source)
           /\ ~BlockSilent(block)
           /\ ~LineSilent(at)

Leaves == Shows(source).t \in {"return", "exit"}

Step == /\ Visible
        /\ ~Leaves
        /\ \E holds \in BOOLEAN :
             /\ source' = After(source, holds)
             /\ block' = BlockAfter(block, holds)
             /\ at' = LineAfter(at, holds)
        /\ UNCHANGED <<cfVars, boVars>>

End == /\ Visible
       /\ Leaves
       /\ phase' = "ended"
       /\ UNCHANGED <<proc, work, blocks, curr, boVars, runVars>>

Stopped == /\ phase \in {"panicked", "rejected", "refused", "revisited", "ended"}
           /\ UNCHANGED vars

Compile == \/ CFNext /\ UNCHANGED <<boVars, runVars>>
           \/ BONext /\ UNCHANGED runVars

Execute == Start \/ EnterDoWhile \/ FollowJmp \/ SkipLine \/ Step \/ End

Next == Compile \/ Execute \/ Stopped

Spec == Init /\ [][Next]_vars

-----------------------------------------------------------------------------
\* Of a list of statements: whether control cannot come to its end; and of a
\* statement, whether that is so of it and no out block is made for it.
Stops(body) == \E i \in DOMAIN body : Stopping(body[i])

Closed(st) == st.k = "if" /\ Stopping(st)

ASSUME StoppingAre ==
  \A st \in Stmts :
    Stopping(st) <=>
      CASE st.k \in {"return", "exit"} -> TRUE
        [] st.k = "if" -> /\ Stops(st.else)
                          /\ \A j \in DOMAIN st.arms : Stops(st.arms[j].body)
        [] st.k = "dowhile" -> Stops(st.body)
        [] OTHER -> FALSE

\* What genBlock looks at: nothing after a return or an exit.
Generated(body) ==
  {i \in DOMAIN body : \A j \in 1 .. i - 1 : body[j].k \notin {"return", "exit"}}

EndsClosed(body) == \E i \in Generated(body) : i = Len(body) /\ Closed(body[i])

\* There is a statement to generate after a closed if.
DeadEnd(body) ==
  \E i \in Generated(body) :
    Trapping(body[i]) \/ (i + 1 \in DOMAIN body /\ Closed(body[i]))

\* The same of the end of a loop.
ASSUME TrappingAre ==
  \A st \in Stmts :
    Trapping(st) <=>
      CASE st.k = "if" -> \/ DeadEnd(st.else)
                          \/ \E j \in DOMAIN st.arms : DeadEnd(st.arms[j].body)
        [] st.k \in {"while", "dowhile"} -> DeadEnd(st.body) \/ EndsClosed(st.body)
        [] OTHER -> FALSE

\* The lists of statements in a statement.
Lists(st) ==
  CASE st.k \in {"while", "dowhile"} -> {st.body}
    [] st.k = "if" -> {st.else} \cup {st.arms[j].body : j \in DOMAIN st.arms}
    [] OTHER -> {}

Sources == (UNION {Elements(p.body) : p \in Procedures})
             \cup (UNION {UNION {Elements(l) : l \in Lists(st)} : st \in Stmts})

\* The sources that are lowered as they stand: no elseif arm falls through
\* under a first arm that does not, and no body of a do-while has a return or
\* an exit of its own.
Straight ==
  \A st \in Sources :
    /\ st.k = "if" /\ Stops(st.arms[1].body) =>
         \A j \in DOMAIN st.arms : Stops(st.arms[j].body)
    /\ st.k = "dowhile" =>
         \A i \in DOMAIN st.body : st.body[i].k \notin {"return", "exit"}

-----------------------------------------------------------------------------
Compiled == {"generated", "checked", "writing", "written", "run", "ended"}

\* CurrBlock, the frames, the flow of every block and the three machines
\* name blocks and lines there are.
TypeOK ==
  /\ phase \in Compiled \cup {"gen", "panicked", "rejected", "refused", "revisited"}
  /\ curr \in Ids \cup {Nil}
  /\ \A i \in DOMAIN work :
       CASE work[i].k \in {"true", "chain", "elseif", "else"} ->
              work[i].f \in Ids /\ work[i].outbl \in Ids \cup {Nil}
         [] work[i].k \in {"while", "dowhile"} ->
              work[i].start \in Ids /\ work[i].end \in Ids
         [] OTHER -> work[i].k = "statements"
  /\ \A b \in Ids : Targets(b) \subseteq Ids
  /\ next \in Ids \cup {Nil}
  /\ visited \subseteq Ids
  /\ block.b \in Ids
  /\ at \in 1 .. Len(lines) + 1

\* Whatever way the conditions go, the source, the basic blocks and the
\* assembly evaluate the same expressions in the same order, decide the same
\* branches and leave the procedure at the same return or exit.
Agree == Visible => /\ BlockShows(block) = Shows(source)
                    /\ LineShows(at) = Shows(source)

\* NotAllCodePathsReturnAValue is reported of a procedure that returns
\* something exactly when some path of its body falls off the end.
VerdictRight ==
  /\ phase = "rejected" => proc.returns /\ ~Stops(proc.body)
  /\ phase \in Compiled /\ proc.returns => Stops(proc.body)

\* The generator dereferences a nil block in no other case than this: code
\* follows an if whose arms all return or exit.
PanicsAtDeadEnds ==
  /\ phase = "panicked" => DeadEnd(proc.body)
  /\ phase \in Compiled => ~DeadEnd(proc.body)

\* The two ways the lowering loses the way of the source.  An elseif arm that
\* falls through under a first arm that does not jumps to block 0, for there
\* is no out block; the flow that a do-while's body ended with is replaced.
Mislinked   == AtFrame("elseif") /\ Continues /\ Top.outbl = Nil
Overwritten == AtFrame("dowhile") /\ curr # Nil /\ HasFlow(curr)

\* No jump is made to an out block there is none of (genElseIfChain), and no
\* flow is replaced by a loop's (genDoWhile).
WayKept == ~Mislinked /\ ~Overwritten

\* The assertions between the passes hold: the PIR checker finds every block
\* reached and ended, and gen never comes to a block a second time.
AssertionsHold == phase \notin {"refused", "revisited"}

\* Every block is written, under one label.
WrittenOnce ==
  LET labels == {l \in DOMAIN lines : lines[l].op = "label"}
  IN /\ \A l, m \in labels : lines[l].arg = lines[m].arg => l = m
     /\ phase = "written" => {lines[l].arg : l \in labels} = Ids

\* The blocks are well made for every pass: their targets exist, the assertions
\* of the checker and the generator hold, none is left the wrong way, and each
\* is written once.
BlocksWellMade == TypeOK /\ AssertionsHold /\ WayKept /\ WrittenOnce

=============================================================================

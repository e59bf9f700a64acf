----------------------------- MODULE BlockOrder -----------------------------
(***************************************************************************)
(* The order gen writes the blocks of a procedure in                       *)
(* (backend0/gen/gen.go: genBlocks, genFalseBranches): a block is followed *)
(* by the block it falls into, along jumps and false branches; the true    *)
(* branches met on the way come after, one by one, each with its own.      *)
(*                                                                         *)
(* ControlFlow makes the blocks.  The register allocator between them      *)
(* keeps every block, its number and its flow.                             *)
(***************************************************************************)
EXTENDS ControlFlow

VARIABLES
  lines,    \* what has been written
  visited,  \* BasicBlock.Visited
  next,     \* the block genFalseBranches is at, or Nil
  trues     \* trueBranches of every open genBlocks, innermost first

boVars == <<lines, visited, next, trues>>

Line(op, arg) == [op |-> op, arg |-> arg]

Label(b)     == Line("label", b)
JmpLine(b)   == Line("jmp", b)
CondJmp(e, b) == [op |-> "je", arg |-> b, e |-> e]
Leave(flow)  == Line(flow.t, flow.e)       \* genRet, genExit

BOInit == /\ lines = <<>>
          /\ visited = {}
          /\ next = Nil
          /\ trues = <<>>

\* ResetBlocks, then genBlocks on the first block.
GenBlocks == /\ phase = "checked"
             /\ phase' = "writing"
             /\ next' = 0
             /\ trues' = <<<<>>>>
             /\ UNCHANGED <<proc, work, blocks, curr, lines, visited>>

GenCode(b) ==
  <<Label(b)>> \o [i \in DOMAIN blocks[b + 1].code |-> Line("code", blocks[b + 1].code[i])]

\* Write block `next`, which ends with `last`; go on to b or end the chain.
\* panic("no blocks should be already visited")
WriteBlock(last, b, branches) ==
  IF next \in visited
  THEN /\ phase' = "revisited"
       /\ UNCHANGED <<proc, work, blocks, curr, lines, visited, next, trues>>
  ELSE /\ lines' = lines \o GenCode(next) \o last
       /\ visited' = visited \cup {next}
       /\ next' = b
       /\ trues' = <<branches>> \o Tail(trues)
       /\ UNCHANGED cfVars

AtBlock(kinds) == /\ phase = "writing"
                  /\ next # Nil
                  /\ Out(next).t \in kinds

IsVisited(b) == b \in visited \cup {next}

\* A jump to a block that is not written yet is not written.
GenJmp ==
  /\ AtBlock({"jmp"})
  /\ LET t == Out(next).true
     IN IF IsVisited(t) THEN WriteBlock(<<JmpLine(t)>>, Nil, Head(trues))
                        ELSE WriteBlock(<<>>, t, Head(trues))

\* The false block comes next; the true one later, unless it is written.
GenBranch ==
  /\ AtBlock({"branch"})
  /\ LET o == Out(next)
     IN WriteBlock(<<CondJmp(o.e, o.true)>>, o.false,
                   IF IsVisited(o.true) THEN Head(trues) ELSE Append(Head(trues), o.true))

GenLeave ==
  /\ AtBlock({"return", "exit"})
  /\ WriteBlock(<<Leave(Out(next))>>, Nil, Head(trues))

\* Mutant of NextTrueBranch: only the first one is followed.
FirstTrueBranch ==
  /\ phase = "writing"
  /\ next = Nil
  /\ trues # <<>>
  /\ IF Head(trues) = <<>>
     THEN trues' = Tail(trues) /\ UNCHANGED next
     ELSE /\ next' = Head(Head(trues))
          /\ trues' = <<<<>>, <<>>>> \o Tail(trues)
  /\ UNCHANGED <<cfVars, lines, visited>>

\* for _, tBlock := range trueBranches { genBlocks(tBlock) }
NextTrueBranch ==
  /\ phase = "writing"
  /\ next = Nil
  /\ trues # <<>>
  /\ IF Head(trues) = <<>>
     THEN trues' = Tail(trues) /\ UNCHANGED next
     ELSE /\ next' = Head(Head(trues))
          /\ trues' = <<<<>>, Tail(Head(trues))>> \o Tail(trues)
  /\ UNCHANGED <<cfVars, lines, visited>>

GenBlocksEnd ==
  /\ phase = "writing"
  /\ next = Nil
  /\ trues = <<>>
  /\ phase' = "written"
  /\ UNCHANGED <<proc, work, blocks, curr, lines, visited, next, trues>>

BONext == \/ GenBlocks \/ GenJmp \/ GenBranch \/ GenLeave
          \/ NextTrueBranch \/ GenBlocksEnd

=============================================================================

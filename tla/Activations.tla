---------------------------- MODULE Activations ----------------------------
(***************************************************************************)
(* What the calling convention promises a procedure: storage of its own    *)
(* for as long as it is active.  The activations of a program are a stack. *)
(* Each has its variables, its spills and its callee slots; the slots an   *)
(* activation sees as its arguments and results are the callee slots of    *)
(* the one below, by reference.  New storage holds anything.               *)
(***************************************************************************)
EXTENDS Naturals, Sequences, SequencesExt

CONSTANTS
  Procs,    \* the procedures of the program
  Shape,    \* numbers of vars, spills, callee slots, args and rets of each
  Main,     \* the procedure the entry point calls
  Data,     \* what a procedure may write
  Values    \* what a slot may hold

Slots(class, n) == {[class |-> class, i |-> i] : i \in 0 .. n - 1}

\* The slots a procedure has for itself, and those it shares with its caller.
Cells(p) == Slots("local", Shape[p].vars) \cup Slots("spill", Shape[p].spills)
              \cup Slots("callee", Shape[p].callee)

Interproc(p) == IF Shape[p].args > Shape[p].rets THEN Shape[p].args
                                                 ELSE Shape[p].rets

\* The allocator has made room for every call it saw (UpdateMaxCalleeInterproc).
MayCall(p, q) == Interproc(q) <= Shape[p].callee

VARIABLES
  acts,    \* the active procedures, the running one last
  state    \* "start", "running" or "exited"

actVars == <<acts, state>>

Running == acts[Len(acts)].proc

Push(q) == /\ Len(acts') = Len(acts) + 1
           /\ Front(acts') = acts
           /\ Last(acts') \in [proc : {q}, cells : [Cells(q) -> Values]]

Init == acts = <<>> /\ state = "start"

Start == /\ state = "start"
         /\ Push(Main)
         /\ state' = "running"

Write(c, x) ==
  /\ acts' = [acts EXCEPT ![Len(acts)].cells[c] = x]
  /\ UNCHANGED state

WriteInterproc(i, x) ==
  /\ Len(acts) > 1
  /\ acts' = [acts EXCEPT ![Len(acts) - 1].cells[[class |-> "callee", i |-> i]] = x]
  /\ UNCHANGED state

Call(q) == /\ MayCall(Running, q)
           /\ Push(q)
           /\ UNCHANGED state

Return == /\ acts' = Front(acts)
          /\ UNCHANGED state

Exit == /\ state = "running"
        /\ state' = "exited"
        /\ UNCHANGED acts

Body == /\ state = "running" /\ acts # <<>>
        /\ \/ Return
           \/ \E q \in Procs : Call(q)
           \/ \E c \in Cells(Running), x \in Data : Write(c, x)
           \/ \E i \in 0 .. Interproc(Running) - 1, x \in Data : WriteInterproc(i, x)

Next == Start \/ Body \/ Exit

Spec == Init /\ [][Next]_actVars

=============================================================================

------------------------------- MODULE Frames -------------------------------
(***************************************************************************)
(* The code gen emits around the body of every procedure, run on a machine *)
(* with two registers and a stack: the entry point, prologue, call, return *)
(* and exit (backend0/gen/gen.go).  A body does what MIR lets it do: it    *)
(* stores into the slots of its frame, calls, returns or exits.            *)
(*                                                                         *)
(* frames is a history variable: which procedures are active and where     *)
(* their frames are.  No action of the machine looks at it.  With it the   *)
(* words on the stack are read as the activations of Activations, which    *)
(* this module implements.                                                 *)
(***************************************************************************)
EXTENDS Integers, Sequences

-----------------------------------------------------------------------------
\* Where things are in the frame of a procedure (core/cc/stack/stack.go):
\* offsets in bytes from rbp.  Above rbp are the return address and the
\* interprocedural slots the caller made room for; below it the variables,
\* the spills, and room for the arguments and results of calls.

slot == 8

\* Mutant of CallArg: the first slot is the one nearest to rbp.
CallArgDownward(numVars, numSpills, numMaxCalleeArgs, i) ==
  -(slot + numVars * slot + numSpills * slot + i * slot)

CallArg(numVars, numSpills, numMaxCalleeArgs, i) ==
  -(slot + numVars * slot + numSpills * slot + (numMaxCalleeArgs - i - 1) * slot)

CallRet(numVars, numSpills, numMaxCalleeArgs, i) ==
  CallArg(numVars, numSpills, numMaxCalleeArgs, i)

Spill(numVars, i) == -(slot + numVars * slot + i * slot)

\* Two slots up: the saved rbp and the return address.
Arg(i) == 2 * slot + i * slot

Ret(i) == Arg(i)

Var(i) == -(slot + i * slot)

\* Mutant of StackReserve: no room for the slots of calls.
StackReserveOwn(numVars, numSpills, numMaxCalleeArgs) == 8 * (numVars + numSpills)

\* gen.genProc: stackReserve
StackReserve(numVars, numSpills, numMaxCalleeArgs) ==
  8 * (numVars + numSpills + numMaxCalleeArgs)

-----------------------------------------------------------------------------

CONSTANTS
  Procs, Shape, Main,    \* see Activations
  Data,                  \* what bodies store
  StackSlots             \* bound: words of stack

Entry == "entry"         \* the code before Main, which is no procedure

Shapes == [vars : Nat, spills : Nat, callee : Nat, args : Nat, rets : Nat]

\* The entry point passes Main nothing and takes nothing from it.
ASSUME ProgramShape == /\ Shape \in [Procs -> Shapes]
                       /\ Main \in Procs
                       /\ Shape[Main].args = 0 /\ Shape[Main].rets = 0


\* Words.
Datum(d)  == [data |-> d]
SavedRbp(a) == [rbp |-> a]
RetTo(p)  == [ret |-> p]
Zero      == [zero |-> 0]

VARIABLES
  rsp, rbp,
  mem,      \* the words of the stack
  pc,       \* the code running: which part of which procedure
  frames    \* the active procedures with their frames, the running one last

vars == <<rsp, rbp, mem, pc, frames>>

At(part, p) == [part |-> part, proc |-> p]

Reserve(p) == StackReserve(Shape[p].vars, Shape[p].spills, Shape[p].callee)

Stack == {-(slot * k) : k \in 1 .. StackSlots}

\* A call of p at rsp does not overflow the stack: its return address, the
\* saved rbp and its frame fit.
HasRoom(sp, p) == sp - 2 * slot - Reserve(p) >= -(slot * StackSlots)

ASSUME StackSize == /\ Entry \notin Procs
                    /\ StackSlots \in Nat
                    /\ HasRoom(0, Main)

Interproc(p) == IF Shape[p].args > Shape[p].rets THEN Shape[p].args
                                                 ELSE Shape[p].rets

\* gen.convertOperand: the address of an operand in the frame at fp.
Address(p, fp, class, i) ==
  fp + CASE class = "caller" -> Arg(i)
         [] class = "local"  -> Var(i)
         [] class = "spill"  -> Spill(Shape[p].vars, i)
         [] class = "callee" -> CallArg(Shape[p].vars, Shape[p].spills,
                                        Shape[p].callee, i)

Word(a) == IF a \in Stack THEN mem[a] ELSE Zero

\* The operands MIR may name in the body of p.
Operands(p) ==
  {[class |-> "caller", i |-> i] : i \in 0 .. Interproc(p) - 1}
    \cup {[class |-> "local", i |-> i] : i \in 0 .. Shape[p].vars - 1}
    \cup {[class |-> "spill", i |-> i] : i \in 0 .. Shape[p].spills - 1}
    \cup {[class |-> "callee", i |-> i] : i \in 0 .. Shape[p].callee - 1}

-----------------------------------------------------------------------------
Init == /\ rsp = 0
        /\ rbp = 0
        /\ mem = [a \in Stack |-> Zero]
        /\ pc = At("entry", Entry)
        /\ frames = <<>>

\* call, with the return address of the code that is running
EmitCall(q) == /\ rsp' = rsp - slot
               /\ mem' = [mem EXCEPT ![rsp - slot] = RetTo(pc.proc)]
               /\ pc' = At("called", q)
               /\ UNCHANGED <<rbp, frames>>

GenEntry == /\ pc.part = "entry"
            /\ EmitCall(Main)

\* push rbp;  mov rbp, rsp;  sub rsp, stackReserve
GenProc == /\ pc.part = "called"
           /\ mem' = [mem EXCEPT ![rsp - slot] = SavedRbp(rbp)]
           /\ rbp' = rsp - slot
           /\ rsp' = rsp - slot - Reserve(pc.proc)
           /\ pc' = At("body", pc.proc)
           /\ frames' = Append(frames, [proc |-> pc.proc, fp |-> rsp - slot])

\* A store into a slot of the frame.
GenLoadStore(o, d) ==
  /\ pc.part = "body"
  /\ o \in Operands(pc.proc)
  /\ mem' = [mem EXCEPT ![Address(pc.proc, rbp, o.class, o.i)] = Datum(d)]
  /\ UNCHANGED <<rsp, rbp, pc, frames>>

\* The allocator has made room for every call it saw (UpdateMaxCalleeInterproc).
GenCall(q) == /\ pc.part = "body"
              /\ Interproc(q) <= Shape[pc.proc].callee
              /\ HasRoom(rsp, q)
              /\ EmitCall(q)

\* Mutant of GenRet: no pop rbp.
GenRetUnpopped ==
  /\ pc.part = "body"
  /\ rsp' = rbp + slot
  /\ pc' = IF "ret" \notin DOMAIN Word(rbp) THEN At("wild", Entry)
           ELSE At("body", Word(rbp).ret)
  /\ frames' = SubSeq(frames, 1, Len(frames) - 1)
  /\ UNCHANGED <<rbp, mem>>

\* mov rsp, rbp;  pop rbp;  ret
GenRet ==
  /\ pc.part = "body"
  /\ rsp' = rbp + 2 * slot
  /\ rbp' = IF "rbp" \in DOMAIN Word(rbp) THEN Word(rbp).rbp ELSE 0
  /\ LET to == Word(rbp + slot)
     IN pc' = IF "ret" \notin DOMAIN to THEN At("wild", Entry)
              ELSE IF to.ret = Entry THEN At("leave", Entry)
              ELSE At("body", to.ret)
  /\ frames' = SubSeq(frames, 1, Len(frames) - 1)
  /\ UNCHANGED mem

\* The exit system call, made by a body or by the entry code after Main.
GenExit == /\ pc.part \in {"body", "leave"}
           /\ pc' = At("end", pc.proc)
           /\ UNCHANGED <<rsp, rbp, mem, frames>>

Finished == /\ pc.part \in {"end", "wild"}
            /\ UNCHANGED vars

Next == \/ GenEntry \/ GenProc \/ GenRet \/ GenExit \/ Finished
        \/ \E q \in Procs : GenCall(q)
        \/ \E o \in UNION {Operands(p) : p \in Procs}, d \in Data : GenLoadStore(o, d)

Spec == Init /\ [][Next]_vars

-----------------------------------------------------------------------------
Words == {Datum(d) : d \in Data} \cup {SavedRbp(a) : a \in Stack \cup {0}}
           \cup {RetTo(p) : p \in Procs \cup {Entry}} \cup {Zero}

\* rsp and rbp stay on the stack, every word of it is one the code pushed or
\* stored, and a return goes to the code after a call.
TypeOK == /\ rsp \in Stack \cup {0}
          /\ rbp \in Stack \cup {0}
          /\ mem \in [Stack -> Words]
          /\ pc \in [part : {"entry", "called", "body", "leave", "end"},
                     proc : Procs \cup {Entry}]
          /\ frames \in Seq([proc : Procs, fp : Stack])

\* A body always runs on the frame its own prologue made, however many calls
\* it has made: no slot it names is below rsp, where the next call would
\* push, and no slot is the saved rbp or the return address.  The entry code
\* gets its own stack back.
FrameInPlace ==
  /\ pc.part = "body" =>
       /\ frames # <<>>
       /\ frames[Len(frames)] = [proc |-> pc.proc, fp |-> rbp]
       /\ rsp = rbp - Reserve(pc.proc)
       /\ \A o \in Operands(pc.proc) :
            LET ad == Address(pc.proc, rbp, o.class, o.i)
            IN ad >= rsp /\ ad < 0 /\ ad \notin {rbp, rbp + slot}
  /\ pc.part = "leave" => rsp = 0 /\ rbp = 0 /\ frames = <<>>

\* The words on the stack, read as the storage of the active procedures.
Acts ==
  LET cells(p) == {o \in Operands(p) : o.class # "caller"}
  IN [k \in DOMAIN frames |->
        LET fr == frames[k]
        IN [proc  |-> fr.proc,
            cells |-> [c \in cells(fr.proc) |->
                         Word(Address(fr.proc, fr.fp, c.class, c.i))]]]

State == IF pc.part = "entry" \/ (pc.part = "called" /\ frames = <<>>)
           THEN "start"
         ELSE IF pc.part = "end" THEN "exited" ELSE "running"

A == INSTANCE Activations WITH acts <- Acts, state <- State, Values <- Words,
                               Data <- {Datum(d) : d \in Data}

\* The machine keeps the promise of Activations: every active procedure has
\* its slots to itself, a callee sees its caller's arguments and leaves its
\* results with it, and a return continues the caller.
Implements == A!Spec

=============================================================================

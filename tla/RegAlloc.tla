------------------------------ MODULE RegAlloc ------------------------------
(***************************************************************************)
(* The scanning register allocator (backend0/resalloc/resalloc.go) at work *)
(* on one basic block.  allocProc starts every block with a fresh state,   *)
(* so a block is the unit of allocation; Init chooses which one it is.     *)
(*                                                                         *)
(* alloc is the allocator's state, with what the emitted code has done to  *)
(* the machine in alloc.cell.  Beside it, env is what the PIR block itself *)
(* computes.  The allocation is right when the two agree wherever the      *)
(* emitted code looks.                                                     *)
(*                                                                         *)
(* A range over LiveValues that changes the state is a phase of its own:   *)
(* `todo` holds the entries it has not visited, and it visits them in any  *)
(* order.  Everything between two such loops is one action.                *)
(***************************************************************************)
EXTENDS RegState

CONSTANT Blocks      \* the PIR blocks under allocation

WellFormed(b) ==
  /\ b = [code |-> b.code, out |-> b.out]
  /\ b.code \in Seq(Instrs) /\ Len(b.code) < RetIndex
  /\ \A i \in DOMAIN b.code :
       /\ WellFormedInstr(b.code[i])
       /\ b.code[i].t = "call" => /\ Len(b.code[i].ops) - 1 <= NumSlots
                                  /\ Len(b.code[i].dest) <= NumSlots
  /\ WellFormedFlow(b.out)
  /\ Len(b.out.v) <= NumSlots

ASSUME BlocksWellFormed == \A b \in Blocks : WellFormed(b)

VARIABLES
  block,   \* the PIR block being allocated
  phase,   \* the loop allocBlock is in
  idx,     \* index of the instruction under allocation
  todo,    \* entries the current range over LiveValues has not visited
  pos,     \* position in the arguments of a call, or in the returned values
  late,    \* transformReturn: positions its first pass left for the second
  alloc,   \* the allocator's state
  env,     \* what each PIR value holds after idx instructions of the block
  misread  \* instructions emitted with an operand that holds something else

vars == <<block, phase, idx, todo, pos, late, alloc, env, misread>>

Init == /\ block \in Blocks
        /\ phase = "code"
        /\ idx = 0
        /\ todo = {}
        /\ pos = 0
        /\ late = <<>>
        /\ alloc = NewState(block)
        /\ env = [v \in Values |-> IF v \in Temps THEN Junk ELSE v]
        /\ misread = {}

End  == Len(block.code)
Ins  == block.code[idx + 1]
Outs == block.out.v

\* The token operand o of the block stands for.
Meaning(o) == IF o \in Values THEN env[o] ELSE o

\* Any panic of the allocator ends the compilation.
Become(t, next) == /\ alloc' = t
                   /\ phase' = IF t.panic = "" THEN next ELSE "panicked"

\* Emit instruction Ins, reading the MIR operands `from`; t is the state
\* before it, `to` the register of its result (or None).
Reads(t, from) == \A k \in DOMAIN from : Read(t, from[k]) = Meaning(Ins.ops[k])

Emit(t, from, to) ==
  IF to = None THEN t
  ELSE [t EXCEPT !.cell[to] = IF Reads(t, from) THEN Result(idx, 0) ELSE Junk]

\* The PIR block has computed `value` into the destinations of Ins.
Defined(value) ==
  [v \in Values |->
     IF \E k \in DOMAIN Ins.dest : Ins.dest[k] = v
       THEN value[CHOOSE k \in DOMAIN Ins.dest : Ins.dest[k] = v]
       ELSE env[v]]

Noted(t, ok) == IF ok \/ t.panic # "" THEN misread ELSE misread \cup {idx}

\* Go to the next instruction.
Advance(t, ok, value) ==
  /\ Become(t, "code")
  /\ idx' = idx + 1
  /\ env' = Defined(value)
  /\ misread' = Noted(t, ok)
  /\ UNCHANGED <<block, todo, pos, late>>

At(kind) == /\ phase = "code"
            /\ idx < End
            /\ Ins.t = kind

-----------------------------------------------------------------------------
\* allocBinary, allocUnary, allocStorePtr

AllocBinary ==
  /\ At("bin")
  /\ LET a == Ins.ops[1]
         b == Ins.ops[2]
         c == Ins.dest[1]
     IN \E x \in EnsureImmediate(alloc, idx, a) :
        \E y \in EnsureImmediate(x, idx, b) :
        LET from == <<Immediate(x, a), Immediate(y, b)>>
            f    == FreeIfUnneeded(FreeIfUnneeded(y, idx, Ins, a), idx, Ins, b)
        IN \E z \in EnsureImmediate(f, idx, c) :
             Advance(Emit(Mark(z, c), from, Immediate(z, c)),
                     Reads(z, from), <<Result(idx, 0)>>)

AllocUnary ==
  /\ At("un") \/ At("loadptr")
  /\ LET a == Ins.ops[1]
         c == Ins.dest[1]
     IN \E x \in EnsureImmediate(alloc, idx, a) :
        LET from == <<Immediate(x, a)>>
            f    == FreeIfUnneeded(x, idx, Ins, a)
        IN \E z \in EnsureImmediate(f, idx, c) :
             Advance(Emit(Mark(z, c), from, Immediate(z, c)),
                     Reads(z, from), <<Result(idx, 0)>>)

AllocStorePtr ==
  /\ At("storeptr")
  /\ LET a == Ins.ops[1]
         b == Ins.ops[2]
     IN \E x \in EnsureImmediate(alloc, idx, a) :
        \E y \in EnsureImmediate(x, idx, b) :
        LET from == <<Immediate(x, a), Immediate(y, b)>>
        IN Advance(FreeIfUnneeded(FreeIfUnneeded(y, idx, Ins, a), idx, Ins, b),
                   Reads(y, from), <<>>)

-----------------------------------------------------------------------------
\* allocCopy: four cases, by whether each side is in memory.  A copy is a
\* misread when what reaches the destination is not the source's value.

Copied(t, to) ==
  LET a == Ins.ops[1]
      c == Ins.dest[1]
  IN Advance(FreeIfUnneeded(FreeIfUnneeded(t, idx, Ins, a), idx, Ins, c),
             Read(t, to) = Meaning(a), <<Meaning(a)>>)

AllocCopy ==
  /\ At("copy")
  /\ LET a == Ins.ops[1]
         c == Ins.dest[1]
         fromMem == IsAddressable(alloc, a)
         toMem   == IsAddressable(alloc, c)
     IN \/ /\ fromMem /\ toMem
           /\ \E x \in GrabReg(alloc, idx, a) :
                LET l == Load(x, ToMirc(alloc, a), a)
                    r == Immediate(x, a)
                    d == ToMirc(l, c)
                IN Copied(Store(CorruptOldVersion(l, c), r, d), d)
        \/ /\ fromMem /\ ~toMem
           /\ \E x \in EnsureImmediate(alloc, idx, c) :
                LET r == Immediate(x, c)
                IN Copied(Store(Mark(x, c), ToMirc(alloc, a), r), r)
        \/ /\ ~fromMem /\ toMem
           /\ \E x \in EnsureImmediate(alloc, idx, a) :
                LET r == Immediate(x, a)
                    d == ToMirc(x, c)
                IN Copied(Store(CorruptOldVersion(x, c), r, d), d)
        \/ /\ ~fromMem /\ ~toMem
           /\ \E x \in EnsureImmediate(alloc, idx, a) :
              \E y \in EnsureImmediate(x, idx, c) :
                LET r == Immediate(y, c)
                IN Copied(Store(Mark(y, c), Immediate(x, a), r), r)

-----------------------------------------------------------------------------
\* allocCall: spillAllLiveRegisters, spillAllLiveInterproc, loadArguments,
\* clearVolatiles, then the call itself.  One action per loop iteration.

Callee0 == Ins.ops[1]
Params  == Tail(Ins.ops)

Keep == UNCHANGED <<block, idx, late, env, misread>>

AllocCall ==
  /\ At("call")
  /\ phase' = "spillregs"
  /\ todo' = {v \in Values : /\ InReg(alloc, v)
                             /\ IsNeeded(alloc, idx, v) \/ alloc.live[v].mut}
  /\ UNCHANGED <<pos, alloc>>
  /\ Keep

SpillLiveRegister(v) ==
  /\ phase = "spillregs"
  /\ v \in todo
  /\ LET r == alloc.live[v].num
     IN Become(IF v \in Temps THEN SpillTemp(alloc, r)
                              ELSE Store(alloc, Reg(r), Home(v)), "spillregs")
  /\ todo' = todo \ {v}
  /\ UNCHANGED pos
  /\ Keep

SpilledRegisters ==
  /\ phase = "spillregs"
  /\ todo = {}
  /\ phase' = "spillinterproc"
  /\ todo' = {v \in Values : /\ alloc.live[v].place = "callee"
                             /\ alloc.use[v] >= idx}
  /\ UNCHANGED <<pos, alloc>>
  /\ Keep

\* The value is loaded twice over: once inside ensureImmediate, once after.
SpillLiveInterproc(v) ==
  /\ phase = "spillinterproc"
  /\ v \in todo
  /\ \E x \in EnsureImmediate(alloc, idx, v) :
       LET l == Load(x, Callee(alloc.live[v].num), v)
       IN Become(IF /\ l.panic = ""
                    /\ Len(l.availRegs.items) - 1 < 3 \/ l.use[v] > idx
                   THEN SpillTemp(l, l.live[v].num) ELSE l,
                 "spillinterproc")
  /\ todo' = todo \ {v}
  /\ UNCHANGED pos
  /\ Keep

SpilledInterproc ==
  /\ phase = "spillinterproc"
  /\ todo = {}
  /\ phase' = "args"
  /\ pos' = 0
  /\ UNCHANGED <<todo, alloc>>
  /\ Keep

LoadArgument ==
  /\ phase = "args"
  /\ pos < Len(Params)
  /\ LET o == Params[pos + 1]
     IN IF o \in Values /\ alloc.live[o] = UseInfo("callee", pos, FALSE)
          THEN UNCHANGED <<phase, alloc>>
          ELSE \E x \in EnsureImmediate(alloc, idx, o) :
                 Become(FreeIfUnneeded(Store(x, Immediate(x, o), Callee(pos)),
                                       idx, Ins, o), "args")
  /\ pos' = pos + 1
  /\ UNCHANGED todo
  /\ Keep

LoadedArguments ==
  /\ phase = "args"
  /\ pos = Len(Params)
  /\ phase' = "clear"
  /\ todo' = {v \in Values : alloc.live[v].place \in {"reg", "callee"}}
  /\ UNCHANGED <<pos, alloc>>
  /\ Keep

ClearVolatile(v) ==
  /\ phase = "clear"
  /\ v \in todo
  /\ Become(Free(alloc, v), "clear")
  /\ todo' = todo \ {v}
  /\ UNCHANGED pos
  /\ Keep

\* The callee takes its arguments from the callee area, leaves its results
\* there, and owns every register meanwhile.  Destinations of a call are
\* temporaries (genRets), so only that case of the switch is here.
CallEffect(t) ==
  [t EXCEPT !.cell =
     [c \in Cells |->
        CASE c.class = "reg" -> Junk
          [] c.class = "callee" /\ c.id < Len(Ins.dest) -> Result(idx, c.id)
          [] c.class = "callee" /\ c.id >= Len(Ins.dest)
                                /\ c.id < Len(Params) -> Junk
          [] OTHER -> t.cell[c]]]

Results(t) ==
  [t EXCEPT !.live =
     [v \in Values |->
        IF \E k \in DOMAIN Ins.dest : Ins.dest[k] = v
          THEN UseInfo("callee", (CHOOSE k \in DOMAIN Ins.dest :
                                    Ins.dest[k] = v) - 1, FALSE)
          ELSE t.live[v]]]

\* Mutant of UpdateMaxCallee: one argument too many is counted.
UpdateMaxCalleeByOne(t) ==
  [t EXCEPT !.maxCallee = Max({@, Len(Params) + 1, Len(Ins.dest)})]

UpdateMaxCallee(t) ==
  [t EXCEPT !.maxCallee = Max({@, Len(Params), Len(Ins.dest)})]

Passed(t) == \A k \in DOMAIN Params :
               t.cell[Callee(k - 1)] = Meaning(Params[k])

EmitCall ==
  /\ phase = "clear"
  /\ todo = {}
  /\ \E x \in EnsureImmediate(alloc, idx, Callee0) :
       /\ Become(Results(CallEffect(x)), "release")
       /\ env' = Defined([k \in DOMAIN Ins.dest |-> Result(idx, k - 1)])
       /\ misread' = Noted(x, /\ Passed(x)
                              /\ Reads(x, <<Immediate(x, Callee0)>>))
  /\ pos' = 0
  /\ UNCHANGED <<block, idx, todo, late>>

\* for _, op := range instr.Operands { s.freeIfNotNeededAndNotMutated(...) }
ReleaseOperand ==
  /\ phase = "release"
  /\ pos < Len(Ins.ops)
  /\ Become(FreeIfUnneeded(alloc, idx, Ins, Ins.ops[pos + 1]), "release")
  /\ pos' = pos + 1
  /\ UNCHANGED todo
  /\ Keep

Released ==
  /\ phase = "release"
  /\ pos = Len(Ins.ops)
  /\ Become(UpdateMaxCallee(alloc), "code")
  /\ idx' = idx + 1
  /\ UNCHANGED <<block, todo, pos, late, env, misread>>

-----------------------------------------------------------------------------
\* The end of the block: storeLiveLocals and transformFlow.

\* Every home gets the register of its mutated value; no two share a home.
StoreLiveLocals(t) ==
  LET dirty == {v \in Locals \cup Args : InReg(t, v) /\ t.live[v].mut}
  IN [t EXCEPT !.cell =
        [c \in Cells |->
           IF \E v \in dirty : Home(v) = c
             THEN t.cell[Reg(t.live[CHOOSE v \in dirty : Home(v) = c].num)]
             ELSE t.cell[c]]]

\* toMirc on the operand of an exit or a branch.
FlowOperand(t) ==
  IF \E k \in DOMAIN Outs : Outs[k] \in Temps /\ ~IsLive(t, Outs[k])
  THEN Fail(t, "toMirc: temp is not alive") ELSE t

AtEnd(kinds) == /\ phase = "code"
                /\ idx = End
                /\ block.out.t \in kinds

LeaveBlock ==
  /\ AtEnd({"jmp", "if"})
  /\ Become(FlowOperand(StoreLiveLocals(alloc)), "done")
  /\ UNCHANGED <<todo, pos>>
  /\ Keep

LeaveProgram ==
  /\ AtEnd({"exit"})
  /\ Become(FlowOperand(alloc), "done")
  /\ UNCHANGED <<todo, pos>>
  /\ Keep

BeginReturn ==
  /\ AtEnd({"return"})
  /\ phase' = "return"
  /\ pos' = 0
  /\ UNCHANGED <<todo, alloc>>
  /\ Keep

\* An argument whose slot is about to receive a result is loaded first, if a
\* later result still wants it.
MoveArgIfNeeded(t, p) ==
  IF p < NumArgs /\ IsNeeded(t, RetIndex + p, Arg(p))
  THEN EnsureImmediate(t, End, Arg(p)) ELSE {t}

\* First pass: results already in a register, stored from where they were
\* before the argument was moved out of the way.
ReturnFromRegister ==
  /\ phase = "return"
  /\ pos < Len(Outs)
  /\ LET v == Outs[pos + 1]
     IN /\ v \in Values /\ InReg(alloc, v)
        /\ \E x \in MoveArgIfNeeded(alloc, pos) :
             Become(Free(Store(x, Reg(alloc.live[v].num), Caller(pos)), v),
                    "return")
  /\ pos' = pos + 1
  /\ UNCHANGED <<todo>>
  /\ Keep

ReturnLater ==
  /\ phase = "return"
  /\ pos < Len(Outs)
  /\ ~(Outs[pos + 1] \in Values /\ InReg(alloc, Outs[pos + 1]))
  /\ late' = Append(late, pos)
  /\ pos' = pos + 1
  /\ UNCHANGED <<block, phase, idx, todo, alloc, env, misread>>

\* Second pass: the remaining results, in order.
ReturnRemaining ==
  /\ phase = "return"
  /\ pos = Len(Outs)
  /\ late # <<>>
  /\ LET p == Head(late)
         v == Outs[p + 1]
     IN \E x \in MoveArgIfNeeded(alloc, p) :
        \E y \in EnsureImmediate(x, End, v) :
          Become(Store(y, Immediate(y, v), Caller(p)), "return")
  /\ late' = Tail(late)
  /\ UNCHANGED <<block, idx, todo, pos, env, misread>>

Returned ==
  /\ phase = "return"
  /\ pos = Len(Outs)
  /\ late = <<>>
  /\ phase' = "done"
  /\ UNCHANGED <<todo, pos, alloc>>
  /\ Keep

Finished == /\ phase \in {"done", "panicked"}
            /\ UNCHANGED vars

Next == \/ AllocBinary \/ AllocUnary \/ AllocStorePtr \/ AllocCopy
        \/ AllocCall
        \/ \E v \in todo : SpillLiveRegister(v)
        \/ SpilledRegisters
        \/ \E v \in todo : SpillLiveInterproc(v)
        \/ SpilledInterproc
        \/ LoadArgument \/ LoadedArguments
        \/ \E v \in todo : ClearVolatile(v)
        \/ EmitCall \/ ReleaseOperand \/ Released
        \/ LeaveBlock \/ LeaveProgram
        \/ BeginReturn \/ ReturnFromRegister \/ ReturnLater
        \/ ReturnRemaining \/ Returned
        \/ Finished

Spec == Init /\ [][Next]_vars /\ WF_vars(Next)

-----------------------------------------------------------------------------
Phases == {"code", "spillregs", "spillinterproc", "args", "clear",
           "release", "return", "done", "panicked"}

\* Every variable has its type; a panic and only a panic stops the allocator
\* before the block is done.
TypeOK ==
  /\ WellFormed(block)
  /\ phase \in Phases
  /\ idx \in 0 .. End
  /\ todo \subseteq Values
  /\ pos \in Nat
  /\ late \in Seq(0 .. Len(Outs) - 1)
  /\ alloc \in States
  /\ env \in [Values -> Tokens]
  /\ misread \subseteq 0 .. End - 1
  /\ (phase = "panicked") <=> (alloc.panic # "")

\* Until a panic ends the compilation, the tables and the pool of registers
\* agree (see RegState).
RegisterFile == phase # "panicked" => RegistersAgree(alloc)

SpillArea == SpillsAgree(alloc)

\* Where the allocator believes a value to be.
Holder(v) == IF IsLive(alloc, v)
               THEN Operand(alloc.live[v].place, alloc.live[v].num)
               ELSE Home(v)

\* Between two instructions every variable and argument is where LiveValues
\* says, or at home when LiveValues is silent, and a temporary still to be
\* used is somewhere: eviction, spilling and freeing never lose the newest
\* definition.
Tracked ==
  phase = "code" =>
    /\ \A v \in Locals \cup Args : alloc.cell[Holder(v)] = env[v]
    /\ \A v \in Temps : env[v] # Junk /\ alloc.use[v] >= idx =>
          IsLive(alloc, v) /\ alloc.cell[Holder(v)] = env[v]

\* No emitted instruction reads a register that has been given to another
\* value since the allocator chose it, or a slot that holds an old definition.
ReadsCurrent == misread = {}

\* A block is left as its successors, its caller or the system expect it:
\* every home up to date at a jump or a branch, the branch condition and the
\* exit code readable, every result in the slot of its position at a return.
FlowCorrect ==
  phase = "done" =>
    /\ block.out.t \in {"jmp", "if"} =>
         \A v \in Locals \cup Args : alloc.cell[Home(v)] = env[v]
    /\ block.out.t \in {"if", "exit"} =>
         Read(alloc, ToMirc(alloc, Outs[1])) = Meaning(Outs[1])
    /\ block.out.t = "return" =>
         \A k \in DOMAIN Outs : alloc.cell[Caller(k - 1)] = Meaning(Outs[k])

\* A variable's frame slot only ever receives the variable's own newest value.
HomesFollow ==
  [][\A v \in Locals : alloc.cell'[Home(v)] # alloc.cell[Home(v)] =>
        alloc.cell'[Home(v)] \in {env[v], env'[v]}]_vars

\* Every block gets allocated: no panic, and no loop over LiveValues that
\* keeps finding entries.
Allocates == <>(phase = "done")

\* No value is lost and none is stale: between instructions, where the emitted
\* code reads, and where the block is left.
ValuesKept == Tracked /\ ReadsCurrent /\ FlowCorrect

-----------------------------------------------------------------------------
\* The blocks whose values the allocator keeps: ValuesKept is true of every
\* block that is Linearized and Sound, as long as the pools are Roomy (see
\* RegAllocProofs).

\* v is written by one of the first n instructions.
WrittenIn(b, n, v) ==
  \E i \in DOMAIN b.code : i <= n /\ \E k \in DOMAIN b.code[i].dest : b.code[i].dest[k] = v

\* The last instruction that mentions v.
LastUse(b, v) == FindUses(b)[v]

\* What linearization makes: a temporary is written in one place and read only
\* after it, a result goes to a temporary or back to an operand, and a call is
\* the last use of the temporaries it takes.
Linearized(b) ==
  /\ \A i \in DOMAIN b.code :
       LET ins == b.code[i]
       IN /\ \A k \in DOMAIN ins.dest : ins.dest[k] \in Temps =>
               \A j \in DOMAIN b.code : \A l \in DOMAIN b.code[j].dest :
                  b.code[j].dest[l] = ins.dest[k] => j = i /\ l = k
          /\ \A k \in DOMAIN ins.ops : ins.ops[k] \in Temps => WrittenIn(b, i - 1, ins.ops[k])
          /\ ins.t \in {"bin", "un", "loadptr"} =>
               ins.dest[1] \in Temps \/ \E k \in DOMAIN ins.ops : ins.dest[1] = ins.ops[k]
          /\ ins.t = "call" =>
               \A k \in DOMAIN ins.ops : ins.ops[k] \in Temps =>
                 /\ LastUse(b, ins.ops[k]) = i - 1
                 /\ \A j \in DOMAIN ins.ops : ins.ops[j] = ins.ops[k] => j = k
  /\ \A k \in DOMAIN b.out.v : b.out.v[k] \in Temps => WrittenIn(b, Len(b.code), b.out.v[k])

\* An exit code that is a variable is not written in the block.
ExitsClean(b) ==
  b.out.t = "exit" => ~(b.out.v[1] \in Homed /\ WrittenIn(b, Len(b.code), b.out.v[1]))

\* No value is returned twice, no argument before its own position.
ReturnsInOrder(b) ==
  b.out.t = "return" =>
    \A i \in DOMAIN b.out.v :
      LET o == b.out.v[i]
      IN /\ o \in Args => o.id < i
         /\ o \in Values => \A j \in DOMAIN b.out.v : b.out.v[j] = o => i = j

\* The callee is a global, or a variable the block does not use again.
CallsOnce(b) ==
  \A i \in DOMAIN b.code :
    LET callee == b.code[i].ops[1]
    IN b.code[i].t = "call" =>
         callee \notin Temps /\ (callee \in Values => LastUse(b, callee) = i - 1)

Sound(b) == ExitsClean(b) /\ ReturnsInOrder(b) /\ CallsOnce(b)

\* Before every step there are the registers and the spill slot that the step
\* may take: nothing is evicted on behalf of an operand.
Roomy == Len(alloc.availRegs.items) >= 3 /\ HasItems(alloc.availSpills)

=============================================================================

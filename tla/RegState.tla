------------------------------ MODULE RegState ------------------------------
(***************************************************************************)
(* The state of the scanning register allocator and the methods that       *)
(* change it (`state` in backend0/resalloc/resalloc.go): the pools of free *)
(* registers and spill slots, the tables UsedRegs, UsedSpills and          *)
(* LiveValues, and the loads and stores the methods emit.                  *)
(*                                                                         *)
(* Emitted instructions are not kept as text: s.cell is what they do to    *)
(* the machine.  A cell holds a token that says which PIR value, as of     *)
(* which definition, a register or a stack slot contains.                  *)
(*                                                                         *)
(* Where Go ranges over a map and keeps the last best entry, the operator  *)
(* returns every state the range can end in.                               *)
(***************************************************************************)
EXTENDS Pir, FiniteSetsExt

CONSTANTS
  NumRegs,     \* registers handed to Allocate
  NumSpills,   \* newState: newStack(16)
  NumSlots     \* size of the parameter areas above and below the frame

ASSUME AllocSizes == /\ NumRegs \in Nat \ {0}
                     /\ NumSpills \in Nat \ {0}
                     /\ NumSlots \in Nat
                     /\ NumArgs <= NumSlots

RetIndex == 1073741824    \* const retIndex: the block's end, as an instruction index

Regs   == 0 .. NumRegs - 1
Spills == 0 .. NumSpills - 1
Slots  == 0 .. NumSlots - 1

None == Operand("none", 0)

\* Where data can be: MIR operands with an address or a register number.
Reg(r)    == Operand("reg", r)
Slot(a)   == Operand("spill", a)
Callee(i) == Operand("callee", i)
Caller(i) == Operand("caller", i)
Local(i)  == Operand("local", i)

\* The frame slot a variable or an argument has for the whole procedure.
Home(v) == IF v.class = "arg" THEN Caller(v.id) ELSE Local(v.id)

\* The values that have one.
Homed == Locals \cup Args

Cells == {Reg(r) : r \in Regs} \cup {Slot(a) : a \in Spills}
           \cup {Callee(i) : i \in Slots} \cup {Caller(i) : i \in Slots}
           \cup {Local(i) : i \in 0 .. NumVars - 1}

\* Tokens: a value as the block found it is named by its own operand.
Result(i, k) == [instr |-> i, ret |-> k]
Junk         == [junk |-> TRUE]

UseInfo(place, n, m) == [place |-> place, num |-> n, mut |-> m]

Dead == UseInfo("dead", 0, FALSE)

-----------------------------------------------------------------------------
\* The two pools of free numbers.  `floor` is items[0], which Pop returns
\* once the pool is empty.

NewStack(n) == [items |-> [k \in 1 .. n |-> n - k], floor |-> n - 1]

HasItems(st) == st.items # <<>>

Top(st) == IF HasItems(st) THEN st.items[Len(st.items)] ELSE st.floor

Pop(st) == IF HasItems(st) THEN [st EXCEPT !.items = SubSeq(@, 1, Len(@) - 1)]
                           ELSE st

Push(st, n) == [items |-> Append(st.items, n),
                floor |-> IF HasItems(st) THEN st.floor ELSE n]

-----------------------------------------------------------------------------
\* Last use of a value in a block; a value never used counts as index 0.

Mentions(ins) == {ins.ops[k] : k \in DOMAIN ins.ops}
                   \cup {ins.dest[k] : k \in DOMAIN ins.dest}

FindUses(b) ==
  [v \in Values |->
     Max({0} \cup {i \in 0 .. Len(b.code) - 1 : v \in Mentions(b.code[i + 1])}
             \cup {RetIndex + i : i \in {j \in 0 .. Len(b.out.v) - 1 :
                                           b.out.v[j + 1] = v}})]

NewState(b) ==
  [availRegs   |-> NewStack(NumRegs),
   used        |-> [r \in Regs |-> None],
   availSpills |-> NewStack(NumSpills),
   usedSpill   |-> [a \in Spills |-> None],
   live        |-> [v \in Values |-> Dead],
   use         |-> FindUses(b),
   numSpills   |-> 0,
   maxCallee   |-> 0,
   cell        |-> [c \in Cells |->
                      IF \E v \in Locals \cup Args : c = Home(v)
                        THEN CHOOSE v \in Locals \cup Args : c = Home(v)
                        ELSE Junk],
   panic       |-> ""]

Fail(s, why) == [s EXCEPT !.panic = IF @ = "" THEN why ELSE @]

InReg(s, v)  == s.live[v].place = "reg"
IsLive(s, v) == s.live[v].place # "dead"

IsNeeded(s, i, v) == s.use[v] > i

Read(s, o) == IF o.class \in {"lit", "global"} THEN o ELSE s.cell[o]

\* A store, a load or a copy of the emitted code; there is none after a panic.
Store(s, from, to) == IF s.panic # "" THEN s
                      ELSE [s EXCEPT !.cell[to] = Read(s, from)]

-----------------------------------------------------------------------------
\* The methods of state.

\* Mutant of Mark: a change of a variable is not noted.
MarkNothing(s, v) == IF ~IsLive(s, v) THEN Fail(s, "marking dead value!") ELSE s

Mark(s, v) ==
  IF ~IsLive(s, v) THEN Fail(s, "marking dead value!")
  ELSE IF v.class = "temp" THEN s
  ELSE [s EXCEPT !.live[v].mut = TRUE]

\* Mutant of FreeReg: the entry of UsedRegs stays.
FreeRegKeepsEntry(s, r) ==
  IF s.used[r] = None THEN Fail(s, "freeing unused register")
  ELSE [s EXCEPT !.availRegs = Push(@, r)]

\* Mutant of FreeReg: the register does not go back to the pool.
FreeRegForgotten(s, r) ==
  IF s.used[r] = None THEN Fail(s, "freeing unused register")
  ELSE [s EXCEPT !.used[r] = None]

FreeReg(s, r) ==
  IF s.used[r] = None THEN Fail(s, "freeing unused register")
  ELSE [s EXCEPT !.used[r] = None, !.availRegs = Push(@, r)]

FreeSpill(s, a) ==
  IF s.usedSpill[a] = None THEN Fail(s, "freeing unused spill")
  ELSE [s EXCEPT !.usedSpill[a] = None, !.availSpills = Push(@, a)]

Free(s, v) ==
  LET loc  == s.live[v]
      gone == [s EXCEPT !.live[v] = Dead]
  IN CASE loc.place = "reg"    -> FreeReg(gone, loc.num)
       [] loc.place = "spill"  -> FreeSpill(gone, loc.num)
       [] loc.place = "callee" -> gone
       [] loc.place = "dead"   -> Fail(s, "freeing unfound value")

AllocReg(s, v) ==
  IF InReg(s, v) THEN s
  ELSE LET r == Top(s.availRegs)
       IN [s EXCEPT !.availRegs = Pop(@),
                    !.used[r] = v,
                    !.live[v] = UseInfo("reg", r, FALSE)]

\* Mutant of SpillTemp: the frame is not grown.
SpillTempUncounted(s, r) ==
  IF s.used[r] = None THEN Fail(s, "spilling unused register")
  ELSE LET v == s.used[r]
           f == FreeReg(s, r)
           a == Top(f.availSpills)
       IN [f EXCEPT !.availSpills = Pop(@),
                    !.usedSpill[a] = v,
                    !.live[v] = UseInfo("spill", a, s.live[v].mut),
                    !.cell[Slot(a)] = s.cell[Reg(r)]]

\* Spill and the store that spillTemp makes of it.
SpillTemp(s, r) ==
  IF s.used[r] = None THEN Fail(s, "spilling unused register")
  ELSE LET v == s.used[r]
           f == FreeReg(s, r)
           a == Top(f.availSpills)
       IN [f EXCEPT !.availSpills = Pop(@),
                    !.usedSpill[a] = v,
                    !.live[v] = UseInfo("spill", a, s.live[v].mut),
                    !.numSpills = IF a + 1 > @ THEN a + 1 ELSE @,
                    !.cell[Slot(a)] = s.cell[Reg(r)]]

\* Ties between equally far uses are broken by the order of the map.
FurthestUse(s, i) ==
  {v \in Values : /\ InReg(s, v)
                  /\ s.use[v] > i
                  /\ \A w \in Values : InReg(s, w) => s.use[w] <= s.use[v]}

\* Mutant of Evict: a changed variable is not written back.
EvictUnsaved(s, v) ==
  IF v.class = "temp" THEN SpillTemp(s, s.live[v].num) ELSE Free(s, v)

Evict(s, v) ==
  LET r == s.live[v].num
  IN IF v.class = "temp" THEN SpillTemp(s, r)
     ELSE Free(IF s.live[v].mut THEN Store(s, Reg(r), Home(v)) ELSE s, v)

\* _allocReg: the states it can end in, v holding a register in each of them.
GrabReg(s, i, v) ==
  IF HasItems(s.availRegs) THEN {AllocReg(s, v)}
  ELSE IF FurthestUse(s, i) = {} THEN {Fail(s, "not enough registers")}
  ELSE {LET t == AllocReg(Evict(s, w), v)
        IN IF t.live[v] = UseInfo("reg", s.live[w].num, FALSE) THEN t
           ELSE Fail(t, "spillRegister") : w \in FurthestUse(s, i)}

\* A load into the register v has just been given.
Load(s, from, v) == Store(s, from, Reg(s.live[v].num))

EnsureImmediate(s, i, v) ==
  IF v \notin Values \/ InReg(s, v) THEN {s}
  ELSE LET loc == s.live[v]
       IN CASE loc.place = "spill" ->
                 {Load(t, Slot(loc.num), v) :
                    t \in GrabReg(FreeSpill(s, loc.num), i, v)}
            [] loc.place = "callee" ->
                 {Load(t, Callee(loc.num), v) : t \in GrabReg(s, i, v)}
            [] loc.place = "dead" /\ v.class = "temp" -> GrabReg(s, i, v)
            [] loc.place = "dead" /\ v.class # "temp" ->
                 {Load(t, Home(v), v) : t \in GrabReg(s, i, v)}

\* The MIR operand ensureImmediate returned for o.
Immediate(s, o) == IF o \in Values THEN Reg(s.live[o].num) ELSE o

\* toMirc: a temporary is wherever it lives, a variable is always its home.
ToMirc(s, o) ==
  CASE o \in Temps -> Operand(s.live[o].place, s.live[o].num)
    [] o \in Locals \cup Args -> Home(o)
    [] OTHER -> o

\* Mutant of IsAddressable: LiveValues is not consulted for variables.
IsAddressableAtHome(s, o) ==
  IF o \notin Values THEN FALSE ELSE o \notin Temps \/ (IsLive(s, o) /\ ~InReg(s, o))

IsAddressable(s, o) ==
  IF o \notin Values THEN FALSE
  ELSE IF IsLive(s, o) THEN ~InReg(s, o)
  ELSE o \notin Temps

FreeIfUnneeded(s, i, ins, v) ==
  IF \/ v \notin Values
     \/ \E k \in DOMAIN ins.dest : ins.dest[k] = v
     \/ ~IsLive(s, v) \/ IsNeeded(s, i, v) \/ s.live[v].mut
  THEN s ELSE Free(s, v)

CorruptOldVersion(s, v) == IF InReg(s, v) THEN Free(s, v) ELSE s

-----------------------------------------------------------------------------
Tokens == Operands \cup {Junk} \cup [instr : Nat, ret : Nat]

Places == [place : {"dead"}, num : {0}, mut : {FALSE}]
            \cup [place : {"reg"}, num : Regs, mut : BOOLEAN]
            \cup [place : {"spill"}, num : Spills, mut : BOOLEAN]
            \cup [place : {"callee"}, num : Slots, mut : BOOLEAN]

Panics == {"marking dead value!", "freeing unused register",
           "freeing unused spill", "freeing unfound value",
           "spilling unused register", "not enough registers",
           "spillRegister", "toMirc: temp is not alive"}

States == [availRegs   : [items : Seq(Regs), floor : Regs],
           used        : [Regs -> Values \cup {None}],
           availSpills : [items : Seq(Spills), floor : Spills],
           usedSpill   : [Spills -> Values \cup {None}],
           live        : [Values -> Places],
           use         : [Values -> Nat],
           numSpills   : 0 .. NumSpills,
           maxCallee   : 0 .. NumSlots,
           cell        : [Cells -> Tokens],
           panic       : Panics \cup {""}]

\* UsedRegs and LiveValues say the same thing of every register, and a
\* register is in the pool exactly when UsedRegs has no entry for it, once.
RegistersAgree(s) ==
  LET free == s.availRegs.items
  IN /\ \A j, k \in DOMAIN free : free[j] = free[k] => j = k
     /\ \A r \in Regs : (s.used[r] = None) <=> \E k \in DOMAIN free : free[k] = r
     /\ \A r \in Regs : s.used[r] # None =>
          /\ InReg(s, s.used[r])
          /\ s.live[s.used[r]].num = r
     /\ \A v \in Values : InReg(s, v) => s.used[s.live[v].num] = v

\* The same of the spill area; and the frame reserves every slot in use.
SpillsAgree(s) ==
  LET free == s.availSpills.items
  IN /\ \A j, k \in DOMAIN free : free[j] = free[k] => j = k
     /\ \A a \in Spills : (s.usedSpill[a] = None) <=>
                            \E k \in DOMAIN free : free[k] = a
     /\ \A a \in Spills : s.usedSpill[a] # None =>
          /\ s.live[s.usedSpill[a]].place = "spill"
          /\ s.live[s.usedSpill[a]].num = a
          /\ a < s.numSpills
     /\ \A v \in Values : s.live[v].place = "spill" =>
                            s.usedSpill[s.live[v].num] = v

=============================================================================

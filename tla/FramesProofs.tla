---------------------------- MODULE FramesProofs ----------------------------
(***************************************************************************)
(* Frames of every program: any set of procedures of any shapes, calling   *)
(* each other in any order, on a stack of any size.                        *)
(*                                                                         *)
(* A body writes into its caller's frame too, through its interprocedural  *)
(* slots.  That it never reaches a saved rbp or a return address depends   *)
(* on all the frames below it: Chain says where each of them is, what its  *)
(* two saved words are, and that each caller has room for its callee's     *)
(* slots.                                                                  *)
(***************************************************************************)
EXTENDS Frames, SequenceTheorems, TLAPS

\* The frame under frame k, or the entry code.
Below(k)     == IF k = 1 THEN 0 ELSE frames[k - 1].fp
Caller(k)    == IF k = 1 THEN Entry ELSE frames[k - 1].proc
Bottom(k)    == frames[k].fp - Reserve(frames[k].proc)
TopOfStack   == IF frames = <<>> THEN 0 ELSE Bottom(Len(frames))

Fits(caller, p) == IF caller = Entry THEN p = Main
                   ELSE Interproc(p) <= Shape[caller].callee

Chain ==
  /\ \A k \in 1 .. Len(frames) :
       /\ mem[frames[k].fp] = SavedRbp(Below(k))
       /\ mem[frames[k].fp + slot] = RetTo(Caller(k))
       /\ frames[k].fp + 2 * slot = IF k = 1 THEN 0 ELSE Bottom(k - 1)
       /\ Bottom(k) >= -(slot * StackSlots)
       /\ Fits(Caller(k), frames[k].proc)
  /\ \A j, k \in 1 .. Len(frames) : j < k => frames[k].fp + 2 * slot <= Bottom(j)

Running ==
  CASE pc.part \in {"entry", "leave"} ->
         rsp = 0 /\ rbp = 0 /\ frames = <<>> /\ pc.proc = Entry
    [] pc.part = "called" ->
         LET n == Len(frames) + 1
         IN /\ pc.proc \in Procs
            /\ rsp = TopOfStack - slot
            /\ rbp = Below(n)
            /\ mem[rsp] = RetTo(Caller(n))
            /\ HasRoom(TopOfStack, pc.proc)
            /\ Fits(Caller(n), pc.proc)
    [] pc.part = "body" ->
         /\ frames # <<>>
         /\ frames[Len(frames)] = [proc |-> pc.proc, fp |-> rbp]
         /\ rsp = rbp - Reserve(pc.proc)
    [] OTHER -> TRUE

Inv == TypeOK /\ Chain /\ Running

-----------------------------------------------------------------------------
\* The layout.

\* An address of the stack is a whole number of slots below its end.
LEMMA StackDepth ==
  ASSUME NEW a \in Stack \cup {0}
  PROVE  /\ a \in Int /\ a <= 0 /\ a >= -(slot * StackSlots)
         /\ \E n \in Nat : a = -(slot * n)
<1>1. StackSlots \in Nat
  BY StackSize
<1>2. CASE a \in Stack
  <2>1. PICK k \in 1 .. StackSlots : a = -(slot * k)
    BY <1>2 DEF Stack
  <2> QED BY <2>1, <1>1 DEF slot
<1>3. CASE a = 0
  BY <1>3, <1>1 DEF slot
<1> QED BY <1>2, <1>3

\* What is a whole number of slots from an address of the stack, within its
\* ends, is on the stack.
LEMMA OnStack ==
  ASSUME NEW a \in Stack \cup {0}, NEW n \in Int,
         a + slot * n < 0, a + slot * n >= -(slot * StackSlots)
  PROVE  a + slot * n \in Stack
<1>1. PICK m \in Nat : a = -(slot * m)
  BY StackDepth
<1>2. StackSlots \in Nat
  BY StackSize
<1>3. m - n \in 1 .. StackSlots /\ a + slot * n = -(slot * (m - n))
  BY <1>1, <1>2 DEF slot
<1> QED BY <1>3 DEF Stack

LEMMA ShapeFacts ==
  ASSUME NEW p \in Procs
  PROVE  /\ Shape[p].vars \in Nat /\ Shape[p].spills \in Nat /\ Shape[p].callee \in Nat
         /\ Shape[p].args \in Nat /\ Shape[p].rets \in Nat
         /\ Interproc(p) \in Nat
         /\ Reserve(p) \in Nat
         /\ Reserve(p) = slot * (Shape[p].vars + Shape[p].spills + Shape[p].callee)
BY ProgramShape DEF Shapes, Interproc, Reserve, StackReserve, slot

LEMMA MainFacts == Main \in Procs /\ Interproc(Main) = 0
BY ProgramShape DEF Interproc

\* The address a callee computes for one of its interprocedural slots is the
\* one its caller computed for the slot (core/cc/stack/stack.go: Arg, CallArg).
THEOREM ParamsMeet ==
  ASSUME NEW p \in Procs, NEW fp \in Int, NEW callee \in Int, NEW i \in Nat,
         callee + 2 * slot = fp - Reserve(p)
  PROVE  callee + Arg(i) =
           fp + CallArg(Shape[p].vars, Shape[p].spills, Shape[p].callee, i)
BY ShapeFacts DEF Arg, CallArg, slot

\* Where the operands of a body are: its own between rbp and the bottom of
\* the frame, its interprocedural slots above its two saved words.
LEMMA Addresses ==
  ASSUME NEW p \in Procs, NEW fp \in Int, NEW o \in Operands(p)
  PROVE  LET ad == Address(p, fp, o.class, o.i)
         IN /\ ad \in Int
            /\ \E n \in Int : ad = fp + slot * n
            /\ o.class = "caller" => /\ o.i \in 0 .. Interproc(p) - 1
                                     /\ ad = fp + 2 * slot + slot * o.i
            /\ o.class # "caller" => ad < fp /\ ad >= fp - Reserve(p)
<1> DEFINE ad == Address(p, fp, o.class, o.i)
           Offset(n) == /\ ad = fp + slot * n
                     /\ \/ o.class = "caller" /\ o.i \in 0 .. Interproc(p) - 1 /\ n = 2 + o.i
                        \/ o.class # "caller" /\ n < 0 /\ slot * n >= -Reserve(p)
<1>0. /\ Shape[p].vars \in Nat /\ Shape[p].spills \in Nat /\ Shape[p].callee \in Nat
      /\ Interproc(p) \in Nat /\ Reserve(p) \in Nat
      /\ Reserve(p) = slot * (Shape[p].vars + Shape[p].spills + Shape[p].callee)
  BY ShapeFacts
<1> SUFFICES \E n \in Int : Offset(n)
  <2>1. ASSUME NEW n \in Int, Offset(n)
        PROVE  /\ ad = fp + slot * n
               /\ ad \in Int
               /\ o.class = "caller" => /\ o.i \in 0 .. Interproc(p) - 1
                                        /\ ad = fp + 2 * slot + slot * o.i
               /\ o.class # "caller" => ad < fp /\ ad >= fp - Reserve(p)
    <3> HIDE DEF ad
    <3>1. ad = fp + 8 * n /\ ad \in Int
      BY <2>1 DEF slot
    <3>2. CASE o.class = "caller"
      <4>1. o.i \in 0 .. Interproc(p) - 1 /\ n = 2 + o.i
        BY <2>1, <3>2
      <4>2. o.i \in Int
        BY <1>0, <4>1
      <4> QED BY <3>1, <3>2, <4>1, <4>2 DEF slot
    <3>3. CASE o.class # "caller"
      <4>1. n < 0 /\ 8 * n >= -Reserve(p)
        BY <2>1, <3>3 DEF slot
      <4> QED BY <1>0, <3>1, <3>3, <4>1 DEF slot
    <3> QED BY <3>2, <3>3
  <2> HIDE DEF ad
  <2>2. ASSUME \E n \in Int : Offset(n)
        PROVE  /\ ad \in Int
               /\ \E n \in Int : ad = fp + slot * n
               /\ o.class = "caller" => /\ o.i \in 0 .. Interproc(p) - 1
                                        /\ ad = fp + 2 * slot + slot * o.i
               /\ o.class # "caller" => ad < fp /\ ad >= fp - Reserve(p)
    <3> HIDE DEF Offset
    <3> QED BY <2>1, <2>2
  <2> QED BY <2>2 DEF ad
<1>1. CASE \E i \in 0 .. Interproc(p) - 1 : o = [class |-> "caller", i |-> i]
  <2>1. PICK i \in 0 .. Interproc(p) - 1 : o = [class |-> "caller", i |-> i]
    BY <1>1
  <2>2. i \in Int /\ o.class = "caller" /\ o.i = i
    BY <1>0, <2>1
  <2>3. Arg(i) = slot * (2 + i)
    BY <1>0, <2>2 DEF Arg, slot
  <2>4. Address(p, fp, o.class, o.i) = fp + slot * (2 + i)
    BY <2>2, <2>3 DEF Address
  <2> HIDE DEF ad
  <2>5. Offset(2 + i)
    BY <1>0, <2>1, <2>2, <2>4 DEF slot, ad
  <2>6. 2 + i \in Int
    BY <1>0, <2>2
  <2> QED BY <2>5, <2>6
<1>2. CASE \E i \in 0 .. Shape[p].vars - 1 : o = [class |-> "local", i |-> i]
  <2>1. PICK i \in 0 .. Shape[p].vars - 1 : o = [class |-> "local", i |-> i]
    BY <1>2
  <2>2. i \in Int /\ o.class = "local" /\ o.i = i
    BY <1>0, <2>1
  <2>3. Var(i) = slot * (-(1 + i))
    BY <1>0, <2>2 DEF Var, slot
  <2>4. Address(p, fp, o.class, o.i) = fp + slot * (-(1 + i))
    BY <2>2, <2>3 DEF Address
  <2> HIDE DEF ad
  <2>5. Offset(-(1 + i))
    BY <1>0, <2>1, <2>2, <2>4 DEF slot, ad
  <2>6. -(1 + i) \in Int
    BY <1>0, <2>2
  <2> QED BY <2>5, <2>6
<1>3. CASE \E i \in 0 .. Shape[p].spills - 1 : o = [class |-> "spill", i |-> i]
  <2>1. PICK i \in 0 .. Shape[p].spills - 1 : o = [class |-> "spill", i |-> i]
    BY <1>3
  <2>2. i \in Int /\ o.class = "spill" /\ o.i = i
    BY <1>0, <2>1
  <2>3. Spill(Shape[p].vars, i) = slot * (-(1 + Shape[p].vars + i))
    BY <1>0, <2>2 DEF Spill, slot
  <2>4. Address(p, fp, o.class, o.i) = fp + slot * (-(1 + Shape[p].vars + i))
    BY <2>2, <2>3 DEF Address
  <2> HIDE DEF ad
  <2>5. Offset(-(1 + Shape[p].vars + i))
    BY <1>0, <2>1, <2>2, <2>4 DEF slot, ad
  <2>6. -(1 + Shape[p].vars + i) \in Int
    BY <1>0, <2>2
  <2> QED BY <2>5, <2>6
<1>4. CASE \E i \in 0 .. Shape[p].callee - 1 : o = [class |-> "callee", i |-> i]
  <2>1. PICK i \in 0 .. Shape[p].callee - 1 : o = [class |-> "callee", i |-> i]
    BY <1>4
  <2>2. i \in Int /\ o.class = "callee" /\ o.i = i
    BY <1>0, <2>1
  <2>3. CallArg(Shape[p].vars, Shape[p].spills, Shape[p].callee, i) = slot * (-(Shape[p].vars + Shape[p].spills + Shape[p].callee - i))
    BY <1>0, <2>2 DEF CallArg, slot
  <2>4. Address(p, fp, o.class, o.i) = fp + slot * (-(Shape[p].vars + Shape[p].spills + Shape[p].callee - i))
    BY <2>2, <2>3 DEF Address
  <2> HIDE DEF ad
  <2>5. Offset(-(Shape[p].vars + Shape[p].spills + Shape[p].callee - i))
    BY <1>0, <2>1, <2>2, <2>4 DEF slot, ad
  <2>6. -(Shape[p].vars + Shape[p].spills + Shape[p].callee - i) \in Int
    BY <1>0, <2>2
  <2> QED BY <2>5, <2>6
<1> QED BY <1>1, <1>2, <1>3, <1>4 DEF Operands

-----------------------------------------------------------------------------
\* What the invariant says of the frames.

LEMMA FrameFacts ==
  ASSUME Inv, NEW k \in 1 .. Len(frames)
  PROVE  /\ Len(frames) \in Nat /\ frames # <<>>
         /\ frames[k].proc \in Procs /\ frames[k].fp \in Stack /\ frames[k].fp \in Int
         /\ frames[k].fp < 0
         /\ Reserve(frames[k].proc) \in Nat
         /\ Bottom(k) \in Int /\ Bottom(k) <= frames[k].fp
         /\ frames[k].fp + slot \in Stack /\ frames[k].fp + 2 * slot <= 0
<1>1. frames \in Seq([proc : Procs, fp : Stack])
  BY DEF Inv, TypeOK
<1>2. frames[k] \in [proc : Procs, fp : Stack] /\ Len(frames) \in Nat /\ frames # <<>>
  <2>1. Len(frames) \in Nat /\ frames[k] \in [proc : Procs, fp : Stack]
    BY <1>1, ElementOfSeq, LenProperties
  <2>2. frames # <<>>
    BY <2>1
  <2> QED BY <2>1, <2>2
<1>3. Reserve(frames[k].proc) \in Nat
  BY <1>2, ShapeFacts
<1>4. frames[k].fp \in Int /\ frames[k].fp < 0
  BY <1>2, StackSize DEF Stack, slot
<1>5. Bottom(k) \in Int /\ Bottom(k) <= frames[k].fp
  BY <1>3, <1>4 DEF Bottom
<1>6. frames[k].fp + 2 * slot <= 0
  <2>1. CASE k = 1
    BY <2>1 DEF Inv, Chain
  <2>2. CASE k # 1
    <3>1. k - 1 \in 1 .. Len(frames) /\ k - 1 < k
      BY <1>2, <2>2
    <3>2. frames[k].fp + 2 * slot = frames[k - 1].fp - Reserve(frames[k - 1].proc)
      BY <2>2 DEF Inv, Chain, Bottom
    <3>3. frames[k - 1] \in [proc : Procs, fp : Stack]
      BY <1>1, <3>1, ElementOfSeq
    <3>4. Reserve(frames[k - 1].proc) \in Nat
      BY <3>3, ShapeFacts
    <3>5. frames[k - 1].fp \in Int /\ frames[k - 1].fp <= 0
      BY <3>3, StackDepth
    <3> QED BY <3>2, <3>4, <3>5
  <2> QED BY <2>1, <2>2
<1>7. frames[k].fp + slot \in Stack
  <2>1. frames[k].fp >= -(slot * StackSlots)
    BY <1>2, StackDepth
  <2>2. frames[k].fp + slot * 1 < 0 /\ frames[k].fp + slot * 1 >= -(slot * StackSlots)
        /\ frames[k].fp + slot * 1 = frames[k].fp + slot
    BY <1>4, <1>6, <2>1, StackSize DEF slot
  <2> QED BY <1>2, <2>2, OnStack
<1> QED BY <1>2, <1>3, <1>4, <1>5, <1>6, <1>7

\* Every saved word is above the bottom of the last frame.
LEMMA TopFacts ==
  ASSUME Inv
  PROVE  /\ TopOfStack \in Int /\ TopOfStack <= 0
         /\ TopOfStack >= -(slot * StackSlots)
         /\ \A k \in 1 .. Len(frames) :
              frames[k].fp >= TopOfStack /\ Bottom(k) >= TopOfStack
<1>1. CASE frames = <<>>
  BY <1>1, StackSize DEF TopOfStack, slot
<1>2. CASE frames # <<>>
  <2> DEFINE n == Len(frames)
  <2>1. n \in Nat /\ n >= 1 /\ n \in 1 .. n
    BY <1>2 DEF Inv, TypeOK
  <2>2. TopOfStack = Bottom(n) /\ Bottom(n) \in Int /\ Bottom(n) <= frames[n].fp
        /\ frames[n].fp \in Int /\ frames[n].fp < 0
    BY <1>2, <2>1, FrameFacts DEF TopOfStack
  <2>3. Bottom(n) >= -(slot * StackSlots)
    BY <2>1 DEF Inv, Chain
  <2>4. ASSUME NEW k \in 1 .. n
        PROVE  frames[k].fp >= Bottom(n) /\ Bottom(k) >= Bottom(n)
    <3>1. Bottom(k) \in Int /\ Bottom(k) <= frames[k].fp /\ frames[k].fp \in Int
      BY FrameFacts
    <3>2. k < n => frames[n].fp + 2 * slot <= Bottom(k)
      BY <2>1 DEF Inv, Chain
    <3>3. k < n \/ k = n
      BY <2>1
    <3> HIDE DEF n
    <3> QED BY <2>2, <3>1, <3>2, <3>3 DEF slot
  <2> HIDE DEF n
  <2>5. TopOfStack \in Int /\ TopOfStack <= 0 /\ TopOfStack >= -(slot * StackSlots)
    BY <2>2, <2>3
  <2> QED BY <2>2, <2>4, <2>5 DEF n
<1> QED BY <1>1, <1>2

\* In a body, rsp is the bottom of the last frame.
LEMMA BodyFacts ==
  ASSUME Inv, pc.part = "body"
  PROVE  /\ frames # <<>> /\ Len(frames) \in Nat /\ Len(frames) \in 1 .. Len(frames)
         /\ frames[Len(frames)] = [proc |-> pc.proc, fp |-> rbp]
         /\ pc.proc \in Procs /\ rbp \in Stack
         /\ rbp \in Int /\ rbp < 0
         /\ rsp = TopOfStack /\ rsp = rbp - Reserve(pc.proc) /\ rsp = Bottom(Len(frames))
<1>1. /\ frames # <<>> /\ rsp = rbp - Reserve(pc.proc)
      /\ frames[Len(frames)] = [proc |-> pc.proc, fp |-> rbp]
  BY DEF Inv, Running
<1>2. Len(frames) \in Nat /\ Len(frames) \in 1 .. Len(frames)
  BY <1>1 DEF Inv, TypeOK
<1>3. rsp = Bottom(Len(frames)) /\ rsp = TopOfStack
  BY <1>1 DEF Bottom, TopOfStack
<1> QED BY <1>1, <1>2, <1>3, FrameFacts

\* A store of a body is on the stack, within reach, and on no saved word.
LEMMA StoreFacts ==
  ASSUME Inv, pc.part = "body", NEW o \in Operands(pc.proc)
  PROVE  LET ad == Address(pc.proc, rbp, o.class, o.i)
         IN /\ ad \in Stack /\ ad >= rsp /\ ad < 0
            /\ \A k \in 1 .. Len(frames) : ad # frames[k].fp /\ ad # frames[k].fp + slot
<1> DEFINE n  == Len(frames)
           ad == Address(pc.proc, rbp, o.class, o.i)
<1>1. /\ n \in Nat /\ n \in 1 .. n /\ frames[n] = [proc |-> pc.proc, fp |-> rbp]
      /\ pc.proc \in Procs /\ rbp \in Stack /\ rbp \in Int /\ rbp < 0
      /\ rsp = rbp - Reserve(pc.proc) /\ rsp = TopOfStack /\ Reserve(pc.proc) \in Nat
  BY BodyFacts, ShapeFacts
<1>2. /\ ad \in Int /\ \E i \in Int : ad = rbp + slot * i
      /\ o.class = "caller" => /\ o.i \in 0 .. Interproc(pc.proc) - 1
                               /\ ad = rbp + 2 * slot + slot * o.i
      /\ o.class # "caller" => ad < rbp /\ ad >= rbp - Reserve(pc.proc)
  BY <1>1, Addresses
<1>3. \A k \in 1 .. n : /\ frames[k].fp \in Int /\ frames[k].fp < 0
                        /\ Bottom(k) \in Int /\ Bottom(k) <= frames[k].fp
  BY FrameFacts
<1>4. \A j, k \in 1 .. n : j < k => frames[k].fp + 2 * slot <= Bottom(j)
  BY DEF Inv, Chain
<1>5. \A k \in 1 .. n - 1 : rbp + 2 * slot <= Bottom(k) /\ frames[k].fp >= rbp + 2 * slot
  <2> TAKE k \in 1 .. n - 1
  <2>1. k \in 1 .. n /\ k < n /\ frames[n].fp = rbp
    BY <1>1
  <2> HIDE DEF n
  <2>2. rbp + 2 * slot <= Bottom(k)
    BY <1>1, <1>4, <2>1
  <2> QED BY <1>1, <1>3, <2>1, <2>2 DEF slot
<1>6. ASSUME o.class # "caller"
      PROVE  /\ ad < 0 /\ ad >= rsp
             /\ \A k \in 1 .. n : ad # frames[k].fp /\ ad # frames[k].fp + slot
  <2>1. ad < rbp /\ ad >= rsp
    BY <1>1, <1>2, <1>6
  <2>2. \A k \in 1 .. n : ad # frames[k].fp /\ ad # frames[k].fp + slot
    <3> TAKE k \in 1 .. n
    <3>1. k = n \/ k \in 1 .. n - 1
      BY <1>1
    <3>2. frames[k].fp >= rbp /\ frames[k].fp \in Int
      <4> HIDE DEF n, ad
      <4> QED BY <1>1, <1>3, <1>5, <3>1 DEF slot
    <3> HIDE DEF n, ad
    <3> QED BY <1>1, <1>2, <2>1, <3>2 DEF slot
  <2> HIDE DEF n, ad
  <2> QED BY <1>1, <1>2, <2>1, <2>2
<1>7. ASSUME o.class = "caller"
      PROVE  /\ ad < 0 /\ ad >= rsp
             /\ \A k \in 1 .. n : ad # frames[k].fp /\ ad # frames[k].fp + slot
  <2>1. o.i \in 0 .. Interproc(pc.proc) - 1 /\ ad = rbp + 2 * slot + slot * o.i
    BY <1>2, <1>7
  <2>2. Interproc(pc.proc) \in Nat /\ o.i \in Nat /\ o.i < Interproc(pc.proc)
    BY <1>1, <2>1, ShapeFacts
  <2>3. Fits(Caller(n), pc.proc)
    <3>1. frames[n].proc = pc.proc
      BY <1>1
    <3> QED BY <1>1, <3>1 DEF Inv, Chain
  <2>4. n # 1
    BY <2>2, <2>3, MainFacts DEF Fits, Caller
  <2>5. n - 1 \in 1 .. n /\ n - 1 \in 1 .. n - 1 /\ n - 1 < n
    <3> HIDE DEF n
    <3> QED BY <1>1, <2>4
  <2> DEFINE c == frames[n - 1].proc
  <2>6. c \in Procs /\ c # Entry /\ Interproc(pc.proc) <= Shape[c].callee
    BY <2>3, <2>4, <2>5, FrameFacts, StackSize DEF Fits, Caller
  <2>7. /\ Shape[c].callee \in Nat /\ Reserve(c) \in Nat
        /\ Reserve(c) >= slot * Shape[c].callee
    <3>1. c \in Procs
      BY <2>6
    <3> HIDE DEF c
    <3> QED BY <3>1, ShapeFacts DEF slot
  <2>8. rbp + 2 * slot = Bottom(n - 1)
    <3>1. frames[n].fp + 2 * slot = Bottom(n - 1)
      BY <1>1, <2>4 DEF Inv, Chain
    <3> QED BY <1>1, <3>1
  <2>9. Bottom(n - 1) = frames[n - 1].fp - Reserve(c)
    BY DEF Bottom
  <2>10. ad < frames[n - 1].fp /\ ad >= rbp + 2 * slot
    <3>1. frames[n - 1].fp \in Int
      BY <1>3, <2>5
    <3> HIDE DEF ad, n, c
    <3> QED BY <1>1, <2>1, <2>2, <2>6, <2>7, <2>8, <2>9, <3>1 DEF slot
  <2>11. \A k \in 1 .. n - 1 : frames[k].fp >= frames[n - 1].fp
    <3> TAKE k \in 1 .. n - 1
    <3>1. k \in 1 .. n /\ (k < n - 1 \/ k = n - 1)
      BY <1>1
    <3>2. k < n - 1 => frames[n - 1].fp + 2 * slot <= Bottom(k)
      BY <1>4, <2>5, <3>1
    <3>3. Bottom(k) <= frames[k].fp /\ frames[k].fp \in Int /\ Bottom(k) \in Int
          /\ frames[n - 1].fp \in Int
      BY <1>3, <2>5, <3>1
    <3> HIDE DEF n
    <3> QED BY <3>1, <3>2, <3>3 DEF slot
  <2>12. \A k \in 1 .. n : ad # frames[k].fp /\ ad # frames[k].fp + slot
    <3> TAKE k \in 1 .. n
    <3>1. CASE k = n
      <4>1. frames[k].fp = rbp
        BY <1>1, <3>1
      <4> HIDE DEF ad, n
      <4> QED BY <1>1, <1>2, <2>10, <4>1 DEF slot
    <3>2. CASE k # n
      <4>1. k \in 1 .. n - 1
        BY <1>1, <3>2
      <4>2. frames[k].fp >= frames[n - 1].fp /\ frames[k].fp \in Int /\ frames[n - 1].fp \in Int
        BY <1>3, <2>5, <2>11, <4>1
      <4> HIDE DEF ad, n
      <4> QED BY <1>2, <2>10, <4>2 DEF slot
    <3> QED BY <3>1, <3>2
  <2>13. ad >= rsp /\ ad < 0
    <3>1. frames[n - 1].fp < 0 /\ frames[n - 1].fp \in Int
      BY <1>3, <2>5
    <3> HIDE DEF ad, n
    <3> QED BY <1>1, <1>2, <2>10, <3>1 DEF slot
  <2> HIDE DEF n, ad
  <2> QED BY <2>12, <2>13
<1>8. ad < 0 /\ ad >= rsp /\ \A k \in 1 .. n : ad # frames[k].fp /\ ad # frames[k].fp + slot
  <2> HIDE DEF n, ad
  <2> QED BY <1>6, <1>7
<1>9. ad \in Stack
  <2>1. PICK i \in Int : ad = rbp + slot * i
    BY <1>2
  <2>2. rsp >= -(slot * StackSlots) /\ rsp \in Int
    BY <1>1, TopFacts
  <2>3. StackSlots \in Nat
    BY StackSize
  <2> HIDE DEF ad
  <2>4. rbp + slot * i < 0 /\ rbp + slot * i >= -(slot * StackSlots)
    BY <1>1, <1>2, <1>8, <2>1, <2>2, <2>3 DEF slot
  <2> QED BY <1>1, <2>1, <2>4, OnStack
<1> HIDE DEF ad
<1> QED BY <1>8, <1>9 DEF ad

-----------------------------------------------------------------------------
\* Preservation.

\* Words a step leaves alone.
LEMMA ChainKept ==
  ASSUME Inv, frames' = frames,
         \A k \in 1 .. Len(frames) : /\ mem'[frames[k].fp] = mem[frames[k].fp]
                                     /\ mem'[frames[k].fp + slot] = mem[frames[k].fp + slot]
  PROVE  /\ Chain' /\ TopOfStack' = TopOfStack
         /\ \A k : Below(k)' = Below(k) /\ Caller(k)' = Caller(k) /\ Bottom(k)' = Bottom(k)
<1>1. \A k : Below(k)' = Below(k) /\ Caller(k)' = Caller(k) /\ Bottom(k)' = Bottom(k)
  BY DEF Below, Caller, Bottom, Reserve
<1>2. TopOfStack' = TopOfStack
  BY <1>1 DEF TopOfStack, Bottom
<1>3. Chain'
  BY <1>1 DEF Inv, Chain, Fits, Interproc
<1> QED BY <1>1, <1>2, <1>3

\* A write to the stack below the last frame, or to any word a body may write.
LEMMA WriteKept ==
  ASSUME Inv, NEW a \in Stack, NEW w \in Words, mem' = [mem EXCEPT ![a] = w],
         \A k \in 1 .. Len(frames) : a # frames[k].fp /\ a # frames[k].fp + slot
  PROVE  /\ mem' \in [Stack -> Words] /\ mem'[a] = w
         /\ \A k \in 1 .. Len(frames) : /\ mem'[frames[k].fp] = mem[frames[k].fp]
                                        /\ mem'[frames[k].fp + slot] = mem[frames[k].fp + slot]
<1>1. mem \in [Stack -> Words]
  BY DEF Inv, TypeOK
<1>2. \A k \in 1 .. Len(frames) : frames[k].fp \in Stack /\ frames[k].fp + slot \in Stack
  BY FrameFacts
<1> QED BY <1>1, <1>2

LEMMA BelowFrames ==
  ASSUME Inv, NEW a \in Int, a < TopOfStack
  PROVE  \A k \in 1 .. Len(frames) : a # frames[k].fp /\ a # frames[k].fp + slot
<1> TAKE k \in 1 .. Len(frames)
<1>1. frames[k].fp \in Int /\ frames[k].fp >= TopOfStack /\ TopOfStack \in Int
  BY FrameFacts, TopFacts
<1> QED BY <1>1 DEF slot

LEMMA EmitCallInv ==
  ASSUME Inv, NEW q \in Procs, EmitCall(q),
         rsp = TopOfStack, rbp = Below(Len(frames) + 1), pc.proc = Caller(Len(frames) + 1),
         Fits(Caller(Len(frames) + 1), q), HasRoom(TopOfStack, q)
  PROVE  Inv'
<1> DEFINE a == rsp - slot
<1>1. rsp \in Stack \cup {0} /\ rbp \in Stack \cup {0} /\ rsp \in Int
  BY StackDepth DEF Inv, TypeOK
<1>2. Reserve(q) \in Nat /\ StackSlots \in Nat
  BY ShapeFacts, StackSize
<1>3. a \in Stack /\ a < TopOfStack /\ a \in Int
  <2>1. rsp + slot * (-1) < 0 /\ rsp + slot * (-1) >= -(slot * StackSlots)
        /\ rsp + slot * (-1) = a
    BY <1>1, <1>2, StackDepth DEF HasRoom, slot
  <2>2. a \in Stack
    <3> HIDE DEF a
    <3> QED BY <1>1, <2>1, OnStack
  <2> QED BY <1>1, <2>2 DEF slot
<1>4. RetTo(pc.proc) \in Words
  BY DEF Inv, TypeOK, Words
<1>5. mem' = [mem EXCEPT ![a] = RetTo(pc.proc)] /\ frames' = frames /\ rbp' = rbp /\ rsp' = a
      /\ pc' = [part |-> "called", proc |-> q]
  BY DEF EmitCall, At
<1> HIDE DEF a
<1>6. \A k \in 1 .. Len(frames) : a # frames[k].fp /\ a # frames[k].fp + slot
  BY <1>3, BelowFrames
<1>7. /\ mem' \in [Stack -> Words] /\ mem'[a] = RetTo(pc.proc)
      /\ \A k \in 1 .. Len(frames) : /\ mem'[frames[k].fp] = mem[frames[k].fp]
                                     /\ mem'[frames[k].fp + slot] = mem[frames[k].fp + slot]
  BY <1>3, <1>4, <1>5, <1>6, WriteKept
<1>8. /\ Chain' /\ TopOfStack' = TopOfStack
      /\ \A k : Below(k)' = Below(k) /\ Caller(k)' = Caller(k) /\ Bottom(k)' = Bottom(k)
  BY <1>5, <1>7, ChainKept
<1>9. TypeOK'
  BY <1>1, <1>3, <1>5, <1>7 DEF Inv, TypeOK
<1>10. Running'
  <2>1. /\ pc'.part = "called" /\ pc'.proc = q /\ Len(frames') = Len(frames)
        /\ Below(Len(frames) + 1)' = Below(Len(frames) + 1)
        /\ Caller(Len(frames) + 1)' = Caller(Len(frames) + 1)
    BY <1>5, <1>8
  <2>2. HasRoom(TopOfStack', q)
    BY <1>8
  <2>4. Caller(Len(frames) + 1)' = Entry => q = Main
    BY <2>1 DEF Fits
  <2>5. Caller(Len(frames) + 1)' # Entry =>
          Interproc(q) <= Shape[Caller(Len(frames) + 1)'].callee
    BY <2>1 DEF Fits
  <2>3. rsp' = TopOfStack' - slot
    BY <1>5, <1>8 DEF a
  <2> QED BY <1>5, <1>7, <2>1, <2>2, <2>3, <2>4, <2>5 DEF Running, Fits, HasRoom, Reserve, Interproc
<1> QED BY <1>8, <1>9, <1>10 DEF Inv

LEMMA GenEntryInv ==
  ASSUME Inv, GenEntry
  PROVE  Inv'
<1>1. rsp = 0 /\ rbp = 0 /\ frames = <<>> /\ pc.proc = Entry
  BY DEF GenEntry, Inv, Running
<1>2. rsp = TopOfStack /\ Len(frames) + 1 = 1
  BY <1>1 DEF TopOfStack
<1>3. rbp = Below(Len(frames) + 1) /\ pc.proc = Caller(Len(frames) + 1)
  BY <1>1, <1>2 DEF Below, Caller
<1>4. Fits(Caller(Len(frames) + 1), Main)
  BY <1>1, <1>3 DEF Fits
<1>5. HasRoom(TopOfStack, Main)
  BY <1>1, <1>2, StackSize
<1> QED BY <1>2, <1>3, <1>4, <1>5, MainFacts, EmitCallInv DEF GenEntry

LEMMA GenCallInv ==
  ASSUME Inv, NEW q \in Procs, GenCall(q)
  PROVE  Inv'
<1>1. /\ frames # <<>> /\ Len(frames) \in Nat /\ Len(frames) \in 1 .. Len(frames)
      /\ frames[Len(frames)] = [proc |-> pc.proc, fp |-> rbp]
      /\ pc.proc \in Procs /\ rsp = TopOfStack
  BY BodyFacts DEF GenCall
<1>2. Len(frames) + 1 # 1 /\ Len(frames) + 1 - 1 = Len(frames)
  BY <1>1
<1>3. rbp = Below(Len(frames) + 1) /\ pc.proc = Caller(Len(frames) + 1)
  BY <1>1, <1>2 DEF Below, Caller
<1>4. Fits(Caller(Len(frames) + 1), q)
  BY <1>1, <1>3, StackSize DEF Fits, GenCall
<1>5. HasRoom(TopOfStack, q)
  BY <1>1 DEF GenCall
<1> QED BY <1>1, <1>3, <1>4, <1>5, EmitCallInv DEF GenCall

LEMMA GenLoadStoreInv ==
  ASSUME Inv, NEW o, NEW d \in Data, GenLoadStore(o, d)
  PROVE  Inv'
<1> DEFINE a == Address(pc.proc, rbp, o.class, o.i)
<1>1. /\ pc.part = "body" /\ o \in Operands(pc.proc)
      /\ mem' = [mem EXCEPT ![a] = Datum(d)]
      /\ rsp' = rsp /\ rbp' = rbp /\ pc' = pc /\ frames' = frames
  BY DEF GenLoadStore
<1>2. /\ a \in Stack
      /\ \A k \in 1 .. Len(frames) : a # frames[k].fp /\ a # frames[k].fp + slot
  BY <1>1, StoreFacts
<1> HIDE DEF a
<1>3. Datum(d) \in Words
  BY DEF Words
<1>4. /\ mem' \in [Stack -> Words]
      /\ \A k \in 1 .. Len(frames) : /\ mem'[frames[k].fp] = mem[frames[k].fp]
                                     /\ mem'[frames[k].fp + slot] = mem[frames[k].fp + slot]
  BY <1>1, <1>2, <1>3, WriteKept
<1>5. Chain'
  BY <1>1, <1>4, ChainKept
<1>6. TypeOK'
  BY <1>1, <1>4 DEF Inv, TypeOK
<1>7. Running'
  BY <1>1 DEF Inv, Running, Reserve
<1> QED BY <1>5, <1>6, <1>7 DEF Inv

LEMMA GenProcInv ==
  ASSUME Inv, GenProc
  PROVE  Inv'
<1> DEFINE a == rsp - slot
           n == Len(frames)
           p == pc.proc
<1>1. /\ p \in Procs /\ rsp = TopOfStack - slot /\ rbp = Below(n + 1)
      /\ mem[rsp] = RetTo(Caller(n + 1)) /\ HasRoom(TopOfStack, p) /\ Fits(Caller(n + 1), p)
  BY DEF GenProc, Inv, Running
<1>2. rsp \in Stack \cup {0} /\ rbp \in Stack \cup {0} /\ rsp \in Int
      /\ frames \in Seq([proc : Procs, fp : Stack]) /\ n \in Nat
  BY StackDepth DEF Inv, TypeOK
<1>3. TopOfStack \in Int /\ TopOfStack <= 0 /\ Reserve(p) \in Nat /\ StackSlots \in Nat
  BY <1>1, TopFacts, ShapeFacts, StackSize
<1>4. /\ rsp \in Stack /\ a \in Stack /\ a \in Int /\ a < TopOfStack /\ a + slot = rsp
      /\ a + 2 * slot = TopOfStack
      /\ a - Reserve(p) >= -(slot * StackSlots) /\ a - Reserve(p) \in Stack
  <2>1. a \in Int /\ a < TopOfStack /\ a + slot = rsp /\ a + 2 * slot = TopOfStack /\ rsp < 0
    BY <1>1, <1>2, <1>3 DEF slot
  <2>2. a - Reserve(p) >= -(slot * StackSlots)
    BY <1>1, <1>2, <1>3 DEF HasRoom, slot
  <2>3. rsp \in Stack
    BY <1>2, <2>1
  <2>4. a \in Stack
    <3>1. rsp + slot * (-1) < 0 /\ rsp + slot * (-1) >= -(slot * StackSlots)
          /\ rsp + slot * (-1) = a
      BY <1>2, <1>3, <2>1, <2>2 DEF slot
    <3> HIDE DEF a
    <3> QED BY <1>2, <3>1, OnStack
  <2>5. a - Reserve(p) \in Stack
    <3> DEFINE m == Shape[p].vars + Shape[p].spills + Shape[p].callee
    <3>1. m \in Nat /\ Reserve(p) = slot * m
      <4> HIDE DEF p
      <4> QED BY <1>1, ShapeFacts
    <3> HIDE DEF a, m
    <3>2. a + slot * (-m) = a - Reserve(p) /\ -m \in Int
      BY <2>1, <3>1 DEF slot
    <3>3. a + slot * (-m) < 0 /\ a + slot * (-m) >= -(slot * StackSlots)
      BY <1>3, <2>1, <2>2, <3>1, <3>2
    <3> QED BY <2>4, <3>2, <3>3, OnStack
  <2> QED BY <2>1, <2>2, <2>3, <2>4, <2>5
<1>5. SavedRbp(rbp) \in Words
  BY <1>2 DEF Words
<1>6. /\ mem' = [mem EXCEPT ![a] = SavedRbp(rbp)]
      /\ rbp' = a /\ rsp' = a - Reserve(p)
      /\ pc' = [part |-> "body", proc |-> p]
      /\ frames' = Append(frames, [proc |-> p, fp |-> a])
  BY DEF GenProc, At
<1> HIDE DEF a, p
<1>7. /\ mem' \in [Stack -> Words] /\ mem'[a] = SavedRbp(rbp)
      /\ \A k \in 1 .. n : /\ mem'[frames[k].fp] = mem[frames[k].fp]
                           /\ mem'[frames[k].fp + slot] = mem[frames[k].fp + slot]
  BY <1>4, <1>5, <1>6, BelowFrames, WriteKept
<1>8. mem'[a + slot] = RetTo(Caller(n + 1))
  <2>1. a + slot \in Stack /\ a + slot # a
    BY <1>4 DEF slot
  <2>2. mem \in [Stack -> Words]
    BY DEF Inv, TypeOK
  <2> QED BY <1>1, <1>4, <1>6, <2>1, <2>2
<1>9. /\ frames' \in Seq([proc : Procs, fp : Stack]) /\ Len(frames') = n + 1
      /\ frames'[n + 1] = [proc |-> p, fp |-> a]
      /\ \A k \in 1 .. n : frames'[k] = frames[k]
  BY <1>1, <1>2, <1>4, <1>6, AppendProperties DEF p
<1> HIDE DEF n
<1>10. /\ \A k \in 1 .. n + 1 : Below(k)' = Below(k) /\ Caller(k)' = Caller(k)
       /\ \A k \in 1 .. n : Bottom(k)' = Bottom(k)
       /\ \A k \in 1 .. n + 1 : k = n + 1 => Bottom(k)' = a - Reserve(p)
  <2>1. \A k \in 1 .. n + 1 : k # 1 => k - 1 \in 1 .. n
    BY <1>2
  <2>2. \A k \in 1 .. n + 1 : Below(k)' = Below(k) /\ Caller(k)' = Caller(k)
    BY <1>9, <2>1 DEF Below, Caller
  <2>3. \A k \in 1 .. n : Bottom(k)' = Bottom(k)
    BY <1>9 DEF Bottom, Reserve
  <2>4. \A k \in 1 .. n + 1 : k = n + 1 => Bottom(k)' = a - Reserve(p)
    BY <1>9 DEF Bottom, Reserve
  <2> QED BY <2>2, <2>3, <2>4
<1>11. Chain'
  <2>1. ASSUME NEW k \in 1 .. n + 1
        PROVE  /\ mem'[frames'[k].fp] = SavedRbp(Below(k)')
               /\ mem'[frames'[k].fp + slot] = RetTo(Caller(k)')
               /\ frames'[k].fp + 2 * slot = IF k = 1 THEN 0 ELSE Bottom(k - 1)'
               /\ Bottom(k)' >= -(slot * StackSlots)
               /\ Fits(Caller(k)', frames'[k].proc)
    <3>1. CASE k = n + 1
      <4>1. TopOfStack = IF k = 1 THEN 0 ELSE Bottom(n)
        BY <1>2, <3>1 DEF TopOfStack, n
      <4>2. k # 1 => n \in 1 .. n /\ k - 1 = n
        BY <1>2, <3>1
      <4>3. frames'[k].fp + 2 * slot = IF k = 1 THEN 0 ELSE Bottom(k - 1)'
        BY <1>4, <1>9, <1>10, <3>1, <4>1, <4>2
      <4> QED BY <1>1, <1>4, <1>7, <1>8, <1>9, <1>10, <3>1, <4>3
    <3>2. CASE k \in 1 .. n
      <4>1. /\ mem[frames[k].fp] = SavedRbp(Below(k))
            /\ mem[frames[k].fp + slot] = RetTo(Caller(k))
            /\ frames[k].fp + 2 * slot = IF k = 1 THEN 0 ELSE Bottom(k - 1)
            /\ Bottom(k) >= -(slot * StackSlots)
            /\ Fits(Caller(k), frames[k].proc)
        BY <3>2 DEF Inv, Chain, n
      <4>2. k # 1 => Bottom(k - 1)' = Bottom(k - 1)
        <5>1. k # 1 => k - 1 \in 1 .. n
          BY <1>2, <3>2
        <5> QED BY <1>10, <5>1
      <4> QED BY <1>7, <1>9, <1>10, <3>2, <4>1, <4>2
    <3> QED BY <1>2, <3>1, <3>2
  <2>2. ASSUME NEW j \in 1 .. n + 1, NEW k \in 1 .. n + 1, j < k
        PROVE  frames'[k].fp + 2 * slot <= Bottom(j)'
    <3>1. j \in 1 .. n
      BY <1>2, <2>2
    <3>2. CASE k = n + 1
      <4>1. Bottom(j) >= TopOfStack
        BY <3>1, TopFacts DEF n
      <4> QED BY <1>4, <1>9, <1>10, <3>1, <3>2, <4>1
    <3>3. CASE k \in 1 .. n
      <4>1. frames[k].fp + 2 * slot <= Bottom(j)
        BY <2>2, <3>1, <3>3 DEF Inv, Chain, n
      <4> QED BY <1>9, <1>10, <3>1, <3>3, <4>1
    <3> QED BY <1>2, <3>2, <3>3
  <2>3. ASSUME NEW c, NEW q PROVE Fits(c, q)' <=> Fits(c, q)
    BY DEF Fits, Interproc
  <2> QED BY <1>9, <2>1, <2>2 DEF Chain, Fits, Interproc
<1>12. TypeOK'
  BY <1>1, <1>4, <1>6, <1>7, <1>9 DEF Inv, TypeOK, p
<1>13. Running'
  <2>1. frames' # <<>>
    BY <1>2, <1>9
  <2>2. pc'.part = "body" /\ pc'.proc = p /\ frames'[Len(frames')] = [proc |-> p, fp |-> a]
    BY <1>6, <1>9
  <2> QED BY <1>6, <2>1, <2>2 DEF Running, Reserve
<1> QED BY <1>11, <1>12, <1>13 DEF Inv

LEMMA SavedWords ==
  /\ \A x : "rbp" \in DOMAIN SavedRbp(x) /\ SavedRbp(x).rbp = x
  /\ \A x : "ret" \in DOMAIN RetTo(x) /\ RetTo(x).ret = x
BY DEF SavedRbp, RetTo

LEMMA GenRetInv ==
  ASSUME Inv, GenRet
  PROVE  Inv'
<1> DEFINE n == Len(frames)
<1>1. /\ n \in Nat /\ n \in 1 .. n /\ frames # <<>> /\ rbp \in Stack /\ rbp \in Int
      /\ frames[n] = [proc |-> pc.proc, fp |-> rbp] /\ pc.proc \in Procs
  BY BodyFacts DEF GenRet
<1>2. /\ mem[rbp] = SavedRbp(Below(n)) /\ mem[rbp + slot] = RetTo(Caller(n))
      /\ rbp + 2 * slot = IF n = 1 THEN 0 ELSE Bottom(n - 1)
  <2>1. frames[n].fp = rbp
    BY <1>1
  <2> QED BY <1>1, <2>1 DEF Inv, Chain
<1>3. Word(rbp) = SavedRbp(Below(n)) /\ Word(rbp + slot) = RetTo(Caller(n))
  <2>1. frames[n].fp + slot \in Stack
    BY <1>1, FrameFacts
  <2> QED BY <1>1, <1>2, <2>1 DEF Word
<1>4. /\ rsp' = rbp + 2 * slot /\ rbp' = Below(n)
      /\ pc' = IF Caller(n) = Entry THEN [part |-> "leave", proc |-> Entry]
                                   ELSE [part |-> "body", proc |-> Caller(n)]
      /\ frames' = SubSeq(frames, 1, n - 1) /\ mem' = mem
  BY <1>3, SavedWords DEF GenRet, At
<1>5. frames \in Seq([proc : Procs, fp : Stack]) /\ mem \in [Stack -> Words]
  BY DEF Inv, TypeOK
<1> HIDE DEF n
<1>6. /\ frames' \in Seq([proc : Procs, fp : Stack]) /\ Len(frames') = n - 1
      /\ \A k \in 1 .. n - 1 : frames'[k] = frames[k]
  <2>1. 1 \in Int /\ n - 1 \in Int
    BY <1>1
  <2>3. \A i \in 1 .. n - 1 : frames[i] \in [proc : Procs, fp : Stack]
    <3>1. ASSUME NEW i \in 1 .. n - 1
          PROVE  frames[i] \in [proc : Procs, fp : Stack]
      <4>1. i \in 1 .. n
        BY <1>1
      <4>2. i \in 1 .. Len(frames)
        BY <4>1 DEF n
      <4> QED BY <1>5, <4>2, ElementOfSeq
    <3> QED BY <3>1
  <2>2. /\ SubSeq(frames, 1, n - 1) \in Seq([proc : Procs, fp : Stack])
        /\ Len(SubSeq(frames, 1, n - 1)) = IF 1 <= n - 1 THEN (n - 1) - 1 + 1 ELSE 0
        /\ \A i \in 1 .. (n - 1) - 1 + 1 : SubSeq(frames, 1, n - 1)[i] = frames[1 + i - 1]
    BY <2>1, <2>3, SubSeqProperties
  <2> QED BY <1>1, <1>4, <2>2
<1>7. \A k \in 1 .. n - 1 : /\ Below(k)' = Below(k) /\ Caller(k)' = Caller(k)
                           /\ Bottom(k)' = Bottom(k)
  <2>1. \A k \in 1 .. n - 1 : k # 1 => k - 1 \in 1 .. n - 1
    BY <1>1
  <2>2. \A k \in 1 .. n - 1 : Below(k)' = Below(k) /\ Caller(k)' = Caller(k)
    BY <1>6, <2>1 DEF Below, Caller
  <2>3. \A k \in 1 .. n - 1 : Bottom(k)' = Bottom(k)
    BY <1>6 DEF Bottom, Reserve
  <2> QED BY <2>2, <2>3
<1>8. Chain'
  <2>1. ASSUME NEW k \in 1 .. n - 1
        PROVE  /\ mem'[frames'[k].fp] = SavedRbp(Below(k)')
               /\ mem'[frames'[k].fp + slot] = RetTo(Caller(k)')
               /\ frames'[k].fp + 2 * slot = IF k = 1 THEN 0 ELSE Bottom(k - 1)'
               /\ Bottom(k)' >= -(slot * StackSlots)
               /\ Fits(Caller(k)', frames'[k].proc)
    <3>1. k \in 1 .. Len(frames)
      BY <1>1 DEF n
    <3>2. /\ mem[frames[k].fp] = SavedRbp(Below(k))
          /\ mem[frames[k].fp + slot] = RetTo(Caller(k))
          /\ frames[k].fp + 2 * slot = IF k = 1 THEN 0 ELSE Bottom(k - 1)
          /\ Bottom(k) >= -(slot * StackSlots)
          /\ Fits(Caller(k), frames[k].proc)
      BY <3>1 DEF Inv, Chain
    <3>3. k # 1 => k - 1 \in 1 .. n - 1
      BY <1>1
    <3> QED BY <1>4, <1>6, <1>7, <3>2, <3>3
  <2>2. ASSUME NEW j \in 1 .. n - 1, NEW k \in 1 .. n - 1, j < k
        PROVE  frames'[k].fp + 2 * slot <= Bottom(j)'
    <3>1. j \in 1 .. Len(frames) /\ k \in 1 .. Len(frames)
      BY <1>1 DEF n
    <3>2. frames[k].fp + 2 * slot <= Bottom(j)
      BY <2>2, <3>1 DEF Inv, Chain
    <3> QED BY <1>6, <1>7, <3>2
  <2> QED BY <1>6, <2>1, <2>2 DEF Chain, Fits, Interproc
<1>9. CASE n = 1
  <2>1. frames' = <<>>
    BY <1>4, <1>9 DEF n
  <2>2. rsp' = 0 /\ rbp' = 0 /\ pc' = [part |-> "leave", proc |-> Entry]
    BY <1>2, <1>4, <1>9 DEF Below, Caller
  <2>3. Running'
    BY <2>1, <2>2 DEF Running
  <2>4. TypeOK'
    BY <1>4, <1>5, <1>6, <2>2 DEF TypeOK
  <2> QED BY <1>8, <2>3, <2>4 DEF Inv
<1>10. CASE n # 1
  <2>0. n - 1 \in 1 .. n - 1 /\ n - 1 \in 1 .. n /\ n - 1 >= 1
    BY <1>1, <1>10
  <2>1. n - 1 \in 1 .. n - 1 /\ n - 1 \in 1 .. Len(frames) /\ n - 1 >= 1
    BY <2>0 DEF n
  <2>2. /\ frames[n - 1].proc \in Procs /\ frames[n - 1].fp \in Stack
        /\ frames[n - 1] \in [proc : Procs, fp : Stack]
        /\ Bottom(n - 1) \in Int /\ Bottom(n - 1) <= frames[n - 1].fp
        /\ frames[n - 1].fp \in Int /\ frames[n - 1].fp < 0
    BY <1>5, <2>1, FrameFacts, ElementOfSeq
  <2>3. /\ Caller(n) = frames[n - 1].proc /\ Caller(n) # Entry /\ Below(n) = frames[n - 1].fp
    BY <1>10, <2>2, StackSize DEF Caller, Below
  <2>4. /\ pc' = [part |-> "body", proc |-> frames[n - 1].proc]
        /\ rbp' = frames[n - 1].fp /\ rsp' = Bottom(n - 1)
    BY <1>2, <1>4, <1>10, <2>3
  <2>5. Bottom(n - 1) \in Stack
    <3>1. Bottom(n - 1) >= -(slot * StackSlots)
      BY <2>1 DEF Inv, Chain
    <3>2. rbp + slot * 2 = Bottom(n - 1)
      BY <1>1, <1>2, <1>10 DEF slot
    <3>3. rbp + slot * 2 < 0 /\ rbp + slot * 2 >= -(slot * StackSlots)
      BY <2>2, <3>1, <3>2
    <3> QED BY <1>1, <3>2, <3>3, OnStack
  <2>6. frames' # <<>> /\ frames'[Len(frames')] = frames[n - 1]
    BY <1>1, <1>6, <2>1
  <2>7. Running'
    <3>1. frames[n - 1] = [proc |-> frames[n - 1].proc, fp |-> frames[n - 1].fp]
      BY <2>2
    <3>2. rsp' = rbp' - Reserve(frames[n - 1].proc)
      BY <2>4 DEF Bottom
    <3>3. pc'.part = "body" /\ pc'.proc = frames[n - 1].proc
      BY <2>4
    <3>4. /\ frames' # <<>> /\ frames'[Len(frames')] = [proc |-> pc'.proc, fp |-> rbp']
          /\ rsp' = rbp' - Reserve(pc'.proc)
      BY <2>4, <2>6, <3>1, <3>2, <3>3
    <3> QED BY <3>3, <3>4 DEF Running, Reserve
  <2>8. TypeOK'
    BY <1>4, <1>5, <1>6, <2>2, <2>4, <2>5 DEF TypeOK
  <2> QED BY <1>8, <2>7, <2>8 DEF Inv
<1> QED BY <1>9, <1>10

LEMMA GenExitInv ==
  ASSUME Inv, GenExit
  PROVE  Inv'
<1>1. /\ pc' = [part |-> "end", proc |-> pc.proc]
      /\ rsp' = rsp /\ rbp' = rbp /\ mem' = mem /\ frames' = frames
  BY DEF GenExit, At
<1>2. Chain'
  BY <1>1, ChainKept
<1>3. TypeOK' /\ Running'
  BY <1>1 DEF Inv, TypeOK, Running
<1> QED BY <1>2, <1>3 DEF Inv

LEMMA StutterInv ==
  ASSUME Inv, UNCHANGED vars
  PROVE  Inv'
<1>1. Chain'
  BY ChainKept DEF vars
<1>2. TypeOK'
  BY DEF Inv, TypeOK, vars
<1>3. Running'
  <2>1. TopOfStack' = TopOfStack /\ Below(Len(frames) + 1)' = Below(Len(frames) + 1)
        /\ Caller(Len(frames) + 1)' = Caller(Len(frames) + 1)
    BY ChainKept DEF vars
  <2> QED BY <2>1 DEF Inv, Running, vars, HasRoom, Reserve, Fits, Interproc
<1> QED BY <1>1, <1>2, <1>3 DEF Inv

LEMMA InitInv == Init => Inv
<1> SUFFICES ASSUME Init PROVE Inv
  OBVIOUS
<1>1. /\ rsp = 0 /\ rbp = 0 /\ frames = <<>> /\ mem = [a \in Stack |-> Zero]
      /\ pc = [part |-> "entry", proc |-> Entry]
  BY DEF Init, At
<1>2. frames \in Seq([proc : Procs, fp : Stack]) /\ Len(frames) = 0
  BY <1>1
<1>3. TypeOK
  BY <1>1, <1>2 DEF TypeOK, Words
<1>4. Chain
  BY <1>2 DEF Chain
<1>5. Running
  BY <1>1 DEF Running
<1> QED BY <1>3, <1>4, <1>5 DEF Inv

LEMMA Step == Inv /\ [Next]_vars => Inv'
<1> SUFFICES ASSUME Inv, [Next]_vars PROVE Inv'
  OBVIOUS
<1>1. CASE GenEntry
  BY <1>1, GenEntryInv
<1>2. CASE GenProc
  BY <1>2, GenProcInv
<1>3. CASE GenRet
  BY <1>3, GenRetInv
<1>4. CASE GenExit
  BY <1>4, GenExitInv
<1>5. CASE Finished \/ UNCHANGED vars
  BY <1>5, StutterInv DEF Finished
<1>6. CASE \E q \in Procs : GenCall(q)
  BY <1>6, GenCallInv
<1>7. CASE \E o \in UNION {Operands(p) : p \in Procs}, d \in Data : GenLoadStore(o, d)
  BY <1>7, GenLoadStoreInv
<1> QED BY <1>1, <1>2, <1>3, <1>4, <1>5, <1>6, <1>7 DEF Next

LEMMA Invariance == Spec => []Inv
BY InitInv, Step, PTL DEF Spec

-----------------------------------------------------------------------------
\* rsp and rbp stay on the stack, every word of it is one the code pushed or
\* stored, and every return goes to the code after a call: gen's prologue and
\* epilogue (genProc, genRet) for any program.
THEOREM TypeCorrect == Spec => []TypeOK
<1>1. Inv => TypeOK
  BY DEF Inv
<1> QED BY <1>1, Invariance, PTL

\* A body runs on the frame its own prologue made, and no slot it names is a
\* saved word or beyond the stack: the room genProc reserves is what the
\* formulas of stack.go use, at any depth of calls.
THEOREM FramesInPlace == Spec => []FrameInPlace
<1>1. ASSUME Inv PROVE FrameInPlace
  <2>1. CASE pc.part = "body"
    <3>1. /\ frames # <<>> /\ rsp = rbp - Reserve(pc.proc)
          /\ frames[Len(frames)] = [proc |-> pc.proc, fp |-> rbp]
          /\ Len(frames) \in 1 .. Len(frames)
      BY <1>1, <2>1, BodyFacts
    <3>2. ASSUME NEW o \in Operands(pc.proc)
          PROVE  LET ad == Address(pc.proc, rbp, o.class, o.i)
                 IN ad >= rsp /\ ad < 0 /\ ad \notin {rbp, rbp + slot}
      <4> DEFINE ad == Address(pc.proc, rbp, o.class, o.i)
      <4>1. /\ ad >= rsp /\ ad < 0
            /\ \A k \in 1 .. Len(frames) : ad # frames[k].fp /\ ad # frames[k].fp + slot
        BY <1>1, <2>1, StoreFacts
      <4>2. frames[Len(frames)].fp = rbp
        BY <3>1
      <4> HIDE DEF ad
      <4>3. ad \notin {rbp, rbp + slot}
        BY <3>1, <4>1, <4>2
      <4> QED BY <4>1, <4>3 DEF ad
    <3> QED BY <2>1, <3>1, <3>2 DEF FrameInPlace
  <2>2. CASE pc.part = "leave"
    BY <1>1, <2>2 DEF Inv, Running, FrameInPlace
  <2> QED BY <2>1, <2>2 DEF FrameInPlace
<1> QED BY <1>1, Invariance, PTL

-----------------------------------------------------------------------------
\* Frames implements Activations, for every program: the words on the
\* stack, read as the storage of the active procedures, change as storage
\* of their own would.
\*
\* Inv places the frames; here the slots in them
\* are told apart.  Every slot of every active frame has an address of its
\* own (OwnAddresses), so a store changes the one cell it names; what a
\* callee calls its argument is a cell of its caller (SharedSlot); and
\* what a call pushes is below all cells.

Own(p) == A!Cells(p)

CellAt(k, c)    == Address(frames[k].proc, frames[k].fp, c.class, c.i)
Activation(k)   == [proc |-> frames[k].proc, cells |-> [c \in Own(frames[k].proc) |-> Word(CellAt(k, c))]]
Activations     == [proc : Procs, cells : UNION {[Own(p) -> Words] : p \in Procs}]

\* Acts, without the choice of cells.
ActsShape == /\ Acts = [k \in 1 .. Len(frames) |-> Activation(k)]
             /\ Acts \in Seq(Activations)
             /\ Len(Acts) = Len(frames)

-----------------------------------------------------------------------------
\* Places in a frame.

\* How many slots under rbp a cell is.
Depth(p, c) == CASE c.class = "local"  -> 1 + c.i
                 [] c.class = "spill"  -> 1 + Shape[p].vars + c.i
                 [] c.class = "callee" -> Shape[p].vars + Shape[p].spills + Shape[p].callee - c.i

LEMMA OwnCells ==
  ASSUME NEW p \in Procs
  PROVE  Own(p) = {o \in Operands(p) : o.class # "caller"}
BY DEF Own, A!Cells, A!Slots, Operands

\* The cases of a cell.
LEMMA CellCases ==
  ASSUME NEW p \in Procs, NEW c \in Own(p)
  PROVE  /\ c = [class |-> c.class, i |-> c.i] /\ c.i \in Nat
         /\ \/ c.class = "local" /\ c.i < Shape[p].vars
            \/ c.class = "spill" /\ c.i < Shape[p].spills
            \/ c.class = "callee" /\ c.i < Shape[p].callee
<1>1. Shape[p].vars \in Nat /\ Shape[p].spills \in Nat /\ Shape[p].callee \in Nat
  BY ShapeFacts
<1> QED BY <1>1 DEF Own, A!Cells, A!Slots

LEMMA DepthFacts ==
  ASSUME NEW p \in Procs, NEW fp \in Int, NEW c \in Own(p)
  PROVE  /\ Depth(p, c) \in Nat /\ Depth(p, c) >= 1 /\ slot * Depth(p, c) <= Reserve(p)
         /\ Address(p, fp, c.class, c.i) = fp - slot * Depth(p, c)
<1>1. /\ Shape[p].vars \in Nat /\ Shape[p].spills \in Nat /\ Shape[p].callee \in Nat
      /\ Reserve(p) = slot * (Shape[p].vars + Shape[p].spills + Shape[p].callee)
  BY ShapeFacts
<1>2. c.i \in Nat
  BY CellCases
<1>3. CASE c.class = "local"
  <2>1. c.i < Shape[p].vars
    BY <1>3, CellCases
  <2>2. Depth(p, c) = 1 + c.i /\ Address(p, fp, c.class, c.i) = fp + Var(c.i)
    BY <1>3 DEF Depth, Address
  <2> QED BY <1>1, <1>2, <2>1, <2>2 DEF Var, slot
<1>4. CASE c.class = "spill"
  <2>1. c.i < Shape[p].spills
    BY <1>4, CellCases
  <2>2. /\ Depth(p, c) = 1 + Shape[p].vars + c.i
        /\ Address(p, fp, c.class, c.i) = fp + Spill(Shape[p].vars, c.i)
    BY <1>4 DEF Depth, Address
  <2> QED BY <1>1, <1>2, <2>1, <2>2 DEF Spill, slot
<1>5. CASE c.class = "callee"
  <2>1. c.i < Shape[p].callee
    BY <1>5, CellCases
  <2>2. /\ Depth(p, c) = Shape[p].vars + Shape[p].spills + Shape[p].callee - c.i
        /\ Address(p, fp, c.class, c.i)
             = fp + CallArg(Shape[p].vars, Shape[p].spills, Shape[p].callee, c.i)
    BY <1>5 DEF Depth, Address
  <2> QED BY <1>1, <1>2, <2>1, <2>2 DEF CallArg, slot
<1> QED BY <1>3, <1>4, <1>5, CellCases

\* The three areas of a frame do not overlap.
LEMMA SlotsApart ==
  ASSUME NEW p \in Procs, NEW b \in Own(p), NEW c \in Own(p), Depth(p, b) = Depth(p, c)
  PROVE  b = c
<1>1. Shape[p].vars \in Nat /\ Shape[p].spills \in Nat /\ Shape[p].callee \in Nat
  BY ShapeFacts
<1>2. /\ b.i \in Nat /\ c.i \in Nat
      /\ b = [class |-> b.class, i |-> b.i] /\ c = [class |-> c.class, i |-> c.i]
  BY CellCases
<1>3. /\ \/ b.class = "local" /\ b.i < Shape[p].vars
         \/ b.class = "spill" /\ b.i < Shape[p].spills
         \/ b.class = "callee" /\ b.i < Shape[p].callee
      /\ \/ c.class = "local" /\ c.i < Shape[p].vars
         \/ c.class = "spill" /\ c.i < Shape[p].spills
         \/ c.class = "callee" /\ c.i < Shape[p].callee
  BY CellCases
<1>4. b.class = c.class /\ b.i = c.i
  BY <1>1, <1>2, <1>3 DEF Depth
<1> QED BY <1>2, <1>4

\* A cell of an active procedure is on the stack, inside its frame.
LEMMA CellPlace ==
  ASSUME Inv, NEW k \in 1 .. Len(frames), NEW c \in Own(frames[k].proc)
  PROVE  /\ CellAt(k, c) \in Stack /\ CellAt(k, c) \in Int
         /\ CellAt(k, c) = frames[k].fp - slot * Depth(frames[k].proc, c)
         /\ Bottom(k) <= CellAt(k, c) /\ CellAt(k, c) < frames[k].fp
<1> DEFINE p == frames[k].proc
           d == Depth(p, c)
<1>1. /\ p \in Procs /\ frames[k].fp \in Stack /\ frames[k].fp \in Int /\ frames[k].fp < 0
      /\ Reserve(p) \in Nat /\ Bottom(k) \in Int
  BY FrameFacts
<1>2. /\ d \in Nat /\ d >= 1 /\ slot * d <= Reserve(p)
      /\ CellAt(k, c) = frames[k].fp - slot * d
  BY <1>1, DepthFacts DEF CellAt
<1>3. Bottom(k) >= -(slot * StackSlots) /\ StackSlots \in Nat
  BY StackSize DEF Inv, Chain
<1>4. Bottom(k) = frames[k].fp - Reserve(p)
  BY DEF Bottom
<1> HIDE DEF d, p
<1>5. /\ frames[k].fp + slot * (-d) = CellAt(k, c) /\ -d \in Int
      /\ CellAt(k, c) < 0 /\ CellAt(k, c) >= -(slot * StackSlots)
      /\ Bottom(k) <= CellAt(k, c) /\ CellAt(k, c) < frames[k].fp /\ CellAt(k, c) \in Int
  BY <1>1, <1>2, <1>3, <1>4 DEF slot
<1>6. CellAt(k, c) \in Stack
  BY <1>1, <1>5, OnStack
<1> QED BY <1>2, <1>5, <1>6 DEF d, p

\* No two cells of active procedures are at one address.
LEMMA OwnAddresses ==
  ASSUME Inv, NEW j \in 1 .. Len(frames), NEW b \in Own(frames[j].proc),
         NEW k \in 1 .. Len(frames), NEW c \in Own(frames[k].proc),
         CellAt(j, b) = CellAt(k, c)
  PROVE  j = k /\ b = c
<1>1. /\ frames[j].proc \in Procs /\ frames[j].fp \in Int /\ Bottom(j) \in Int
      /\ frames[k].proc \in Procs /\ frames[k].fp \in Int /\ Bottom(k) \in Int
  BY FrameFacts
<1>2. /\ j < k => frames[k].fp + 2 * slot <= Bottom(j)
      /\ k < j => frames[j].fp + 2 * slot <= Bottom(k)
  BY DEF Inv, Chain
<1>3. /\ CellAt(j, b) \in Int /\ Bottom(j) <= CellAt(j, b) /\ CellAt(j, b) < frames[j].fp
      /\ CellAt(k, c) \in Int /\ Bottom(k) <= CellAt(k, c) /\ CellAt(k, c) < frames[k].fp
  BY CellPlace
<1>4. j = k
  BY <1>1, <1>2, <1>3 DEF slot
<1>5. /\ Depth(frames[k].proc, b) \in Nat /\ Depth(frames[k].proc, c) \in Nat
      /\ CellAt(k, b) = frames[k].fp - slot * Depth(frames[k].proc, b)
      /\ CellAt(k, c) = frames[k].fp - slot * Depth(frames[k].proc, c)
  BY <1>1, <1>4, CellPlace, DepthFacts
<1>6. Depth(frames[k].proc, b) = Depth(frames[k].proc, c)
  BY <1>1, <1>4, <1>5 DEF slot
<1> QED BY <1>1, <1>4, <1>6, SlotsApart

-----------------------------------------------------------------------------
\* What the activations are.

\* Neither the cells of a procedure nor their places depend on the state.
LEMMA Fixed ==
  /\ \A p : Own(p)' = Own(p) /\ Reserve(p)' = Reserve(p)
  /\ \A p, fp, class, i : Address(p, fp, class, i)' = Address(p, fp, class, i)
BY DEF Own, A!Cells, A!Slots, Reserve, Address, Arg, Var, Spill, CallArg

LEMMA Shaped == Inv => ActsShape
<1> SUFFICES ASSUME Inv PROVE ActsShape
  OBVIOUS
<1>1. frames \in Seq([proc : Procs, fp : Stack]) /\ mem \in [Stack -> Words]
  BY DEF Inv, TypeOK
<1>2. Len(frames) \in Nat /\ DOMAIN frames = 1 .. Len(frames)
  BY <1>1, LenProperties
<1>3. \A k \in 1 .. Len(frames) : frames[k].proc \in Procs
  BY FrameFacts
<1>4. ASSUME NEW k \in 1 .. Len(frames)
      PROVE  Activation(k) \in Activations
  <2>1. \A c \in Own(frames[k].proc) : Word(CellAt(k, c)) \in Words
    BY <1>1, CellPlace DEF Word
  <2>2. [c \in Own(frames[k].proc) |-> Word(CellAt(k, c))] \in [Own(frames[k].proc) -> Words]
    BY <2>1
  <2> QED BY <1>3, <2>2 DEF Activation, Activations
<1>5. Acts = [k \in 1 .. Len(frames) |-> Activation(k)]
  BY <1>2, <1>3, OwnCells DEF Acts, Activation, CellAt
<1>6. Acts \in [1 .. Len(frames) -> Activations]
  BY <1>4, <1>5
<1>7. Acts \in Seq(Activations) /\ Len(Acts) = Len(frames)
  <2>1. Acts \in Seq(Activations)
    BY <1>2, <1>6, SeqDef
  <2>2. DOMAIN Acts = 1 .. Len(frames) /\ DOMAIN Acts = 1 .. Len(Acts) /\ Len(Acts) \in Nat
    BY <1>6, <2>1, LenProperties
  <2> QED BY <1>2, <2>1, <2>2
<1> QED BY <1>5, <1>7 DEF ActsShape

\* A step that leaves a frame and its words alone leaves the activation alone.
LEMMA ActivationKept ==
  ASSUME Inv, NEW k \in 1 .. Len(frames), frames'[k] = frames[k],
         \A c \in Own(frames[k].proc) : mem'[CellAt(k, c)] = mem[CellAt(k, c)]
  PROVE  Activation(k)' = Activation(k)
<1>1. \A c \in Own(frames[k].proc) : CellAt(k, c)' = CellAt(k, c) /\ CellAt(k, c) \in Stack
  BY Fixed, CellPlace DEF CellAt
<1>2. \A c \in Own(frames[k].proc) : Word(CellAt(k, c))' = Word(CellAt(k, c))
  BY <1>1 DEF Word
<1> QED BY <1>2, Fixed DEF Activation

LEMMA ActsKept ==
  ASSUME Inv, ActsShape', frames' = frames,
         \A k \in 1 .. Len(frames) : \A c \in Own(frames[k].proc) :
           mem'[CellAt(k, c)] = mem[CellAt(k, c)]
  PROVE  Acts' = Acts
<1>1. \A k \in 1 .. Len(frames) : Activation(k)' = Activation(k)
  BY ActivationKept
<1> QED BY <1>1, Shaped DEF ActsShape

\* A push below the frames is on no cell.
LEMMA PushKept ==
  ASSUME Inv, NEW a \in Int, a < TopOfStack, NEW w, mem' = [mem EXCEPT ![a] = w]
  PROVE  \A k \in 1 .. Len(frames) : \A c \in Own(frames[k].proc) :
           mem'[CellAt(k, c)] = mem[CellAt(k, c)]
<1> SUFFICES ASSUME NEW k \in 1 .. Len(frames), NEW c \in Own(frames[k].proc)
             PROVE  mem'[CellAt(k, c)] = mem[CellAt(k, c)]
  OBVIOUS
<1>1. mem \in [Stack -> Words]
  BY DEF Inv, TypeOK
<1>2. CellAt(k, c) \in Stack /\ CellAt(k, c) \in Int /\ Bottom(k) <= CellAt(k, c)
  BY CellPlace
<1>3. Bottom(k) \in Int /\ Bottom(k) >= TopOfStack /\ TopOfStack \in Int
  BY FrameFacts, TopFacts
<1> QED BY <1>1, <1>2, <1>3

-----------------------------------------------------------------------------
\* Steps.

\* The running procedure is the last activation.
LEMMA RunningFacts ==
  ASSUME Inv, pc.part = "body"
  PROVE  /\ State = "running" /\ Acts # <<>> /\ Len(Acts) = Len(frames)
         /\ A!Running = pc.proc
<1>1. /\ frames # <<>> /\ Len(frames) \in Nat /\ Len(frames) \in 1 .. Len(frames)
      /\ frames[Len(frames)].proc = pc.proc
  BY BodyFacts
<1>2. Acts = [k \in 1 .. Len(frames) |-> Activation(k)] /\ Len(Acts) = Len(frames)
  BY Shaped DEF ActsShape
<1>3. Len(Acts) # 0
  BY <1>1, <1>2
<1>4. Acts # <<>>
  BY <1>3
<1>5. Acts[Len(Acts)].proc = pc.proc
  BY <1>1, <1>2 DEF Activation
<1>6. State = "running"
  BY DEF State
<1> QED BY <1>2, <1>4, <1>5, <1>6 DEF A!Running

LEMMA EmitCallStutters ==
  ASSUME Inv, ActsShape', NEW q, EmitCall(q), rsp = TopOfStack,
         (pc.part = "entry" /\ frames = <<>>) \/ (pc.part = "body" /\ frames # <<>>)
  PROVE  Acts' = Acts /\ State' = State
<1>1. /\ mem' = [mem EXCEPT ![rsp - slot] = RetTo(pc.proc)] /\ frames' = frames
      /\ pc'.part = "called"
  BY DEF EmitCall, At
<1>2. rsp - slot \in Int /\ rsp - slot < TopOfStack
  BY TopFacts DEF slot
<1>3. Acts' = Acts
  BY <1>1, <1>2, PushKept, ActsKept
<1>4. State' = State
  BY <1>1 DEF State
<1> QED BY <1>3, <1>4

\* The prologue makes the new activation, whose cells hold what the stack held.
LEMMA GenProcPushes ==
  ASSUME Inv, ActsShape', GenProc
  PROVE  A!Start \/ A!Body
<1> DEFINE a == rsp - slot
           n == Len(frames)
           p == pc.proc
<1>1. /\ p \in Procs /\ rsp = TopOfStack - slot /\ Fits(Caller(n + 1), p)
  BY DEF GenProc, Inv, Running
<1>2. /\ frames \in Seq([proc : Procs, fp : Stack]) /\ n \in Nat
      /\ rsp \in Stack \cup {0}
  BY LenProperties DEF Inv, TypeOK
<1>3. a \in Int /\ a < TopOfStack
  BY <1>1, TopFacts DEF slot
<1>4. /\ mem' = [mem EXCEPT ![a] = SavedRbp(rbp)]
      /\ pc' = [part |-> "body", proc |-> p]
      /\ frames' = Append(frames, [proc |-> p, fp |-> a])
  BY DEF GenProc, At
<1> HIDE DEF a, p
<1>5. /\ Len(frames') = n + 1 /\ frames'[n + 1].proc = p
      /\ \A k \in 1 .. n : frames'[k] = frames[k]
  BY <1>2, <1>4
<1>6. \A k \in 1 .. n : Activation(k)' = Activation(k)
  BY <1>3, <1>4, <1>5, PushKept, ActivationKept
<1>7. /\ Acts \in Seq(Activations) /\ Len(Acts) = n
      /\ Acts = [k \in 1 .. n |-> Activation(k)]
  BY Shaped DEF ActsShape
<1>8. /\ Acts' \in Seq(Activations) /\ Len(Acts') = n + 1
      /\ Acts' = [k \in 1 .. n + 1 |-> Activation(k)']
  <2>1. /\ Acts' \in Seq(Activations') /\ Len(Acts') = n + 1
        /\ Acts' = [k \in 1 .. n + 1 |-> Activation(k)']
    BY <1>5 DEF ActsShape
  <2>2. Activations' = Activations
    BY Fixed DEF Activations, Words
  <2> QED BY <2>1, <2>2
<1> HIDE DEF n
<1>9. A!Front(Acts') = Acts
  <2>1. \A i \in 1 .. n : Acts'[i] \in Activations /\ Acts'[i] = Acts[i]
    <3> SUFFICES ASSUME NEW i \in 1 .. n PROVE Acts'[i] \in Activations /\ Acts'[i] = Acts[i]
      OBVIOUS
    <3>1. i \in 1 .. Len(Acts') /\ i \in 1 .. n + 1
      BY <1>2, <1>8
    <3> QED BY <1>6, <1>7, <1>8, <3>1, ElementOfSeq
  <2>2. /\ SubSeq(Acts', 1, n) \in Seq(Activations)
        /\ Len(SubSeq(Acts', 1, n)) = IF 1 <= n THEN n - 1 + 1 ELSE 0
        /\ \A i \in 1 .. n - 1 + 1 : SubSeq(Acts', 1, n)[i] = Acts'[1 + i - 1]
    BY <1>2, <2>1, SubSeqProperties
  <2>3. Len(SubSeq(Acts', 1, n)) = n /\ \A i \in 1 .. n : SubSeq(Acts', 1, n)[i] = Acts[i]
    BY <1>2, <2>1, <2>2
  <2>4. SubSeq(Acts', 1, n) = Acts
    BY <1>7, <2>2, <2>3, SeqEqual
  <2>5. Len(Acts') - 1 = n
    BY <1>2, <1>8
  <2> QED BY <2>4, <2>5, Zenon DEF A!Front
<1>10. A!Last(Acts') \in [proc : {p}, cells : [Own(p) -> Words]]
  <2>1. ASSUME NEW k, k = n + 1
        PROVE  Acts'[k] \in [proc : {p}, cells : [Own(p) -> Words]]
    <3>1. k \in 1 .. n + 1
      BY <1>2, <2>1
    <3>2. Acts'[k] = Activation(k)' /\ Acts'[k] \in Activations
      BY <1>8, <3>1, ElementOfSeq
    <3>3. Activation(k)' = [proc |-> p, cells |-> [c \in Own(p) |-> Word(CellAt(k, c))']]
      BY <1>5, <2>1, Fixed DEF Activation
    <3>4. PICK q \in Procs : Acts'[k].cells \in [Own(q) -> Words]
      BY <3>2 DEF Activations
    <3>5. Acts'[k].cells \in [Own(p) -> Words]
      BY <3>2, <3>3, <3>4
    <3> QED BY <3>2, <3>3, <3>5
  <2> QED BY <1>8, <2>1 DEF A!Last
<1>11. A!Push(p)
  BY <1>7, <1>8, <1>9, <1>10 DEF A!Push, Own
<1>12. State' = "running"
  BY <1>4 DEF State
<1>13. CASE frames = <<>>
  <2>1. p = Main
    BY <1>1, <1>2, <1>13 DEF Fits, Caller, n
  <2>2. State = "start"
    BY <1>13 DEF State, GenProc
  <2> QED BY <1>11, <1>12, <2>1, <2>2 DEF A!Start
<1>14. CASE frames # <<>>
  <2>1. n >= 1 /\ n \in 1 .. n
    BY <1>2, <1>14 DEF n
  <2>2. Caller(n + 1) = frames[n].proc /\ frames[n].proc \in Procs
    BY <1>2, <2>1, FrameFacts DEF Caller, n
  <2>3. A!Running = frames[n].proc
    BY <1>7, <2>1 DEF A!Running, Activation
  <2>4. A!MayCall(A!Running, p)
    BY <1>1, <2>2, <2>3, StackSize DEF A!MayCall, Fits, A!Interproc, Interproc
  <2>5. State = "running"
    BY <1>14 DEF State, GenProc
  <2>6. Acts # <<>>
    <3>1. Len(Acts) # 0
      BY <1>7, <2>1
    <3> QED BY <3>1
  <2> QED BY <1>1, <1>11, <1>12, <2>4, <2>5, <2>6 DEF A!Body, A!Call
<1> QED BY <1>13, <1>14

\* A store into a cell of an active procedure changes that cell and no other.
Stored(a, w)     == [mem EXCEPT ![a] = w]
Written(k, b, w) == [Acts EXCEPT ![k].cells[b] = w]

LEMMA CellWritten ==
  ASSUME Inv, ActsShape', frames' = frames,
         NEW k \in 1 .. Len(frames), NEW b \in Own(frames[k].proc), NEW w,
         mem' = Stored(CellAt(k, b), w)
  PROVE  Acts' = Written(k, b, w)
<1> USE DEF Stored, Written
<1>1. mem \in [Stack -> Words]
  BY DEF Inv, TypeOK
<1>2. /\ Acts = [j \in 1 .. Len(frames) |-> Activation(j)]
      /\ Acts' = [j \in 1 .. Len(frames) |-> Activation(j)']
  BY Shaped DEF ActsShape
<1>3. ASSUME NEW j \in 1 .. Len(frames), NEW c \in Own(frames[j].proc), ~(j = k /\ c = b)
      PROVE  mem'[CellAt(j, c)] = mem[CellAt(j, c)]
  <2>1. CellAt(j, c) # CellAt(k, b)
    BY <1>3, OwnAddresses
  <2> QED BY <1>1, <2>1, CellPlace
<1>4. ASSUME NEW j \in 1 .. Len(frames), j # k
      PROVE  Activation(j)' = Activation(j)
  BY <1>3, <1>4, ActivationKept
<1>5. Activation(k)' = [Activation(k) EXCEPT !.cells[b] = w]
  <2>1. /\ Activation(k) = [proc |-> frames[k].proc,
                            cells |-> [c \in Own(frames[k].proc) |-> Word(CellAt(k, c))]]
        /\ Activation(k)' = [proc |-> frames[k].proc,
                             cells |-> [c \in Own(frames[k].proc) |-> Word(CellAt(k, c))']]
    BY Fixed DEF Activation
  <2>2. ASSUME NEW c \in Own(frames[k].proc)
        PROVE  /\ CellAt(k, c)' = CellAt(k, c) /\ CellAt(k, c) \in Stack
               /\ Word(CellAt(k, c))' = mem'[CellAt(k, c)]
               /\ Word(CellAt(k, c)) = mem[CellAt(k, c)]
    BY Fixed, CellPlace DEF CellAt, Word
  <2>3. \A c \in Own(frames[k].proc) :
          Word(CellAt(k, c))' = IF c = b THEN w ELSE Word(CellAt(k, c))
    BY <1>1, <1>3, <2>2
  <2> QED BY <2>1, <2>3
<1> QED BY <1>2, <1>4, <1>5

\* What a body calls its argument or result is a callee slot of its caller.
LEMMA SharedSlot ==
  ASSUME Inv, pc.part = "body", NEW o \in Operands(pc.proc), o.class = "caller"
  PROVE  LET n == Len(frames)
             b == [class |-> "callee", i |-> o.i]
         IN /\ o.i \in 0 .. Interproc(pc.proc) - 1
            /\ n > 1 /\ n - 1 \in 1 .. n
            /\ b \in Own(frames[n - 1].proc)
            /\ Address(pc.proc, rbp, o.class, o.i) = CellAt(n - 1, b)
<1> DEFINE n == Len(frames)
           b == [class |-> "callee", i |-> o.i]
<1>1. /\ n \in Nat /\ n \in 1 .. n /\ frames[n] = [proc |-> pc.proc, fp |-> rbp]
      /\ pc.proc \in Procs /\ rbp \in Int /\ Interproc(pc.proc) \in Nat
  BY BodyFacts, ShapeFacts
<1>2. o.i \in 0 .. Interproc(pc.proc) - 1 /\ o.i \in Nat /\ o.i < Interproc(pc.proc)
  <2>1. o.i \in 0 .. Interproc(pc.proc) - 1
    BY <1>1, Addresses
  <2> QED BY <1>1, <2>1
<1>3. Fits(Caller(n), pc.proc)
  <2>1. frames[n].proc = pc.proc
    BY <1>1
  <2> QED BY <1>1, <2>1 DEF Inv, Chain
<1>4. n # 1
  BY <1>2, <1>3, MainFacts DEF Fits, Caller
<1>5. n > 1 /\ n - 1 \in 1 .. n
  <2> HIDE DEF n
  <2> QED BY <1>1, <1>4
<1> DEFINE c == frames[n - 1].proc
<1>6. c \in Procs /\ frames[n - 1].fp \in Int /\ Interproc(pc.proc) <= Shape[c].callee
  BY <1>3, <1>4, <1>5, FrameFacts, StackSize DEF Fits, Caller
<1>7. frames[n].fp + 2 * slot = frames[n - 1].fp - Reserve(c)
  BY <1>1, <1>4 DEF Inv, Chain, Bottom
<1>8. rbp + 2 * slot = frames[n - 1].fp - Reserve(c)
  BY <1>1, <1>7
<1> HIDE DEF n, c
<1>9. b \in Own(c)
  <2>1. Shape[c].callee \in Nat
    BY <1>6, ShapeFacts
  <2>2. o.i \in 0 .. Shape[c].callee - 1
    BY <1>1, <1>2, <1>6, <2>1
  <2> QED BY <2>2 DEF Own, A!Cells, A!Slots
<1>10. Address(pc.proc, rbp, o.class, o.i) = Address(c, frames[n - 1].fp, "callee", o.i)
  <2>1. rbp + Arg(o.i) = frames[n - 1].fp
                           + CallArg(Shape[c].vars, Shape[c].spills, Shape[c].callee, o.i)
    BY <1>1, <1>2, <1>6, <1>8, ParamsMeet
  <2> QED BY <2>1 DEF Address
<1> QED BY <1>2, <1>5, <1>9, <1>10 DEF n, c, CellAt

LEMMA GenLoadStoreWrites ==
  ASSUME Inv, ActsShape', NEW o, NEW d \in Data, GenLoadStore(o, d)
  PROVE  A!Body
<1> DEFINE n == Len(frames)
<1>1. /\ pc.part = "body" /\ o \in Operands(pc.proc) /\ frames' = frames /\ pc' = pc
      /\ mem' = [mem EXCEPT ![Address(pc.proc, rbp, o.class, o.i)] = Datum(d)]
  BY DEF GenLoadStore
<1>2. /\ State = "running" /\ Acts # <<>> /\ Len(Acts) = n /\ A!Running = pc.proc
  BY <1>1, RunningFacts
<1>3. /\ n \in 1 .. n /\ n \in Nat /\ frames[n] = [proc |-> pc.proc, fp |-> rbp]
      /\ pc.proc \in Procs
  BY <1>1, BodyFacts
<1>4. State' = State
  BY <1>1 DEF State
<1>5. CASE o.class # "caller"
  <2>1. o \in Own(pc.proc)
    BY <1>1, <1>3, <1>5, OwnCells
  <2>2. CellAt(n, o) = Address(pc.proc, rbp, o.class, o.i) /\ frames[n].proc = pc.proc
    BY <1>3 DEF CellAt
  <2>3. Acts' = [Acts EXCEPT ![n].cells[o] = Datum(d)]
    <3>1. mem' = Stored(CellAt(n, o), Datum(d))
      BY <1>1, <2>2 DEF Stored
    <3>2. o \in Own(frames[n].proc)
      BY <2>1, <2>2
    <3>3. Acts' = Written(n, o, Datum(d))
      BY <1>1, <1>3, <3>1, <3>2, CellWritten
    <3> QED BY <3>3 DEF Written
  <2>4. A!Write(o, Datum(d))
    BY <1>2, <1>4, <2>3 DEF A!Write
  <2> QED BY <1>2, <2>1, <2>4 DEF A!Body, Own
<1>6. CASE o.class = "caller"
  <2> DEFINE b == [class |-> "callee", i |-> o.i]
  <2>1. /\ o.i \in 0 .. Interproc(pc.proc) - 1
        /\ n > 1 /\ n - 1 \in 1 .. n
        /\ b \in Own(frames[n - 1].proc)
        /\ Address(pc.proc, rbp, o.class, o.i) = CellAt(n - 1, b)
    BY <1>1, <1>6, SharedSlot
  <2>2. Acts' = [Acts EXCEPT ![n - 1].cells[b] = Datum(d)]
    <3> HIDE DEF b
    <3>1. mem' = Stored(CellAt(n - 1, b), Datum(d))
      BY <1>1, <2>1 DEF Stored
    <3>2. Acts' = Written(n - 1, b, Datum(d))
      BY <1>1, <2>1, <3>1, CellWritten
    <3> QED BY <3>2 DEF Written
  <2>3. A!WriteInterproc(o.i, Datum(d))
    BY <1>2, <1>4, <2>1, <2>2 DEF A!WriteInterproc
  <2>4. o.i \in 0 .. A!Interproc(A!Running) - 1
    BY <1>2, <2>1 DEF A!Interproc, Interproc
  <2> QED BY <1>2, <2>3, <2>4 DEF A!Body
<1> QED BY <1>5, <1>6

LEMMA GenRetReturns ==
  ASSUME Inv, Inv', ActsShape', GenRet
  PROVE  A!Body
<1> DEFINE n == Len(frames)
<1>1. /\ pc.part = "body" /\ mem' = mem /\ frames' = SubSeq(frames, 1, n - 1)
      /\ pc'.part \in {"body", "leave", "wild"}
  BY DEF GenRet, At
<1>2. /\ State = "running" /\ Acts # <<>> /\ Len(Acts) = n
      /\ n \in Nat /\ n \in 1 .. n
  BY <1>1, RunningFacts, BodyFacts
<1>3. State' = "running"
  BY <1>1 DEF State
<1>4. frames \in Seq([proc : Procs, fp : Stack])
  BY DEF Inv, TypeOK
<1> HIDE DEF n
<1>5. Len(frames') = n - 1 /\ \A k \in 1 .. n - 1 : frames'[k] = frames[k]
  <2>1. \A i \in 1 .. n - 1 : frames[i] \in [proc : Procs, fp : Stack]
    <3> SUFFICES ASSUME NEW i \in 1 .. n - 1 PROVE frames[i] \in [proc : Procs, fp : Stack]
      OBVIOUS
    <3>1. i \in 1 .. Len(frames)
      BY <1>2 DEF n
    <3> QED BY <1>4, <3>1, ElementOfSeq
  <2>2. /\ Len(SubSeq(frames, 1, n - 1)) = IF 1 <= n - 1 THEN n - 1 - 1 + 1 ELSE 0
        /\ \A i \in 1 .. n - 1 - 1 + 1 : SubSeq(frames, 1, n - 1)[i] = frames[1 + i - 1]
    BY <1>2, <2>1, SubSeqProperties
  <2> QED BY <1>1, <1>2, <2>2
<1>6. /\ Acts \in Seq(Activations)
      /\ Acts = [k \in 1 .. n |-> Activation(k)]
  BY Shaped DEF ActsShape, n
<1>7. /\ Acts' \in Seq(Activations) /\ Len(Acts') = n - 1
      /\ Acts' = [k \in 1 .. n - 1 |-> Activation(k)']
  <2>1. /\ Acts' \in Seq(Activations') /\ Len(Acts') = n - 1
        /\ Acts' = [k \in 1 .. n - 1 |-> Activation(k)']
    BY <1>5 DEF ActsShape
  <2>2. Activations' = Activations
    BY Fixed DEF Activations, Words
  <2> QED BY <2>1, <2>2
<1>8. ASSUME NEW k \in 1 .. n - 1
      PROVE  Acts'[k] = Acts[k] /\ Acts[k] \in Activations
  <2>1. k \in 1 .. n /\ k \in 1 .. Len(frames) /\ k \in 1 .. Len(Acts)
    BY <1>2 DEF n
  <2>2. Activation(k)' = Activation(k)
    BY <1>1, <1>5, <2>1, ActivationKept
  <2> QED BY <1>6, <1>7, <2>1, <2>2, ElementOfSeq
<1>9. A!Front(Acts) = Acts'
  <2>1. /\ SubSeq(Acts, 1, n - 1) \in Seq(Activations)
        /\ Len(SubSeq(Acts, 1, n - 1)) = IF 1 <= n - 1 THEN n - 1 - 1 + 1 ELSE 0
        /\ \A i \in 1 .. n - 1 - 1 + 1 : SubSeq(Acts, 1, n - 1)[i] = Acts[1 + i - 1]
    BY <1>2, <1>8, SubSeqProperties
  <2>2. /\ Len(SubSeq(Acts, 1, n - 1)) = n - 1
        /\ \A i \in 1 .. n - 1 : SubSeq(Acts, 1, n - 1)[i] = Acts'[i]
    BY <1>2, <1>8, <2>1
  <2>3. SubSeq(Acts, 1, n - 1) = Acts'
    BY <1>7, <2>1, <2>2, SeqEqual
  <2> QED BY <1>2, <2>3, Zenon DEF A!Front
<1> QED BY <1>2, <1>3, <1>9 DEF A!Body, A!Return

LEMMA GenExitExits ==
  ASSUME Inv, ActsShape', GenExit
  PROVE  A!Exit
<1>1. /\ pc.part \in {"body", "leave"} /\ pc'.part = "end"
      /\ frames' = frames /\ mem' = mem
  BY DEF GenExit, At
<1>2. Acts' = Acts
  BY <1>1, ActsKept
<1>3. State = "running" /\ State' = "exited"
  BY <1>1 DEF State
<1> QED BY <1>2, <1>3 DEF A!Exit

-----------------------------------------------------------------------------
LEMMA Begins == Init => A!Init
<1> SUFFICES ASSUME Init PROVE A!Init
  OBVIOUS
<1>1. Acts = <<>>
  <2>1. ActsShape /\ Len(frames) = 0
    BY InitInv, Shaped DEF Init
  <2> QED BY <2>1 DEF ActsShape
<1>2. State = "start"
  BY DEF Init, State, At
<1> QED BY <1>1, <1>2 DEF A!Init

LEMMA Simulates == Inv /\ Inv' /\ ActsShape' /\ [Next]_vars => [A!Next]_(A!actVars)
<1> SUFFICES ASSUME Inv, Inv', ActsShape', [Next]_vars
             PROVE  A!Next \/ (Acts' = Acts /\ State' = State)
  BY DEF A!actVars
<1>1. CASE GenEntry
  <2>1. EmitCall(Main) /\ pc.part = "entry"
    BY <1>1 DEF GenEntry
  <2>2. frames = <<>> /\ rsp = 0
    BY <2>1 DEF Inv, Running
  <2>3. rsp = TopOfStack
    BY <2>2 DEF TopOfStack
  <2>4. (pc.part = "entry" /\ frames = <<>>) \/ (pc.part = "body" /\ frames # <<>>)
    BY <2>1, <2>2
  <2> QED BY <2>1, <2>3, <2>4, EmitCallStutters
<1>2. CASE GenProc
  BY <1>2, GenProcPushes DEF A!Next
<1>3. CASE GenRet
  BY <1>3, GenRetReturns DEF A!Next
<1>4. CASE GenExit
  BY <1>4, GenExitExits DEF A!Next
<1>5. CASE Finished \/ UNCHANGED vars
  <2>1. frames' = frames /\ mem' = mem /\ pc' = pc
    BY <1>5 DEF Finished, vars
  <2>2. Acts' = Acts
    BY <2>1, ActsKept
  <2> QED BY <2>1, <2>2 DEF State
<1>6. CASE \E q \in Procs : GenCall(q)
  <2>1. PICK q \in Procs : GenCall(q)
    BY <1>6
  <2>2. EmitCall(q) /\ pc.part = "body" /\ frames # <<>> /\ rsp = TopOfStack
    BY <2>1, BodyFacts DEF GenCall
  <2> QED BY <2>2, EmitCallStutters
<1>7. CASE \E o \in UNION {Operands(p) : p \in Procs}, d \in Data : GenLoadStore(o, d)
  BY <1>7, GenLoadStoreWrites DEF A!Next
<1> QED BY <1>1, <1>2, <1>3, <1>4, <1>5, <1>6, <1>7 DEF Next

\* The code gen emits for calls keeps the promise of the calling convention,
\* for every program, every order of calls and every stack: each active
\* procedure has its slots to itself, a callee finds its arguments in the
\* slots its caller filled and leaves its results there, a return continues
\* the caller with its slots as they were (genProc, genCall, genRet).
THEOREM Refines == Spec => Implements
<1>1. Inv => ActsShape
  BY Shaped
<1> QED BY <1>1, Begins, Simulates, Invariance, PTL DEF Spec, Implements, A!Spec

=============================================================================

--------------------------- MODULE TestingProofs ----------------------------
(***************************************************************************)
(* What the test runner promises, for every tree of test folders and any   *)
(* behaviour of the tests: a verdict is right whichever of a process and   *)
(* its timer comes first, nothing a test made outlives it, and a callback  *)
(* that comes late kills nothing.                                          *)
(*                                                                         *)
(* The invariant says of each file how far it is: not reached (Fresh), in  *)
(* the running call of Test (Now), or behind it (Past).  That a file is    *)
(* not reached when Test is called on it needs the order of the walk       *)
(* (InOrder): what is still to be visited comes after what was.            *)
(***************************************************************************)
EXTENDS Testing, SequenceTheorems, FiniteSetTheorems, TLAPS

Results == [file : Files \cup {NoName}, ok : BOOLEAN, message : {"empty", "nothing", "code", "internal", "os"}]

Calling == {"stage", "assemble", "start", "arm", "wait", "stop", "return"}

Types ==
  /\ suite \in Suites
  /\ todo \in Seq(Entries(suite))
  /\ tested \in Seq(Files)
  /\ results \in Seq(Results)
  /\ pc \in {"walk"} \cup Calling \cup Over
  /\ proc \in [Files -> {"none", "running", "ended", "reaped"}]
  /\ status \in [Files -> {"none", "zero", "nonzero", "killed"}]
  /\ timer \in [Files -> {"none", "armed", "firing", "fired", "stopped"}]
  /\ Len(results) = Len(tested) - (IF pc \in {"walk"} \cup Over THEN 0 ELSE 1)

InOrder ==
  /\ \A i, j \in DOMAIN todo : i < j => LastLine(suite, todo[i]) < FirstLine(suite, todo[j])
  /\ \A k \in DOMAIN tested : \A i \in DOMAIN todo :
       Of(tested[k]).line < FirstLine(suite, todo[i])
  /\ \A k, l \in DOMAIN tested : k < l => Of(tested[k]).line < Of(tested[l]).line

Untouched(f) == proc[f] = "none" /\ status[f] = "none" /\ timer[f] = "none"

Fresh == \A f \in Files : (\A k \in DOMAIN tested : tested[k] # f) => Untouched(f)

Past == \A i \in DOMAIN results : proc[tested[i]] \in {"none", "reaped"}

\* Where the running call of Test is.
Now ==
  /\ pc \in {"walk"} \cup Over => disk = {}
  /\ pc = "stage" => disk = {} /\ Untouched(file)
  /\ pc = "assemble" => disk = {Temp} /\ Untouched(file) /\ Of(file).stage = "binary"
  /\ pc = "start" => disk = {Out(file)} /\ Untouched(file) /\ Of(file).stage = "binary"
  /\ pc \in {"arm", "wait", "stop", "return"} => disk = {Out(file)} /\ Of(file).stage = "binary"
  /\ pc = "arm" => timer[file] = "none"
  /\ pc \in {"arm", "wait"} => proc[file] \in {"running", "ended"}
  /\ pc \in {"stop", "return"} => proc[file] = "reaped"

\* A process has a status when it has ended, and its timer is armed once it runs.
Ends == \A f \in Files : status[f] = "none" <=> proc[f] \in {"none", "running"}

\* A result is right for a file that keeps the promise of its name.
Right(f, ok) == KeepsPromise(Of(f)) => (ok <=> DidAsNamed(f))

Judged == \A i \in DOMAIN results : Right(tested[i], results[i].ok)

Inv == Types /\ InOrder /\ Fresh /\ Past /\ Now /\ Ends /\ Judged

-----------------------------------------------------------------------------
\* The running call of Test is the last, and the only one without a result.
LEMMA Running ==
  ASSUME Types, InOrder, pc \in Calling
  PROVE  /\ Len(tested) \in Nat \ {0} /\ Len(tested) \in DOMAIN tested
         /\ Len(tested) = Len(results) + 1
         /\ file = tested[Len(tested)] /\ file \in Files
         /\ \A i \in DOMAIN results : i \in DOMAIN tested /\ tested[i] # file
<1>1. Len(tested) \in Nat /\ Len(results) \in Nat /\ DOMAIN tested = 1 .. Len(tested)
        /\ DOMAIN results = 1 .. Len(results)
  BY LenProperties DEF Types
<1>2. Len(results) = Len(tested) - 1
  BY DEF Types, Calling, Over
<1>3. Len(tested) \in DOMAIN tested /\ Len(tested) # 0
  BY <1>1, <1>2
<1>4. tested[Len(tested)] \in Files
  BY <1>3, ElementOfSeq, <1>1 DEF Types
<1>5. file = tested[Len(tested)]
  BY DEF Last, file
<1>6. ASSUME NEW i \in DOMAIN results
      PROVE  i \in DOMAIN tested /\ tested[i] # file
  <2>1. i \in DOMAIN tested /\ i < Len(tested)
    BY <1>1, <1>2
  <2>2. Of(tested[i]).line < Of(file).line
    BY <2>1, <1>3, <1>5 DEF InOrder
  <2>3. Of(file).line \in Nat
    BY <1>4, <1>5, SuitesShape DEF Types, IsTree, Of, Files
  <2> QED BY <2>1, <2>2, <2>3
<1> QED BY <1>1, <1>2, <1>3, <1>4, <1>5, <1>6

\* A process that has not been reaped is the one of the running call.
LEMMA OnlyRunning ==
  ASSUME Inv, NEW f \in Files, proc[f] \in {"running", "ended"}
  PROVE  f = file /\ pc \in {"arm", "wait"}
<1>1. Len(tested) \in Nat /\ Len(results) \in Nat
        /\ DOMAIN tested = 1 .. Len(tested) /\ DOMAIN results = 1 .. Len(results)
  BY LenProperties DEF Inv, Types
<1>2. PICK k \in DOMAIN tested : tested[k] = f
  BY DEF Inv, Fresh, Untouched
<1>3. k \notin DOMAIN results
  BY <1>2 DEF Inv, Past
<1>4. ~(pc \in {"walk"} \cup Over)
  <2>1. SUFFICES ASSUME pc \in {"walk"} \cup Over PROVE FALSE
    OBVIOUS
  <2>2. Len(results) = Len(tested)
    BY <1>1, <2>1 DEF Inv, Types
  <2> QED BY <1>1, <1>2, <1>3, <2>2
<1>5. pc \in Calling
  BY <1>4 DEF Inv, Types
<1>6. Len(tested) = Len(results) + 1 /\ file = tested[Len(tested)]
  BY <1>5, Running DEF Inv
<1>7. k = Len(tested)
  BY <1>1, <1>2, <1>3, <1>6
<1>8. f = file
  BY <1>2, <1>6, <1>7
<1>9. pc \in {"arm", "wait"}
  BY <1>5, <1>8 DEF Inv, Now, Calling, Untouched
<1> QED BY <1>8, <1>9

-----------------------------------------------------------------------------
THEOREM Begins == Init => Inv
<1> SUFFICES ASSUME Init PROVE Inv
  OBVIOUS
<1>1. IsTree(suite)
  BY SuitesShape DEF Init
<1>2. todo \in Seq(Entries(suite)) /\ Len(todo) = 1 /\ DOMAIN todo = 1 .. 1
  BY <1>1 DEF Init, IsTree, Entries, Dir
<1>3. /\ tested = <<>> /\ results = <<>> /\ Len(tested) = 0 /\ Len(results) = 0
      /\ tested \in Seq(Files) /\ results \in Seq(Results)
      /\ DOMAIN tested = {} /\ DOMAIN results = {}
  BY DEF Init
<1>4. Types
  BY <1>2, <1>3 DEF Init, Types
<1>5. InOrder
  BY <1>2, <1>3 DEF InOrder
<1>6. Fresh /\ Past /\ Ends
  BY <1>3 DEF Init, Fresh, Untouched, Past, Ends
<1>7. Now
  BY DEF Init, Now, Over
<1>8. Judged
  BY <1>3 DEF Judged
<1> QED BY <1>4, <1>5, <1>6, <1>7, <1>8 DEF Inv

-----------------------------------------------------------------------------
\* The walk.

\* Leaving the first entry behind, and the same with it as the running test.
LEMMA Rest ==
  ASSUME Types, todo # <<>>
  PROVE  /\ Head(todo) = todo[1] /\ Head(todo) \in Entries(suite)
         /\ Tail(todo) \in Seq(Entries(suite))
         /\ Len(todo) \in Nat \ {0} /\ Len(Tail(todo)) = Len(todo) - 1
         /\ 1 \in DOMAIN todo
         /\ \A i \in DOMAIN Tail(todo) : i \in Nat \ {0} /\ i + 1 \in DOMAIN todo
                                           /\ Tail(todo)[i] = todo[i + 1]
<1>1. todo \in Seq(Entries(suite))
  BY DEF Types
<1>2. /\ Head(todo) \in Entries(suite) /\ Tail(todo) \in Seq(Entries(suite))
      /\ Head(todo) = todo[1] /\ Len(Tail(todo)) = Len(todo) - 1
      /\ \A i \in 1 .. Len(Tail(todo)) : Tail(todo)[i] = todo[i + 1]
  BY <1>1, HeadTailProperties
<1>3. /\ Len(todo) \in Nat /\ DOMAIN todo = 1 .. Len(todo)
      /\ Len(Tail(todo)) \in Nat /\ DOMAIN Tail(todo) = 1 .. Len(Tail(todo))
  BY <1>1, <1>2, LenProperties
<1>4. Len(todo) # 0
  BY <1>2, <1>3
<1> QED BY <1>2, <1>3, <1>4

LEMMA Lines ==
  ASSUME Types, NEW e \in Entries(suite)
  PROVE  /\ FirstLine(suite, e) \in Nat /\ LastLine(suite, e) \in Nat
         /\ FirstLine(suite, e) <= LastLine(suite, e)
<1>1. IsTree(suite)
  BY SuitesShape DEF Types
<1>2. CASE e.kind = "dir"
  <2>1. e.name \in DOMAIN suite.dirs
    BY <1>2 DEF Entries
  <2> QED BY <1>1, <1>2, <2>1 DEF IsTree, FirstLine, LastLine
<1>3. CASE e.kind # "dir"
  <2>1. e.name \in DOMAIN suite.tests
    BY <1>3 DEF Entries
  <2> QED BY <1>1, <1>3, <2>1 DEF IsTree, FirstLine, LastLine
<1> QED BY <1>2, <1>3

\* Steps that call no test and return from none.
LEMMA Quiet ==
  ASSUME Inv, suite' = suite, todo' = todo, tested' = tested, results' = results,
         pc' = pc \/ {pc, pc'} \subseteq Calling,
         proc' \in [Files -> {"none", "running", "ended", "reaped"}],
         status' \in [Files -> {"none", "zero", "nonzero", "killed"}],
         timer' \in [Files -> {"none", "armed", "firing", "fired", "stopped"}],
         \A f \in Files : \/ /\ proc'[f] = proc[f] /\ status'[f] = status[f]
                             /\ timer[f] = "none" => timer'[f] = "none"
                          \/ pc \in Calling /\ f = file
  PROVE  Types' /\ InOrder' /\ Fresh' /\ Past' /\ Judged'
<1>1. Files' = Files /\ \A f : Of(f)' = Of(f)
  BY DEF Files, Of
<1>2. Types'
  <2>1. Results' = Results /\ Entries(suite)' = Entries(suite)
    BY <1>1 DEF Results, Entries
  <2>2. /\ pc' \in {"walk"} \cup Calling \cup Over
        /\ pc' \in {"walk"} \cup Over <=> pc \in {"walk"} \cup Over
    BY DEF Inv, Types, Calling, Over
  <2> QED BY <1>1, <2>1, <2>2 DEF Inv, Types
<1>3. InOrder'
  BY <1>1 DEF Inv, InOrder
<1>4. \A f \in Files : pc \in Calling /\ f = file => \E k \in DOMAIN tested : tested[k] = f
  BY Running DEF Inv
<1>5. Fresh'
  BY <1>1, <1>4 DEF Inv, Fresh, Untouched
<1>6. \A i \in DOMAIN results : /\ i \in DOMAIN tested /\ tested[i] \in Files
                                 /\ ~(pc \in Calling /\ tested[i] = file)
  <2>1. Len(tested) \in Nat /\ Len(results) \in Nat /\ DOMAIN tested = 1 .. Len(tested)
          /\ DOMAIN results = 1 .. Len(results)
    BY LenProperties DEF Inv, Types
  <2>2. Len(results) = Len(tested) - 0 \/ Len(results) = Len(tested) - 1
    BY DEF Inv, Types
  <2>3. \A i \in DOMAIN results : i \in DOMAIN tested
    <3> DEFINE m == Len(results) n == Len(tested)
    <3>1. m \in Nat /\ n \in Nat /\ (m = n - 0 \/ m = n - 1)
      BY <2>1, <2>2
    <3>2. DOMAIN results = 1 .. m /\ DOMAIN tested = 1 .. n
      BY <2>1
    <3> HIDE DEF m, n
    <3>3. m <= n
      BY <3>1
    <3> QED BY <3>1, <3>2, <3>3
  <2>4. \A i \in DOMAIN tested : tested[i] \in Files
    BY <2>1, ElementOfSeq DEF Inv, Types
  <2> QED BY <2>3, <2>4, Running DEF Inv
<1>7. \A i \in DOMAIN results : /\ proc'[tested[i]] = proc[tested[i]]
                                 /\ status'[tested[i]] = status[tested[i]]
  BY <1>6
<1>8. Past'
  BY <1>7 DEF Inv, Past
<1>9. Judged'
  BY <1>1, <1>7 DEF Inv, Judged, Right, DidAsNamed, CodesIn
<1> QED BY <1>2, <1>3, <1>5, <1>8, <1>9

\* A step of the walk that calls no test.
LEMMA WalkOn ==
  ASSUME Inv, pc = "walk", pc' \in {"walk"} \cup Over,
         UNCHANGED <<suite, tested, disk, proc, status, timer, results>>,
         todo' \in Seq(Entries(suite)), InOrder'
  PROVE  Inv'
<1>1. Files' = Files /\ Results' = Results /\ Entries(suite)' = Entries(suite)
        /\ \A f : Of(f)' = Of(f)
  BY DEF Files, Results, Entries, Of
<1>2. Types'
  BY <1>1 DEF Inv, Types
<1>3. Fresh' /\ Past' /\ Ends'
  BY <1>1 DEF Inv, Fresh, Untouched, Past, Ends
<1>4. Now'
  BY DEF Inv, Now, Over
<1>5. Judged'
  BY <1>1 DEF Inv, Judged, Right, DidAsNamed, CodesIn
<1> QED BY <1>2, <1>3, <1>4, <1>5 DEF Inv

LEMMA ElementsOf ==
  ASSUME NEW S, NEW q \in Seq(S)
  PROVE  \A i \in DOMAIN q : q[i] \in S
BY LenProperties, ElementOfSeq

LEMMA TestedLines ==
  ASSUME Types
  PROVE  \A k \in DOMAIN tested : tested[k] \in Files /\ Of(tested[k]).line \in Nat
<1>1. \A k \in DOMAIN tested : tested[k] \in Files
  BY ElementsOf DEF Types
<1> QED BY <1>1, SuitesShape DEF Types, IsTree, Of, Files

LEMMA StepOpenDir ==
  ASSUME Inv, OpenDir
  PROVE  Inv'
<1> DEFINE d  == Head(todo).name
           es == suite.dirs[d].entries
<1>1. Types /\ todo # <<>> /\ Head(todo).kind = "dir" /\ pc = "walk"
  BY DEF Inv, OpenDir, At
<1>2. Head(todo) = todo[1] /\ Head(todo) \in Entries(suite) /\ 1 \in DOMAIN todo
  BY <1>1, Rest
<1>3. d \in DOMAIN suite.dirs
  BY <1>1, <1>2 DEF Entries
<1>4. IsTree(suite)
  BY <1>1, SuitesShape DEF Types
<1>5. /\ es \in Seq(Entries(suite))
      /\ suite.dirs[d].first \in Nat /\ suite.dirs[d].last \in Nat
      /\ \A i \in DOMAIN es : /\ suite.dirs[d].first < FirstLine(suite, es[i])
                              /\ LastLine(suite, es[i]) <= suite.dirs[d].last
      /\ \A i, j \in DOMAIN es : i < j => LastLine(suite, es[i]) < FirstLine(suite, es[j])
  BY <1>3, <1>4 DEF IsTree
<1>6. todo' = es \o Tail(todo) /\ suite' = suite /\ tested' = tested
  BY DEF OpenDir
<1>7. FirstLine(suite, Head(todo)) = suite.dirs[d].first
        /\ LastLine(suite, Head(todo)) = suite.dirs[d].last
  BY <1>1 DEF FirstLine, LastLine
<1>8. Tail(todo) \in Seq(Entries(suite))
  BY <1>1, Rest
<1> DEFINE n == Len(es)
<1>9. /\ todo' \in Seq(Entries(suite)) /\ n \in Nat /\ DOMAIN es = 1 .. n
      /\ \A i \in DOMAIN todo' :
           \/ i \in DOMAIN es /\ todo'[i] = es[i]
           \/ i > n /\ i - n \in DOMAIN Tail(todo) /\ todo'[i] = Tail(todo)[i - n]
  <2>1. /\ todo' \in Seq(Entries(suite)) /\ Len(todo') = Len(es) + Len(Tail(todo))
        /\ \A i \in 1 .. Len(es) + Len(Tail(todo)) :
             todo'[i] = IF i <= Len(es) THEN es[i] ELSE Tail(todo)[i - Len(es)]
    BY <1>5, <1>6, <1>8, ConcatProperties
  <2>2. /\ Len(es) \in Nat /\ DOMAIN es = 1 .. Len(es)
        /\ Len(Tail(todo)) \in Nat /\ DOMAIN Tail(todo) = 1 .. Len(Tail(todo))
        /\ DOMAIN todo' = 1 .. Len(todo')
    BY <1>5, <1>8, <2>1, LenProperties
  <2> DEFINE m == Len(Tail(todo))
  <2>3. /\ n \in Nat /\ m \in Nat /\ DOMAIN es = 1 .. n /\ DOMAIN Tail(todo) = 1 .. m
        /\ DOMAIN todo' = 1 .. n + m
        /\ \A i \in 1 .. n + m : todo'[i] = IF i <= n THEN es[i] ELSE Tail(todo)[i - n]
    BY <2>1, <2>2
  <2> HIDE DEF m, n, es, d
  <2>4. ASSUME NEW i \in 1 .. n + m, ~(i <= n) PROVE i > n /\ i - n \in 1 .. m
    BY <2>3, <2>4
  <2> QED BY <2>1, <2>3, <2>4
<1> HIDE DEF d, es, n
<1>10. \A i \in DOMAIN Tail(todo) : /\ i + 1 \in DOMAIN todo /\ 1 < i + 1 /\ Tail(todo)[i] = todo[i + 1]
                                    /\ i \in Nat
  BY <1>1, Rest
<1>11. InOrder
  BY DEF Inv
<1>12. \A i \in DOMAIN Tail(todo) : suite.dirs[d].last < FirstLine(suite, Tail(todo)[i])
  BY <1>2, <1>7, <1>10, <1>11 DEF InOrder
<1>13. \A k \in DOMAIN tested : Of(tested[k]).line < suite.dirs[d].first
  BY <1>2, <1>7, <1>11 DEF InOrder
<1>15. \A i \in DOMAIN todo' : todo'[i] \in Entries(suite)
  BY <1>9, ElementsOf
<1>16. \A k \in DOMAIN tested : Of(tested[k]).line \in Nat
  BY <1>1, TestedLines
<1>14. InOrder'
  <2>1. ASSUME NEW i \in DOMAIN todo', NEW j \in DOMAIN todo', i < j
        PROVE  LastLine(suite, todo'[i]) < FirstLine(suite, todo'[j])
    <3>1. CASE i \in DOMAIN es /\ todo'[i] = es[i] /\ j \in DOMAIN es /\ todo'[j] = es[j]
      BY <2>1, <3>1, <1>5
    <3>2. CASE i \in DOMAIN es /\ todo'[i] = es[i] /\ j > n /\ j - n \in DOMAIN Tail(todo)
                 /\ todo'[j] = Tail(todo)[j - n]
      <4>1. LastLine(suite, es[i]) <= suite.dirs[d].last
        BY <3>2, <1>5
      <4>2. suite.dirs[d].last < FirstLine(suite, todo'[j])
        BY <3>2, <1>12
      <4>3. LastLine(suite, es[i]) \in Nat /\ FirstLine(suite, todo'[j]) \in Nat
        BY <3>2, <1>1, <1>15, Lines
      <4> QED BY <3>2, <4>1, <4>2, <4>3, <1>5
    <3>3. CASE i > n /\ i - n \in DOMAIN Tail(todo) /\ todo'[i] = Tail(todo)[i - n]
                 /\ j > n /\ j - n \in DOMAIN Tail(todo) /\ todo'[j] = Tail(todo)[j - n]
      BY <2>1, <3>3, <1>9, <1>10, <1>11 DEF InOrder
    <3>4. ~(i > n /\ j \in DOMAIN es)
      BY <2>1, <1>9
    <3> QED BY <3>1, <3>2, <3>3, <3>4, <1>9
  <2>2. ASSUME NEW k \in DOMAIN tested, NEW i \in DOMAIN todo'
        PROVE  Of(tested[k]).line < FirstLine(suite, todo'[i])
    <3>1. CASE i \in DOMAIN es /\ todo'[i] = es[i]
      <4>1. suite.dirs[d].first < FirstLine(suite, todo'[i])
        BY <3>1, <1>5
      <4>2. FirstLine(suite, todo'[i]) \in Nat /\ Of(tested[k]).line \in Nat
        BY <1>1, <1>15, <1>16, Lines
      <4> QED BY <4>1, <4>2, <1>13, <1>5
    <3>2. CASE i > n /\ i - n \in DOMAIN Tail(todo) /\ todo'[i] = Tail(todo)[i - n]
      BY <3>2, <1>10, <1>11 DEF InOrder
    <3> QED BY <3>1, <3>2, <1>9
  <2> QED BY <2>1, <2>2, <1>6, <1>11 DEF InOrder, Of
<1> QED BY <1>1, <1>6, <1>9, <1>14, WalkOn DEF OpenDir

LEMMA StepUnreadable ==
  ASSUME Inv, Unreadable
  PROVE  Inv'
<1>1. pc = "walk" /\ pc' \in {"walk"} \cup Over /\ todo' = todo
        /\ UNCHANGED <<suite, tested, disk, proc, status, timer, results>>
  BY DEF Unreadable, At, Over
<1>2. todo' \in Seq(Entries(suite))
  BY <1>1 DEF Inv, Types
<1>3. InOrder'
  BY <1>1 DEF Inv, InOrder, Of
<1> QED BY <1>1, <1>2, <1>3, WalkOn

LEMMA StepPrintResults ==
  ASSUME Inv, PrintResults
  PROVE  Inv'
<1>1. pc = "walk" /\ pc' \in {"walk"} \cup Over /\ todo' = todo
        /\ UNCHANGED <<suite, tested, disk, proc, status, timer, results>>
  BY DEF PrintResults, Over
<1>2. todo' \in Seq(Entries(suite))
  BY <1>1 DEF Inv, Types
<1>3. InOrder'
  BY <1>1 DEF Inv, InOrder, Of
<1> QED BY <1>1, <1>2, <1>3, WalkOn

LEMMA StepSkipFile ==
  ASSUME Inv, SkipFile
  PROVE  Inv'
<1>1. pc = "walk" /\ pc' \in {"walk"} \cup Over /\ todo' = Tail(todo) /\ todo # <<>>
        /\ UNCHANGED <<suite, tested, disk, proc, status, timer, results>>
  BY DEF SkipFile, At
<1>2. /\ todo' \in Seq(Entries(suite))
      /\ \A i \in DOMAIN todo' : i \in Nat \ {0} /\ i + 1 \in DOMAIN todo
                                /\ todo'[i] = todo[i + 1]
  BY <1>1, Rest DEF Inv
<1>3. InOrder'
  BY <1>1, <1>2 DEF Inv, InOrder, Of
<1> QED BY <1>1, <1>2, <1>3, WalkOn

\* The file Test is called on was not reached before.
LEMMA StepCallTest ==
  ASSUME Inv, CallTest
  PROVE  Inv'
<1> DEFINE h == Head(todo).name
           n == Len(tested)
<1>1. /\ Types /\ InOrder /\ pc = "walk" /\ todo # <<>> /\ Head(todo).kind = "file"
      /\ todo' = Tail(todo) /\ tested' = Append(tested, h) /\ pc' = "stage"
      /\ UNCHANGED <<suite, disk, proc, status, timer, results>>
  BY DEF Inv, CallTest, At
<1>2. /\ Head(todo) = todo[1] /\ Head(todo) \in Entries(suite) /\ 1 \in DOMAIN todo
      /\ todo' \in Seq(Entries(suite))
      /\ \A i \in DOMAIN todo' : i \in Nat \ {0} /\ i + 1 \in DOMAIN todo
                                /\ todo'[i] = todo[i + 1]
  BY <1>1, Rest
<1>3. h \in Files /\ Of(h).line = FirstLine(suite, todo[1])
        /\ Of(h).line = LastLine(suite, todo[1]) /\ Of(h).line \in Nat
  <2>1. h \in Files
    BY <1>1, <1>2 DEF Entries, Files
  <2> QED BY <2>1, <1>1, <1>2, Lines DEF FirstLine, LastLine, Of
<1>4. /\ n \in Nat /\ DOMAIN tested = 1 .. n /\ DOMAIN tested' = 1 .. n + 1
      /\ tested' \in Seq(Files) /\ Len(tested') = n + 1
      /\ tested'[n + 1] = h /\ \A k \in 1 .. n : tested'[k] = tested[k]
  <2>1. tested \in Seq(Files)
    BY <1>1 DEF Types
  <2>2. /\ tested' \in Seq(Files) /\ Len(tested') = n + 1
        /\ tested'[n + 1] = h /\ \A k \in 1 .. n : tested'[k] = tested[k]
    BY <2>1, <1>1, <1>3, AppendProperties
  <2>3. n \in Nat /\ DOMAIN tested = 1 .. n /\ DOMAIN tested' = 1 .. Len(tested')
    BY <2>1, <2>2, LenProperties
  <2> QED BY <2>2, <2>3
<1>5. Len(results) = n /\ DOMAIN results = 1 .. n
  BY <1>1, <1>4, LenProperties DEF Types
<1>6. Files' = Files /\ Results' = Results /\ Entries(suite)' = Entries(suite)
        /\ \A f : Of(f)' = Of(f)
  BY <1>1 DEF Files, Results, Entries, Of
<1>7. file' = h
  <2>1. file' = tested'[Len(tested')]
    BY DEF file, Last
  <2> QED BY <2>1, <1>4
<1>8. \A k \in DOMAIN tested : Of(tested[k]).line < Of(h).line /\ tested[k] \in Files
                                /\ Of(tested[k]).line \in Nat
  BY <1>1, <1>2, <1>3, TestedLines DEF InOrder
<1> HIDE DEF h, n
<1>9. Untouched(h)
  <2>1. \A k \in DOMAIN tested : tested[k] # h
    BY <1>3, <1>8
  <2> QED BY <2>1, <1>3 DEF Inv, Fresh
<1>10. Types'
  <2>1. Len(results') = Len(tested') - 1
    BY <1>1, <1>4, <1>5
  <2>2. pc' \notin {"walk"} \cup Over /\ pc' \in Calling
    BY <1>1 DEF Over, Calling
  <2> QED BY <1>1, <1>2, <1>4, <1>6, <2>1, <2>2 DEF Types
<1>11. InOrder'
  <2>1. \A i, j \in DOMAIN todo' : i < j => LastLine(suite, todo'[i]) < FirstLine(suite, todo'[j])
    BY <1>1, <1>2 DEF InOrder
  <2>2. \A k \in 1 .. n : \A i \in DOMAIN todo' : Of(tested[k]).line < FirstLine(suite, todo'[i])
    BY <1>1, <1>2, <1>4 DEF InOrder
  <2>3. \A i \in DOMAIN todo' : Of(h).line < FirstLine(suite, todo'[i])
    BY <1>1, <1>2, <1>3 DEF InOrder
  <2>4. \A k \in DOMAIN tested' : \/ k \in 1 .. n /\ tested'[k] = tested[k]
                                  \/ k = n + 1 /\ tested'[k] = h
    BY <1>4
  <2>5. \A k \in DOMAIN tested' : \A i \in DOMAIN todo' : Of(tested'[k]).line < FirstLine(suite, todo'[i])
    BY <2>2, <2>3, <2>4
  <2>6. ASSUME NEW k \in DOMAIN tested', NEW l \in DOMAIN tested', k < l
        PROVE  Of(tested'[k]).line < Of(tested'[l]).line
    <3>1. k \in 1 .. n /\ tested'[k] = tested[k]
      BY <2>4, <2>6, <1>4
    <3>2. CASE l \in 1 .. n /\ tested'[l] = tested[l]
      BY <3>1, <3>2, <2>6, <1>1, <1>4 DEF InOrder
    <3>3. CASE l = n + 1 /\ tested'[l] = h
      BY <3>1, <3>3, <1>8, <1>4
    <3> QED BY <2>4, <3>2, <3>3
  <2> QED BY <2>1, <2>5, <2>6, <1>1, <1>6 DEF InOrder
<1>12. Fresh'
  <2>1. ASSUME NEW f \in Files, \A k \in DOMAIN tested' : tested'[k] # f
        PROVE  \A k \in DOMAIN tested : tested[k] # f
    BY <2>1, <1>4
  <2> QED BY <2>1, <1>1, <1>6 DEF Inv, Fresh, Untouched
<1>13. Past' /\ Judged'
  <2>1. \A i \in DOMAIN results : tested'[i] = tested[i]
    BY <1>4, <1>5
  <2> QED BY <2>1, <1>1, <1>6 DEF Inv, Past, Judged, Right, DidAsNamed, CodesIn
<1>14. Now'
  BY <1>1, <1>7, <1>9 DEF Inv, Now, Untouched, Over
<1>15. Ends'
  BY <1>1, <1>6 DEF Inv, Ends
<1> QED BY <1>10, <1>11, <1>12, <1>13, <1>14, <1>15 DEF Inv

-----------------------------------------------------------------------------
\* Names and verdicts.

LEMMA NoCodeInName ==
  ASSUME suite \in Suites, NEW f \in Files, CodesIn(f) = {}
  PROVE  ExtractError(f) \notin ErrorCodes
<1> DEFINE q == Of(f).name
           n == Len(q)
<1>1. q \in Seq(STRING)
  BY SuitesShape DEF Behaves, Of, Files
<1>2. n \in Nat /\ DOMAIN q = 1 .. n
  BY <1>1, LenProperties
<1>3. CASE n < 3
  BY <1>3 DEF ExtractError, NoCode, ErrorCodes, NoEntryPoint, InternalCompilerError, FileError
<1>4. CASE ~(n < 3)
  <2>1. ExtractError(f) = q[n - 1]
    BY <1>4 DEF ExtractError
  <2> HIDE DEF n
  <2>2. n - 1 \in DOMAIN q
    BY <1>2, <1>4
  <2>3. q[n - 1] \in ToSet(q)
    BY <2>2 DEF ToSet
  <2> QED BY <2>1, <2>3 DEF CodesIn
<1> QED BY <1>3, <1>4

LEMMA CodeInName ==
  ASSUME suite \in Suites, NEW f \in Files, CodesIn(f) # {}, KeepsPromise(Of(f))
  PROVE  /\ CodesIn(f) = {ExtractError(f)} /\ ExtractError(f) \in ErrorCodes
         /\ Of(f).stage \notin {"nothing", "binary"}
         /\ Of(f).stage = NoEntryPoint => NoEntryPoint \in CodesIn(f)
<1>1. /\ Len(Of(f).name) >= 3 /\ CodesIn(f) = {Of(f).name[Len(Of(f).name) - 1]}
      /\ Of(f).stage \notin {"nothing", "binary"}
      /\ Of(f).stage = NoEntryPoint => NoEntryPoint \in CodesIn(f)
  BY DEF KeepsPromise, CodesIn
<1>2. Of(f).name \in Seq(STRING)
  BY SuitesShape DEF Behaves, Of, Files
<1>3. Len(Of(f).name) \in Nat
  BY <1>2, LenProperties
<1>4. ~(Len(Of(f).name) < 3)
  BY <1>1, <1>3
<1>5. ExtractError(f) = Of(f).name[Len(Of(f).name) - 1]
  BY <1>4 DEF ExtractError
<1>6. CodesIn(f) \subseteq ErrorCodes
  BY DEF CodesIn
<1> QED BY <1>1, <1>5, <1>6

\* What compareError makes of an error.
LEMMA Compared ==
  ASSUME NEW f \in Files, NEW code \in ErrorCodes
  PROVE  /\ CompareError(f, code) \in Results
         /\ CompareError(f, code).ok <=> ExtractError(f) = code
<1>1. code # NoCode
  BY DEF NoCode, ErrorCodes, NoEntryPoint, InternalCompilerError, FileError
<1>2. CASE ExtractError(f) = code
  <2>1. CompareError(f, code) = Result(f, TRUE, "empty")
    BY <1>1, <1>2 DEF CompareError
  <2> QED BY <1>2, <2>1 DEF Result, Results
<1>3. CASE ExtractError(f) # code
  <2>1. CompareError(f, code) = Result(f, FALSE, "code")
    BY <1>1, <1>3 DEF CompareError
  <2> QED BY <1>3, <2>1 DEF Result, Results
<1> QED BY <1>2, <1>3

\* A stage that ends with an error, while no process of the file was started.
LEMMA StageJudged ==
  ASSUME suite \in Suites, NEW f \in Files, Of(f).stage \in ErrorCodes, status[f] = "none"
  PROVE  /\ StageError(f, Of(f).stage) \in Results
         /\ Right(f, StageError(f, Of(f).stage).ok)
<1> DEFINE c == Of(f).stage
<1>1. CASE c = InternalCompilerError
  <2>1. StageError(f, c) = Result(f, FALSE, "internal")
    BY <1>1 DEF StageError, InternalCompilerError, NoEntryPoint
  <2>2. ~DidAsNamed(f)
    BY <1>1 DEF DidAsNamed, InternalCompilerError, NoEntryPoint
  <2> QED BY <2>1, <2>2 DEF Result, Results, Right
<1>2. CASE c = NoEntryPoint
  <2>1. StageError(f, c) = Result(f, TRUE, "empty")
    BY <1>2 DEF StageError, InternalCompilerError, NoEntryPoint
  <2>2. KeepsPromise(Of(f)) => DidAsNamed(f)
    BY <1>2, CodeInName DEF DidAsNamed, InternalCompilerError, NoEntryPoint
  <2> QED BY <2>1, <2>2 DEF Result, Results, Right
<1>3. CASE c # InternalCompilerError /\ c # NoEntryPoint
  <2>1. StageError(f, c) = CompareError(f, c)
    BY <1>3 DEF StageError
  <2>2. KeepsPromise(Of(f)) => (DidAsNamed(f) <=> ExtractError(f) = c)
    <3>1. CASE CodesIn(f) = {}
      <4>1. ~DidAsNamed(f)
        BY <1>3, <3>1 DEF DidAsNamed, ErrorCodes, InternalCompilerError, NoEntryPoint, FileError
      <4> QED BY <3>1, <4>1, NoCodeInName
    <3>2. CASE CodesIn(f) # {}
      BY <1>3, <3>2, CodeInName DEF DidAsNamed
    <3> QED BY <3>1, <3>2
  <2> QED BY <2>1, <2>2, Compared DEF Right
<1> QED BY <1>1, <1>2, <1>3

\* A file that makes a binary has no code in its name, if it keeps its promise.
LEMMA BinaryJudged ==
  ASSUME suite \in Suites, NEW f \in Files, Of(f).stage = "binary", KeepsPromise(Of(f))
  PROVE  CodesIn(f) = {} /\ (DidAsNamed(f) <=> status[f] = "zero")
<1>1. CodesIn(f) = {}
  BY CodeInName
<1> QED BY <1>1 DEF DidAsNamed, NoEntryPoint

-----------------------------------------------------------------------------
\* The call of Test returns.

LEMMA Returning ==
  ASSUME Inv, pc \in {"stage", "assemble", "start", "return"},
         NEW r \in Results, NEW gone, Return(r, gone), UNCHANGED <<proc, status, timer>>,
         disk \ gone = {}, proc[file] \in {"none", "reaped"}, Right(file, r.ok)
  PROVE  Inv'
<1> DEFINE m == Len(results)
<1>1. /\ results' = Append(results, r) /\ disk' = {} /\ pc' = "walk"
      /\ UNCHANGED <<suite, todo, tested, proc, status, timer>>
  BY DEF Return
<1>2. pc \in Calling
  BY DEF Calling
<1>3. Len(tested) = m + 1 /\ file = tested[m + 1] /\ file \in Files
  BY <1>2, Running DEF Inv
<1>4. /\ m \in Nat /\ DOMAIN results = 1 .. m /\ DOMAIN results' = 1 .. m + 1
      /\ results' \in Seq(Results) /\ Len(results') = m + 1
      /\ results'[m + 1] = r /\ \A i \in 1 .. m : results'[i] = results[i]
  <2>1. results \in Seq(Results)
    BY DEF Inv, Types
  <2>2. /\ results' \in Seq(Results) /\ Len(results') = m + 1
        /\ results'[m + 1] = r /\ \A i \in 1 .. m : results'[i] = results[i]
    BY <2>1, <1>1, AppendProperties
  <2>3. m \in Nat /\ DOMAIN results = 1 .. m /\ DOMAIN results' = 1 .. Len(results')
    BY <2>1, <2>2, LenProperties
  <2> QED BY <2>2, <2>3
<1> HIDE DEF m
<1>5. Files' = Files /\ Results' = Results /\ Entries(suite)' = Entries(suite)
        /\ \A f : Of(f)' = Of(f)
  BY <1>1 DEF Files, Results, Entries, Of
<1>6. \A i \in DOMAIN results' : \/ i \in DOMAIN results /\ results'[i] = results[i]
                                 \/ tested[i] = file /\ results'[i] = r
  BY <1>3, <1>4
<1>7. Types'
  <2>1. Len(results') = Len(tested') - 0
    BY <1>1, <1>3, <1>4
  <2> QED BY <1>1, <1>4, <1>5, <2>1 DEF Inv, Types
<1>8. InOrder'
  BY <1>1, <1>5 DEF Inv, InOrder
<1>9. Fresh' /\ Ends'
  BY <1>1, <1>5 DEF Inv, Fresh, Untouched, Ends
<1>10. Past'
  BY <1>1, <1>6 DEF Inv, Past
<1>11. Now'
  BY <1>1 DEF Now, Over
<1>12. \A f : KeepsPromise(Of(f))' <=> KeepsPromise(Of(f))
  BY <1>5
<1>13. \A f : DidAsNamed(f)' <=> DidAsNamed(f)
  BY <1>1, <1>5 DEF DidAsNamed, CodesIn
<1>14. Judged'
  BY <1>1, <1>6, <1>12, <1>13 DEF Inv, Judged, Right
<1> QED BY <1>7, <1>8, <1>9, <1>10, <1>11, <1>14 DEF Inv

LEMMA ZeroResult == Recovered \in Results /\ ~Recovered.ok
BY DEF Recovered, Result, Results

LEMMA StepPanic ==
  ASSUME Inv, Panic
  PROVE  Inv'
<1>1. /\ pc = "stage" /\ Of(file).stage = "panics" /\ Return(Recovered, {})
      /\ UNCHANGED <<proc, status, timer>>
  BY DEF Panic
<1>2. file \in Files
  BY <1>1, Running DEF Inv, Calling
<1>3. disk = {} /\ proc[file] = "none" /\ status[file] = "none"
  BY <1>1 DEF Inv, Now, Untouched
<1>4. ~DidAsNamed(file)
  BY <1>1, <1>3 DEF DidAsNamed, CodesIn, ErrorCodes, NoEntryPoint, InternalCompilerError, FileError
<1>5. Right(file, Recovered.ok)
  BY <1>4, ZeroResult DEF Right
<1> QED BY <1>1, <1>3, <1>5, ZeroResult, Returning

LEMMA StepFailStage ==
  ASSUME Inv, FailStage
  PROVE  Inv'
<1>1. /\ pc = "stage" /\ Of(file).stage \notin {"panics", "nothing", "binary"}
      /\ Return(StageError(file, Of(file).stage), {})
      /\ UNCHANGED <<proc, status, timer>>
  BY DEF FailStage
<1>2. file \in Files
  BY <1>1, Running DEF Inv, Calling
<1>3. disk = {} /\ proc[file] = "none" /\ status[file] = "none"
  BY <1>1 DEF Inv, Now, Untouched
<1>4. suite \in Suites
  BY DEF Inv, Types
<1>5. Of(file).stage \in ErrorCodes
  BY <1>1, <1>2, <1>4, SuitesShape DEF Behaves, Of, Files
<1>6. /\ StageError(file, Of(file).stage) \in Results
      /\ Right(file, StageError(file, Of(file).stage).ok)
  BY <1>2, <1>3, <1>4, <1>5, StageJudged
<1> QED BY <1>1, <1>3, <1>6, Returning

LEMMA StepPassStage ==
  ASSUME Inv, PassStage
  PROVE  Inv'
<1> DEFINE r == Result(file, TRUE, "empty")
<1>1. pc = "stage" /\ Of(file).stage = "nothing" /\ Return(r, {})
        /\ UNCHANGED <<proc, status, timer>>
  BY DEF PassStage
<1>2. file \in Files
  BY <1>1, Running DEF Inv, Calling
<1>3. disk = {} /\ proc[file] = "none"
  BY <1>1 DEF Inv, Now, Untouched
<1>4. r \in Results /\ r.ok
  BY <1>2 DEF Result, Results
<1>5. KeepsPromise(Of(file)) => DidAsNamed(file)
  BY <1>1, <1>2, CodeInName DEF Inv, Types, DidAsNamed
<1>6. Right(file, r.ok)
  BY <1>4, <1>5 DEF Right
<1> QED BY <1>1, <1>3, <1>4, <1>6, Returning

LEMMA StepFailAssemble ==
  ASSUME Inv, FailAssemble
  PROVE  Inv'
<1> DEFINE r == CompareError(file, FileError)
<1>1. pc = "assemble" /\ Return(r, {Temp}) /\ UNCHANGED <<proc, status, timer>>
  BY DEF FailAssemble
<1>2. file \in Files
  BY <1>1, Running DEF Inv, Calling
<1>3. /\ disk = {Temp} /\ proc[file] = "none" /\ status[file] = "none"
      /\ Of(file).stage = "binary"
  BY <1>1 DEF Inv, Now, Untouched
<1>4. FileError \in ErrorCodes
  BY DEF ErrorCodes
<1>5. r \in Results /\ (r.ok <=> ExtractError(file) = FileError)
  BY <1>2, <1>4, Compared
<1>6. KeepsPromise(Of(file)) => ~DidAsNamed(file) /\ ExtractError(file) # FileError
  BY <1>2, <1>3, <1>4, BinaryJudged, NoCodeInName DEF Inv, Types
<1>7. Right(file, r.ok)
  BY <1>5, <1>6 DEF Right
<1> QED BY <1>1, <1>3, <1>5, <1>7, Returning

LEMMA StepPanicAssemble ==
  ASSUME Inv, PanicAssemble
  PROVE  Inv'
<1>1. pc = "assemble" /\ Return(Recovered, {Temp}) /\ UNCHANGED <<proc, status, timer>>
  BY DEF PanicAssemble
<1>2. file \in Files
  BY <1>1, Running DEF Inv, Calling
<1>3. /\ disk = {Temp} /\ proc[file] = "none" /\ status[file] = "none"
      /\ Of(file).stage = "binary"
  BY <1>1 DEF Inv, Now, Untouched
<1>4. KeepsPromise(Of(file)) => ~DidAsNamed(file)
  BY <1>2, <1>3, BinaryJudged DEF Inv, Types
<1>5. Right(file, Recovered.ok)
  BY <1>4, ZeroResult DEF Right
<1> QED BY <1>1, <1>3, <1>5, ZeroResult, Returning

LEMMA StepFailStart ==
  ASSUME Inv, FailStart
  PROVE  Inv'
<1> DEFINE r == Result(file, FALSE, "os")
<1>1. pc = "start" /\ Return(r, {Out(file)}) /\ UNCHANGED <<proc, status, timer>>
  BY DEF FailStart
<1>2. file \in Files
  BY <1>1, Running DEF Inv, Calling
<1>3. /\ disk = {Out(file)} /\ proc[file] = "none" /\ status[file] = "none"
      /\ Of(file).stage = "binary"
  BY <1>1 DEF Inv, Now, Untouched
<1>4. r \in Results /\ ~r.ok
  BY <1>2 DEF Result, Results
<1>5. KeepsPromise(Of(file)) => ~DidAsNamed(file)
  BY <1>2, <1>3, BinaryJudged DEF Inv, Types
<1>6. Right(file, r.ok)
  BY <1>4, <1>5 DEF Right
<1> QED BY <1>1, <1>3, <1>4, <1>6, Returning

LEMMA StepReturnStatus ==
  ASSUME Inv, ReturnStatus
  PROVE  Inv'
<1> DEFINE r == IF status[file] = "zero" THEN Result(file, TRUE, "empty")
                ELSE Result(file, FALSE, "os")
<1>1. pc = "return" /\ Return(r, {Out(file)}) /\ UNCHANGED <<proc, status, timer>>
  BY DEF ReturnStatus
<1>2. file \in Files
  BY <1>1, Running DEF Inv, Calling
<1>3. disk = {Out(file)} /\ proc[file] = "reaped" /\ Of(file).stage = "binary"
  BY <1>1 DEF Inv, Now
<1>4. r \in Results /\ (r.ok <=> status[file] = "zero")
  BY <1>2 DEF Result, Results
<1>5. KeepsPromise(Of(file)) => (DidAsNamed(file) <=> status[file] = "zero")
  BY <1>2, <1>3, BinaryJudged DEF Inv, Types
<1>6. Right(file, r.ok)
  BY <1>4, <1>5 DEF Right
<1> QED BY <1>1, <1>3, <1>4, <1>6, Returning

-----------------------------------------------------------------------------
\* The running call of Test goes on.

LEMMA Calls == pc \in {"stage", "assemble", "start", "arm", "wait", "stop", "return"} => pc \in Calling
BY DEF Calling

LEMMA SameFile ==
  ASSUME tested' = tested, suite' = suite
  PROVE  file' = file /\ Files' = Files /\ \A f : Of(f)' = Of(f) /\ Out(f)' = Out(f)
BY DEF file, Last, Files, Of, Out

LEMMA StepCreateTemp ==
  ASSUME Inv, CreateTemp
  PROVE  Inv'
<1>1. /\ pc = "stage" /\ Of(file).stage = "binary" /\ disk' = disk \cup {Temp} /\ pc' = "assemble"
      /\ UNCHANGED <<suite, todo, tested, results, proc, status, timer>>
  BY DEF CreateTemp
<1>2. Types' /\ InOrder' /\ Fresh' /\ Past' /\ Judged'
  <2>1. {pc, pc'} \subseteq Calling
    BY <1>1 DEF Calling
  <2> QED BY <1>1, <2>1, Quiet DEF Inv, Types
<1>3. file' = file /\ Files' = Files /\ \A f : Of(f)' = Of(f)
  BY <1>1, SameFile
<1>4. Now'
  BY <1>1, <1>3 DEF Inv, Now, Untouched, Over
<1>5. Ends'
  BY <1>1, <1>3 DEF Inv, Ends
<1> QED BY <1>2, <1>4, <1>5 DEF Inv

LEMMA StepAssemble ==
  ASSUME Inv, Assemble
  PROVE  Inv'
<1>1. /\ pc = "assemble" /\ disk' = (disk \ {Temp}) \cup {Out(file)} /\ pc' = "start"
      /\ UNCHANGED <<suite, todo, tested, results, proc, status, timer>>
  BY DEF Assemble
<1>2. Types' /\ InOrder' /\ Fresh' /\ Past' /\ Judged'
  <2>1. {pc, pc'} \subseteq Calling
    BY <1>1 DEF Calling
  <2> QED BY <1>1, <2>1, Quiet DEF Inv, Types
<1>3. file' = file /\ Files' = Files /\ \A f : Of(f)' = Of(f) /\ Out(f)' = Out(f)
  BY <1>1, SameFile
<1>4. Now'
  BY <1>1, <1>3 DEF Inv, Now, Untouched, Over
<1>5. Ends'
  BY <1>1, <1>3 DEF Inv, Ends
<1> QED BY <1>2, <1>4, <1>5 DEF Inv

LEMMA StepStartProcess ==
  ASSUME Inv, StartProcess
  PROVE  Inv'
<1>1. /\ pc = "start" /\ pc' = "arm" /\ proc' = [proc EXCEPT ![file] = "running"]
      /\ UNCHANGED <<suite, todo, tested, results, disk, status, timer>>
  BY DEF StartProcess
<1>2. file \in Files /\ pc \in Calling /\ pc' \in Calling
  BY <1>1, Running DEF Inv, Calling
<1>3. /\ proc' \in [Files -> {"none", "running", "ended", "reaped"}] /\ proc'[file] = "running"
      /\ \A f \in Files : f # file => proc'[f] = proc[f]
  BY <1>1, <1>2 DEF Inv, Types
<1>4. Types' /\ InOrder' /\ Fresh' /\ Past' /\ Judged'
  BY <1>1, <1>2, <1>3, Quiet DEF Inv, Types
<1>5. file' = file /\ Files' = Files /\ \A f : Of(f)' = Of(f) /\ Out(f)' = Out(f)
  BY <1>1, SameFile
<1>6. Now'
  BY <1>1, <1>3, <1>5 DEF Inv, Now, Untouched, Over
<1>7. Ends'
  BY <1>1, <1>3, <1>5 DEF Inv, Ends, Now, Untouched
<1> QED BY <1>4, <1>6, <1>7 DEF Inv

LEMMA StepArmTimer ==
  ASSUME Inv, ArmTimer
  PROVE  Inv'
<1>1. /\ pc = "arm" /\ pc' = "wait" /\ timer' = [timer EXCEPT ![file] = "armed"]
      /\ UNCHANGED <<suite, todo, tested, results, disk, proc, status>>
  BY DEF ArmTimer
<1>2. file \in Files /\ pc \in Calling /\ pc' \in Calling
  BY <1>1, Running DEF Inv, Calling
<1>3. /\ timer' \in [Files -> {"none", "armed", "firing", "fired", "stopped"}]
      /\ \A f \in Files : f # file => timer'[f] = timer[f]
  BY <1>1, <1>2 DEF Inv, Types
<1>4. Types' /\ InOrder' /\ Fresh' /\ Past' /\ Judged'
  BY <1>1, <1>2, <1>3, Quiet DEF Inv, Types
<1>5. file' = file /\ Files' = Files /\ \A f : Of(f)' = Of(f) /\ Out(f)' = Out(f)
  BY <1>1, SameFile
<1>6. Now'
  BY <1>1, <1>5 DEF Inv, Now, Over
<1>7. Ends'
  BY <1>1, <1>5 DEF Inv, Ends
<1> QED BY <1>4, <1>6, <1>7 DEF Inv

LEMMA StepWait ==
  ASSUME Inv, Wait
  PROVE  Inv'
<1>1. /\ pc = "wait" /\ proc[file] = "ended" /\ pc' = "stop"
      /\ proc' = [proc EXCEPT ![file] = "reaped"]
      /\ UNCHANGED <<suite, todo, tested, results, disk, status, timer>>
  BY DEF Wait
<1>2. file \in Files /\ pc \in Calling /\ pc' \in Calling
  BY <1>1, Running DEF Inv, Calling
<1>3. /\ proc' \in [Files -> {"none", "running", "ended", "reaped"}] /\ proc'[file] = "reaped"
      /\ \A f \in Files : f # file => proc'[f] = proc[f]
  BY <1>1, <1>2 DEF Inv, Types
<1>4. Types' /\ InOrder' /\ Fresh' /\ Past' /\ Judged'
  BY <1>1, <1>2, <1>3, Quiet DEF Inv, Types
<1>5. file' = file /\ Files' = Files /\ \A f : Of(f)' = Of(f) /\ Out(f)' = Out(f)
  BY <1>1, SameFile
<1>6. Now'
  BY <1>1, <1>3, <1>5 DEF Inv, Now, Over
<1>7. Ends'
  BY <1>1, <1>3, <1>5 DEF Inv, Ends
<1> QED BY <1>4, <1>6, <1>7 DEF Inv

LEMMA StepStopTimer ==
  ASSUME Inv, StopTimer
  PROVE  Inv'
<1>1. /\ pc = "stop" /\ pc' = "return"
      /\ timer' = [timer EXCEPT ![file] = IF @ = "armed" THEN "stopped" ELSE @]
      /\ UNCHANGED <<suite, todo, tested, results, disk, proc, status>>
  BY DEF StopTimer
<1>2. file \in Files /\ pc \in Calling /\ pc' \in Calling
  BY <1>1, Running DEF Inv, Calling
<1>3. /\ timer' \in [Files -> {"none", "armed", "firing", "fired", "stopped"}]
      /\ \A f \in Files : f # file => timer'[f] = timer[f]
  BY <1>1, <1>2 DEF Inv, Types
<1>4. Types' /\ InOrder' /\ Fresh' /\ Past' /\ Judged'
  BY <1>1, <1>2, <1>3, Quiet DEF Inv, Types
<1>5. file' = file /\ Files' = Files /\ \A f : Of(f)' = Of(f) /\ Out(f)' = Out(f)
  BY <1>1, SameFile
<1>6. Now'
  BY <1>1, <1>5 DEF Inv, Now, Over
<1>7. Ends'
  BY <1>1, <1>5 DEF Inv, Ends
<1> QED BY <1>4, <1>6, <1>7 DEF Inv

-----------------------------------------------------------------------------
\* The process, the clock and the callback.

LEMMA StepExit ==
  ASSUME Inv, NEW f \in Files, Exit(f)
  PROVE  Inv' /\ \A g \in Files : status'[g] = "killed" => status[g] = "killed"
<1>1. /\ proc[f] = "running" /\ proc' = [proc EXCEPT ![f] = "ended"] /\ pc' = pc
      /\ UNCHANGED <<suite, todo, tested, results, disk, timer>>
  BY DEF Exit, runner
<1>2. PICK s \in Of(f).ends : status' = [status EXCEPT ![f] = s]
  BY DEF Exit
<1>3. s \in {"zero", "nonzero"}
  BY <1>2, SuitesShape DEF Inv, Types, Behaves, Of, Files
<1>4. f = file /\ pc \in {"arm", "wait"}
  BY <1>1, OnlyRunning
<1>5. /\ proc' \in [Files -> {"none", "running", "ended", "reaped"}] /\ proc'[f] = "ended"
      /\ status' \in [Files -> {"none", "zero", "nonzero", "killed"}] /\ status'[f] = s
      /\ \A g \in Files : g # f => proc'[g] = proc[g] /\ status'[g] = status[g]
  BY <1>1, <1>2, <1>3 DEF Inv, Types
<1>6. Types' /\ InOrder' /\ Fresh' /\ Past' /\ Judged'
  BY <1>1, <1>4, <1>5, Quiet DEF Inv, Types, Calling
<1>7. file' = file /\ Files' = Files /\ \A g : Of(g)' = Of(g) /\ Out(g)' = Out(g)
  BY <1>1, SameFile
<1>8. Now'
  BY <1>1, <1>4, <1>5, <1>7 DEF Inv, Now, Over
<1>9. Ends'
  BY <1>1, <1>3, <1>5, <1>7 DEF Inv, Ends
<1>10. \A g \in Files : status'[g] = "killed" => status[g] = "killed"
  BY <1>3, <1>5
<1> QED BY <1>6, <1>8, <1>9, <1>10 DEF Inv

LEMMA StepTimeOut ==
  ASSUME Inv, NEW f \in Files, TimeOut(f)
  PROVE  Inv'
<1>1. /\ timer[f] = "armed" /\ timer' = [timer EXCEPT ![f] = "firing"] /\ pc' = pc
      /\ UNCHANGED <<suite, todo, tested, results, disk, proc, status>>
  BY DEF TimeOut, runner
<1>2. /\ timer' \in [Files -> {"none", "armed", "firing", "fired", "stopped"}]
      /\ \A g \in Files : timer[g] = "none" => timer'[g] = "none"
  BY <1>1 DEF Inv, Types
<1>3. Types' /\ InOrder' /\ Fresh' /\ Past' /\ Judged'
  BY <1>1, <1>2, Quiet DEF Inv, Types
<1>4. file' = file /\ Files' = Files /\ \A g : Of(g)' = Of(g) /\ Out(g)' = Out(g)
  BY <1>1, SameFile
<1>5. pc \in {"stage", "assemble", "start", "arm"} => file \in Files
  BY Running, Calls DEF Inv
<1>6. Now'
  BY <1>1, <1>2, <1>4, <1>5 DEF Inv, Now, Untouched, Over
<1>7. Ends'
  BY <1>1, <1>4 DEF Inv, Ends
<1> QED BY <1>3, <1>6, <1>7 DEF Inv

\* A callback that finds a process running is that of the test that waits.
LEMMA StepKill ==
  ASSUME Inv, NEW f \in Files, Kill(f)
  PROVE  /\ Inv'
         /\ \A g \in Files : status'[g] = "killed" /\ status[g] # "killed" =>
              g = file /\ pc = "wait" /\ timer[g] = "firing" /\ status[g] = "none"
<1>1. /\ timer[f] = "firing" /\ timer' = [timer EXCEPT ![f] = "fired"] /\ pc' = pc
      /\ UNCHANGED <<suite, todo, tested, results, disk>>
  BY DEF Kill, runner
<1>2. /\ timer' \in [Files -> {"none", "armed", "firing", "fired", "stopped"}]
      /\ \A g \in Files : timer[g] = "none" => timer'[g] = "none"
  BY <1>1 DEF Inv, Types
<1>3. file' = file /\ Files' = Files /\ \A g : Of(g)' = Of(g) /\ Out(g)' = Out(g)
  BY <1>1, SameFile
<1>4. pc \in {"stage", "assemble", "start", "arm"} => file \in Files
  BY Running, Calls DEF Inv
<1>5. CASE proc[f] # "running"
  <2>1. UNCHANGED <<proc, status>>
    BY <1>5 DEF Kill
  <2>2. Types' /\ InOrder' /\ Fresh' /\ Past' /\ Judged'
    BY <1>1, <1>2, <2>1, Quiet DEF Inv, Types
  <2>3. Now'
    BY <1>1, <1>2, <1>3, <1>4, <2>1 DEF Inv, Now, Untouched, Over
  <2>4. Ends'
    BY <1>3, <2>1 DEF Inv, Ends
  <2> QED BY <2>1, <2>2, <2>3, <2>4 DEF Inv
<1>6. CASE proc[f] = "running"
  <2>1. proc' = [proc EXCEPT ![f] = "ended"] /\ status' = [status EXCEPT ![f] = "killed"]
    BY <1>6 DEF Kill
  <2>2. f = file /\ pc \in {"arm", "wait"}
    BY <1>6, OnlyRunning
  <2>3. pc = "wait" /\ status[f] = "none"
    BY <1>1, <1>6, <2>2 DEF Inv, Now, Ends
  <2>4. /\ proc' \in [Files -> {"none", "running", "ended", "reaped"}] /\ proc'[f] = "ended"
        /\ status' \in [Files -> {"none", "zero", "nonzero", "killed"}] /\ status'[f] = "killed"
        /\ \A g \in Files : g # f => proc'[g] = proc[g] /\ status'[g] = status[g]
    BY <2>1 DEF Inv, Types
  <2>5. Types' /\ InOrder' /\ Fresh' /\ Past' /\ Judged'
    BY <1>1, <1>2, <2>2, <2>4, Quiet DEF Inv, Types, Calling
  <2>6. Now'
    BY <1>1, <1>3, <2>2, <2>3, <2>4 DEF Inv, Now, Over
  <2>7. Ends'
    BY <1>3, <2>4 DEF Inv, Ends
  <2> QED BY <1>1, <2>2, <2>3, <2>4, <2>5, <2>6, <2>7 DEF Inv
<1> QED BY <1>5, <1>6

-----------------------------------------------------------------------------
LEMMA Stutters ==
  ASSUME Inv, UNCHANGED vars
  PROVE  Inv'
<1>1. UNCHANGED <<suite, todo, pc, tested, disk, proc, status, timer, results>>
  BY DEF vars
<1>2. file' = file /\ Files' = Files /\ \A g : Of(g)' = Of(g) /\ Out(g)' = Out(g)
  BY <1>1, SameFile
<1>3. Types' /\ InOrder' /\ Fresh' /\ Past' /\ Judged'
  BY <1>1, Quiet DEF Inv, Types
<1>4. Now'
  BY <1>1, <1>2 DEF Inv, Now, Untouched
<1>5. Ends'
  BY <1>1, <1>2 DEF Inv, Ends
<1> QED BY <1>3, <1>4, <1>5 DEF Inv

\* Each step keeps the invariant.
LEMMA Keeps == Inv /\ [Next]_vars => Inv'
<1> SUFFICES ASSUME Inv, [Next]_vars PROVE Inv'
  OBVIOUS
<1>1. CASE Walk
  BY <1>1, StepOpenDir, StepUnreadable, StepSkipFile, StepCallTest, StepPrintResults DEF Walk
<1>2. CASE Stage
  BY <1>2, StepPanic, StepFailStage, StepPassStage, StepCreateTemp, StepAssemble,
     StepFailAssemble, StepPanicAssemble DEF Stage
<1>3. CASE Exec
  BY <1>3, StepStartProcess, StepFailStart, StepArmTimer, StepWait, StepStopTimer,
     StepReturnStatus DEF Exec
<1>4. CASE \E f \in Files : Exit(f) \/ TimeOut(f) \/ Kill(f)
  BY <1>4, StepExit, StepTimeOut, StepKill
<1>5. CASE UNCHANGED vars
  BY <1>5, Stutters
<1> QED BY <1>1, <1>2, <1>3, <1>4, <1>5 DEF Next, Main, Ended

\* Every run stays within the invariant: what is behind is reaped and judged,
\* what is ahead is untouched, and the running call is where Now says.
THEOREM Invariant == Spec => []Inv
<1>1. Init => Inv
  BY Begins
<1>2. Inv /\ [Next]_vars => Inv'
  BY Keeps
<1> QED BY <1>1, <1>2, PTL DEF Spec

\* Between two tests no file that Test or Compile made is left, and no process
\* is left running or unreaped, for every tree of folders and every behaviour
\* of stages and programs (Test, genBinary, execWithTimeout).
THEOREM NothingLeft == Spec => []LeavesNothing
<1>1. ASSUME Inv PROVE LeavesNothing
  <2> SUFFICES ASSUME pc \in {"walk"} \cup Over
               PROVE  disk = {} /\ \A f \in Files : proc[f] \in {"none", "reaped"}
    BY DEF LeavesNothing
  <2>1. disk = {}
    BY <1>1 DEF Inv, Now
  <2>2. ASSUME NEW f \in Files PROVE proc[f] \in {"none", "reaped"}
    <3>1. ~(proc[f] \in {"running", "ended"})
      BY <1>1, OnlyRunning DEF Over
    <3> QED BY <3>1, <1>1 DEF Inv, Types
  <2> QED BY <2>1, <2>2
<1> QED BY <1>1, Invariant, PTL

\* A callback kills only the process of the test that waits, after that test's
\* own time, and only while it has not ended (execWithTimeout).
THEOREM LateCallbacksHarmless == Spec => KillsOnlyLate
<1> DEFINE A == \A f \in Files : status'[f] = "killed" /\ status[f] # "killed" =>
                  f = file /\ pc = "wait" /\ timer[f] = "firing" /\ status[f] = "none"
<1>1. ASSUME Inv, [Next]_vars PROVE [A]_vars
  <2>1. CASE UNCHANGED status
    BY <2>1
  <2>2. CASE \E f \in Files : Exit(f) \/ TimeOut(f) \/ Kill(f)
    <3>1. PICK f \in Files : Exit(f) \/ TimeOut(f) \/ Kill(f)
      BY <2>2
    <3>2. CASE Exit(f)
      BY <1>1, <3>2, StepExit
    <3>3. CASE TimeOut(f)
      BY <3>3, <2>1 DEF TimeOut
    <3>4. CASE Kill(f)
      BY <1>1, <3>4, StepKill
    <3> QED BY <3>1, <3>2, <3>3, <3>4
  <2>3. CASE Main \/ Ended \/ UNCHANGED vars
    <3>1. UNCHANGED status
      BY <2>3 DEF Main, Walk, Stage, Exec, OpenDir, Unreadable, SkipFile, CallTest, PrintResults,
         Panic, FailStage, PassStage, CreateTemp, Assemble, FailAssemble, PanicAssemble,
         StartProcess, FailStart, ArmTimer, Wait, StopTimer, ReturnStatus, Ended, vars
    <3> QED BY <3>1, <2>1
  <2> QED BY <1>1, <2>2, <2>3 DEF Next
<1>2. [A]_vars => [\A f \in Files : status'[f] = "killed" /\ status[f] # "killed" =>
                     /\ f = file /\ pc = "wait"
                     /\ timer[f] = "firing" /\ status[f] = "none"]_vars
  OBVIOUS
<1> QED BY <1>1, <1>2, Invariant, PTL DEF Spec, KillsOnlyLate

\* Where every file keeps the promise of its name, a test is reported as passed
\* exactly when it did what its name says, whichever of its process and its
\* timer comes first, and whatever earlier timers still do (Test).
THEOREM VerdictsRight ==
  ASSUME \A s \in Suites : \A f \in DOMAIN s.tests : KeepsPromise(s.tests[f])
  PROVE  Spec => []VerdictRight
<1>1. ASSUME Inv PROVE VerdictRight
  <2> SUFFICES ASSUME NEW f \in Files, Returned(f)
               PROVE  Passed(f) <=> DidAsNamed(f)
    BY DEF VerdictRight
  <2>1. KeepsPromise(Of(f))
    BY <1>1 DEF Inv, Types, Of, Files
  <2>2. \A i \in DOMAIN results : tested[i] = f => (results[i].ok <=> DidAsNamed(f))
    BY <1>1, <2>1 DEF Inv, Judged, Right
  <2> QED BY <2>2 DEF Returned, Passed
<1> QED BY <1>1, Invariant, PTL

-----------------------------------------------------------------------------
\* The test runner does what a run over a test folder promises, for every
\* tree of test folders: it reaches every test once, gives each a verdict
\* it may get, and counts them right.
\*
\* To Inv, Books adds that what the walk has
\* not reached is still to be visited (Found), what a process tells of its
\* file (Born), and what a result tells (Told).

Reached(f) == \E k \in DOMAIN tested : tested[k] = f

\* Every test is behind the walk or ahead of it.
Found == \A f \in Sources : Reached(f) \/ \E i \in DOMAIN todo : Within(suite, f, todo[i])

Sourced == \A k \in DOMAIN tested : tested[k] \in Sources

Built(f) == Of(f).stage = "binary" /\ Of(f).assembles = "yes"

\* A process is that of a binary that was built and started, and ends as it does.
Born == /\ pc = "start" => Built(file)
        /\ \A f \in Files : /\ proc[f] # "none" => Built(f) /\ Of(f).starts
                            /\ status[f] = "zero" => proc[f] # "none" /\ "zero" \in Of(f).ends

\* A failure without a message is a panic; the others name their file.
ToldOf(f, r) == ~r.ok => /\ r.message = "empty" <=> Panicked(f)
                         /\ r.message # "empty" => r.file = f

Told == \A i \in DOMAIN results : ToldOf(tested[i], results[i])

Promised == \A f \in Files : KeepsPromise(Of(f))

Books == /\ Found /\ Sourced /\ Born /\ Told
         /\ Promised => Tally

-----------------------------------------------------------------------------
\* Counting.

\* All tests were reached, each once.
LEMMA AllReached ==
  ASSUME Inv, Books, pc = "walk", todo = <<>>
  PROVE  /\ Len(results) \in Nat
         /\ DOMAIN results = 1 .. Len(results) /\ DOMAIN tested = DOMAIN results
         /\ \A i \in DOMAIN results : tested[i] \in Sources
         /\ \A i, j \in DOMAIN results : i # j => tested[i] # tested[j]
         /\ \A f \in Sources : \E i \in DOMAIN results : tested[i] = f
<1>1. /\ Len(results) \in Nat /\ DOMAIN results = 1 .. Len(results)
      /\ Len(tested) \in Nat /\ DOMAIN tested = 1 .. Len(tested)
  BY LenProperties DEF Inv, Types
<1>2. Len(results) = Len(tested) - 0
  BY DEF Inv, Types
<1>3. DOMAIN tested = DOMAIN results
  BY <1>1, <1>2
<1>4. DOMAIN todo = {}
  OBVIOUS
<1>5. \A f \in Sources : \E i \in DOMAIN results : tested[i] = f
  BY <1>3, <1>4 DEF Books, Found, Reached
<1>6. ASSUME NEW i \in DOMAIN results, NEW j \in DOMAIN results, i < j
      PROVE  tested[i] # tested[j]
  <2>1. Of(tested[i]).line < Of(tested[j]).line /\ Of(tested[i]).line \in Nat
    BY <1>3, <1>6, TestedLines DEF Inv, InOrder
  <2> QED BY <2>1
<1>7. \A i, j \in DOMAIN results : i # j => i < j \/ j < i
  BY <1>1
<1>8. \A i, j \in DOMAIN results : i # j => tested[i] # tested[j]
  BY <1>6, <1>7
<1>9. \A i \in DOMAIN results : tested[i] \in Sources
  BY <1>3 DEF Books, Sourced
<1> QED BY <1>1, <1>3, <1>5, <1>8, <1>9

LEMMA Counts ==
  ASSUME NEW S, NEW I, IsFiniteSet(I), NEW q,
         \A i \in I : q[i] \in S,
         \A i, j \in I : i # j => q[i] # q[j],
         \A x \in S : \E i \in I : q[i] = x
  PROVE  Cardinality(S) = Cardinality(I)
<1> DEFINE f == [i \in I |-> q[i]]
<1>1. f \in Bijection(I, S)
  BY DEF Bijection, Injection, Surjection, IsInjective
<1>2. ExistsBijection(I, S)
  BY <1>1 DEF ExistsBijection
<1> QED BY <1>2, FS_Bijection

\* What printResults says, of all the results.
LEMMA TallyRight ==
  ASSUME Inv, Books, Promised, PrintResults
  PROVE  /\ summary'.total = Cardinality(Sources)
         /\ summary'.failed = Cardinality(Failing)
         /\ summary'.named = {f \in Failing : ~Panicked(f)}
<1> DEFINE n == Len(results)
           I == {i \in DOMAIN results : ~results[i].ok}
           T == {i \in I : results[i].message # "empty"}
<1>1. pc = "walk" /\ todo = <<>>
        /\ summary' = [failed |-> Cardinality(I), total |-> n,
                       named |-> {results[i].file : i \in T}]
  BY DEF PrintResults
<1>2. /\ n \in Nat /\ DOMAIN results = 1 .. n /\ DOMAIN tested = DOMAIN results
      /\ \A i \in DOMAIN results : tested[i] \in Sources
      /\ \A i, j \in DOMAIN results : i # j => tested[i] # tested[j]
      /\ \A f \in Sources : \E i \in DOMAIN results : tested[i] = f
  BY <1>1, AllReached
<1>3. summary'.total = n /\ summary'.failed = Cardinality(I)
        /\ summary'.named = {results[i].file : i \in T}
  BY <1>1
<1> HIDE DEF n
<1>4. IsFiniteSet(1 .. n) /\ Cardinality(1 .. n) = n
  BY <1>2, FS_Interval
<1>5. IsFiniteSet(I)
  BY <1>2, <1>4, FS_Subset
<1>6. Cardinality(Sources) = n
  BY <1>2, <1>4, Counts
<1>7. \A i \in DOMAIN results : results[i].ok <=> DidAsNamed(tested[i])
  BY <1>2 DEF Inv, Judged, Right, Promised, Sources
<1>8. \A i \in I : tested[i] \in Failing
  BY <1>2, <1>7 DEF Failing
<1>9. \A f \in Failing : \E i \in I : tested[i] = f
  BY <1>2, <1>7 DEF Failing
<1>10. Cardinality(Failing) = Cardinality(I)
  BY <1>2, <1>5, <1>8, <1>9, Counts
<1>11. \A i \in T : results[i].file = tested[i]
  BY DEF Books, Told, ToldOf
<1>12. \A i \in I : i \in T <=> ~Panicked(tested[i])
  BY DEF Books, Told, ToldOf
<1>13. {results[i].file : i \in T} = {f \in Failing : ~Panicked(f)}
  BY <1>8, <1>9, <1>11, <1>12
<1> QED BY <1>3, <1>6, <1>10, <1>13

-----------------------------------------------------------------------------
\* The walk reaches every test.

\* What depends on the folder only.
LEMMA SameSuite ==
  ASSUME suite' = suite
  PROVE  /\ Files' = Files /\ Sources' = Sources
         /\ \A f : /\ Of(f)' = Of(f) /\ (IsSource(f)' <=> IsSource(f))
                   /\ (Built(f)' <=> Built(f)) /\ (Panicked(f)' <=> Panicked(f))
                   /\ CodesIn(f)' = CodesIn(f)
                   /\ (KeepsPromise(Of(f))' <=> KeepsPromise(Of(f)))
         /\ \A f, r : ToldOf(f, r)' <=> ToldOf(f, r)
         /\ Promised' <=> Promised
<1>1. Files' = Files /\ \A f : Of(f)' = Of(f)
  BY DEF Files, Of
<1>2. \A f : /\ (IsSource(f)' <=> IsSource(f)) /\ (Built(f)' <=> Built(f))
             /\ (Panicked(f)' <=> Panicked(f)) /\ CodesIn(f)' = CodesIn(f)
             /\ (KeepsPromise(Of(f))' <=> KeepsPromise(Of(f)))
  BY <1>1 DEF IsSource, Built, Panicked, CodesIn
<1>3. Sources' = Sources
  BY <1>1, <1>2 DEF Sources
<1>4. \A f, r : ToldOf(f, r)' <=> ToldOf(f, r)
  BY <1>2 DEF ToldOf
<1>5. Promised' <=> Promised
  BY <1>1, <1>2 DEF Promised
<1> QED BY <1>1, <1>2, <1>3, <1>4, <1>5

LEMMA FilesLines ==
  ASSUME Types, NEW f \in Files
  PROVE  Of(f).line \in Nat /\ Of(f) = suite.tests[f]
BY SuitesShape DEF Types, IsTree, Of, Files

LEMMA FoundOpenDir ==
  ASSUME Inv, Found, OpenDir
  PROVE  Found'
<1> DEFINE d  == Head(todo).name
           es == suite.dirs[d].entries
           n  == Len(es)
<1>1. /\ Types /\ todo # <<>> /\ Head(todo).kind = "dir"
      /\ todo' = es \o Tail(todo) /\ suite' = suite /\ tested' = tested
  BY DEF Inv, OpenDir, At
<1>2. /\ Head(todo) = todo[1] /\ Head(todo) \in Entries(suite)
      /\ Tail(todo) \in Seq(Entries(suite))
      /\ \A i \in DOMAIN Tail(todo) : i + 1 \in DOMAIN todo /\ Tail(todo)[i] = todo[i + 1]
      /\ Len(todo) \in Nat /\ Len(Tail(todo)) = Len(todo) - 1
  BY <1>1, Rest
<1>3. d \in DOMAIN suite.dirs
  BY <1>1, <1>2 DEF Entries
<1>4. es \in Seq(Entries(suite))
  BY <1>1, <1>3, SuitesShape DEF Types, IsTree
<1>5. /\ \A i \in DOMAIN es : i \in DOMAIN todo' /\ todo'[i] = es[i]
      /\ \A i \in DOMAIN Tail(todo) : n + i \in DOMAIN todo' /\ todo'[n + i] = Tail(todo)[i]
  <2> DEFINE t == Tail(todo)
             m == Len(t)
  <2>1. /\ n \in Nat /\ DOMAIN es = 1 .. n /\ m \in Nat /\ DOMAIN t = 1 .. m
        /\ es \o t \in Seq(Entries(suite)) /\ Len(es \o t) = n + m
        /\ \A i \in 1 .. n + m : (es \o t)[i] = IF i <= n THEN es[i] ELSE t[i - n]
    BY <1>2, <1>4, ConcatProperties, LenProperties
  <2>2. DOMAIN (es \o t) = 1 .. n + m
    BY <2>1, LenProperties
  <2>3. todo' = es \o t
    BY <1>1
  <2> HIDE DEF t, m, n, es
  <2>4. ASSUME NEW i \in 1 .. n PROVE i \in 1 .. n + m /\ i <= n
    BY <2>1
  <2>5. ASSUME NEW i \in 1 .. m PROVE n + i \in 1 .. n + m /\ ~(n + i <= n) /\ (n + i) - n = i
    BY <2>1
  <2>6. \A i \in DOMAIN es : i \in DOMAIN todo' /\ todo'[i] = es[i]
    BY <2>1, <2>2, <2>3, <2>4
  <2>7. \A i \in DOMAIN t : n + i \in DOMAIN todo' /\ todo'[n + i] = t[i]
    BY <2>1, <2>2, <2>3, <2>5
  <2> QED BY <2>6, <2>7 DEF t
<1>6. ListsAll(suite)
  BY <1>1, SuitesShape DEF Types
<1> SUFFICES ASSUME NEW f \in Sources, ~ Reached(f)
             PROVE  \E i \in DOMAIN todo' : Within(suite, f, todo'[i])
  BY <1>1, SameSuite DEF Found, Reached
<1>7. PICK i \in DOMAIN todo : Within(suite, f, todo[i])
  BY DEF Found
<1>8. CASE i = 1
  <2>1. Within(suite, f, Dir(d))
    BY <1>1, <1>2, <1>7, <1>8 DEF Within, Dir, FirstLine, LastLine
  <2>2. PICK j \in DOMAIN es : Within(suite, f, es[j])
    BY <1>3, <1>6, <2>1 DEF ListsAll, Sources, Files
  <2> QED BY <1>5, <2>2
<1>9. CASE i # 1
  <2>1. i - 1 \in DOMAIN Tail(todo) /\ Tail(todo)[i - 1] = todo[i]
    <3>1. DOMAIN todo = 1 .. Len(todo) /\ DOMAIN Tail(todo) = 1 .. Len(Tail(todo))
      BY <1>1, <1>2, LenProperties DEF Types
    <3>2. i \in 1 .. Len(todo)
      BY <3>1
    <3>3. i - 1 \in 1 .. Len(todo) - 1 /\ (i - 1) + 1 = i
      BY <1>2, <1>9, <3>2
    <3> QED BY <1>2, <3>1, <3>3
  <2> QED BY <1>5, <1>7, <2>1
<1> QED BY <1>8, <1>9

\* The head of the walk is left behind: of a file, that file.
LEMMA FoundTail ==
  ASSUME Inv, Found, todo # <<>>, Head(todo).kind = "file", todo' = Tail(todo), suite' = suite,
         \A f \in Sources : Reached(f) \/ f = Head(todo).name => Reached(f)'
  PROVE  Found'
<1>1. /\ Head(todo) = todo[1] /\ Len(todo) \in Nat
      /\ \A i \in DOMAIN todo' : i + 1 \in DOMAIN todo /\ todo'[i] = todo[i + 1]
      /\ Len(todo') = Len(todo) - 1 /\ todo \in Seq(Entries(suite))
      /\ todo' \in Seq(Entries(suite))
  BY Rest DEF Inv, Types
<1> SUFFICES ASSUME NEW f \in Sources, ~ Reached(f)'
             PROVE  \E i \in DOMAIN todo' : Within(suite, f, todo'[i])
  BY SameSuite DEF Found
<1>2. ~ Reached(f) /\ f # Head(todo).name
  OBVIOUS
<1>3. PICK i \in DOMAIN todo : Within(suite, f, todo[i])
  BY <1>2 DEF Found
<1>4. i # 1
  BY <1>1, <1>2, <1>3 DEF Within
<1>5. i - 1 \in DOMAIN todo' /\ todo'[i - 1] = todo[i]
  <2>1. DOMAIN todo = 1 .. Len(todo) /\ DOMAIN todo' = 1 .. Len(todo')
    BY <1>1, LenProperties
  <2>2. i \in 1 .. Len(todo)
    BY <2>1
  <2>3. i - 1 \in 1 .. Len(todo) - 1 /\ (i - 1) + 1 = i
    BY <1>1, <1>4, <2>2
  <2> QED BY <1>1, <2>1, <2>3
<1> QED BY <1>3, <1>5

-----------------------------------------------------------------------------
\* The walk keeps the books.

\* Nothing happens to a process.
LEMMA BornSame ==
  ASSUME Born, suite' = suite, UNCHANGED <<proc, status>>, pc' # "start"
  PROVE  Born'
BY SameSuite DEF Born

\* The folder goes on, with no result and no file more.
LEMMA WalkBooks ==
  ASSUME Inv, Books, pc = "walk", pc' \in {"walk", "fatal"}, Found',
         UNCHANGED <<suite, tested, results, proc, status>>
  PROVE  Books'
<1>1. Sourced' /\ Told'
  BY SameSuite DEF Books, Sourced, Told
<1>2. Born'
  BY BornSame DEF Books
<1>3. Tally'
  BY DEF Tally
<1> QED BY <1>1, <1>2, <1>3 DEF Books

LEMMA BooksOpenDir == ASSUME Inv, Books, OpenDir PROVE Books'
<1>1. /\ pc = "walk" /\ pc' = "walk" /\ UNCHANGED <<suite, tested, results, proc, status>>
  BY DEF OpenDir, At
<1> QED BY <1>1, FoundOpenDir, WalkBooks DEF Books

LEMMA BooksUnreadable == ASSUME Inv, Books, Unreadable PROVE Books'
<1>1. /\ pc = "walk" /\ pc' = "fatal" /\ todo' = todo
      /\ UNCHANGED <<suite, tested, results, proc, status>>
  BY DEF Unreadable, At
<1>2. Found'
  BY <1>1, SameSuite DEF Books, Found, Reached
<1> QED BY <1>1, <1>2, WalkBooks

LEMMA BooksSkipFile == ASSUME Inv, Books, SkipFile PROVE Books'
<1>1. /\ pc = "walk" /\ pc' = "walk" /\ todo' = Tail(todo) /\ todo # <<>>
      /\ Head(todo).kind = "file" /\ ~IsSource(Head(todo).name)
      /\ UNCHANGED <<suite, tested, results, proc, status>>
  BY DEF SkipFile, At
<1>2. \A f \in Sources : Reached(f) \/ f = Head(todo).name => Reached(f)'
  BY <1>1 DEF Sources, Reached
<1>3. Found'
  BY <1>1, <1>2, FoundTail DEF Books
<1> QED BY <1>1, <1>3, WalkBooks

LEMMA FileNamed ==
  ASSUME NEW e \in Entries(suite), e.kind = "file"
  PROVE  e.name \in Files
BY DEF Entries, Files

LEMMA BooksCallTest == ASSUME Inv, Books, CallTest PROVE Books'
<1> DEFINE h == Head(todo).name
           n == Len(tested)
<1>1. /\ pc = "walk" /\ pc' = "stage" /\ todo' = Tail(todo) /\ todo # <<>>
      /\ Head(todo).kind = "file" /\ IsSource(h) /\ tested' = Append(tested, h)
      /\ UNCHANGED <<suite, results, proc, status>>
  BY DEF CallTest, At
<1>2. h \in Files
  <2>1. Head(todo) \in Entries(suite)
    BY <1>1, Rest DEF Inv
  <2> QED BY <1>1, <2>1, FileNamed
<1>3. /\ n \in Nat /\ DOMAIN tested = 1 .. n /\ DOMAIN tested' = 1 .. n + 1
      /\ tested'[n + 1] = h /\ \A k \in 1 .. n : tested'[k] = tested[k]
      /\ Len(results) = n /\ DOMAIN results = 1 .. n
  <2>1. tested \in Seq(Files)
    BY DEF Inv, Types
  <2>2. /\ tested' \in Seq(Files) /\ Len(tested') = n + 1
        /\ tested'[n + 1] = h /\ \A k \in 1 .. n : tested'[k] = tested[k]
    BY <2>1, <1>1, <1>2, AppendProperties
  <2>3. n \in Nat /\ DOMAIN tested = 1 .. n /\ DOMAIN tested' = 1 .. Len(tested')
    BY <2>1, <2>2, LenProperties
  <2>4. Len(results) = n - 0
    BY <1>1 DEF Inv, Types
  <2>5. DOMAIN results = 1 .. Len(results)
    BY LenProperties DEF Inv, Types
  <2>6. Len(results) = n
    BY <2>3, <2>4
  <2> QED BY <2>2, <2>3, <2>5, <2>6
<1> HIDE DEF n
<1>4. \A f \in Sources : Reached(f) \/ f = h => Reached(f)'
  <2>1. n + 1 \in DOMAIN tested' /\ 1 .. n \subseteq DOMAIN tested'
    BY <1>3
  <2> QED BY <1>3, <2>1 DEF Reached
<1>5. Found'
  BY <1>1, <1>4, FoundTail DEF Books
<1>6. Sourced'
  <2>1. h \in Sources
    BY <1>1, <1>2 DEF Sources
  <2>2. \A k \in DOMAIN tested' : k \in 1 .. n \/ k = n + 1
    BY <1>3
  <2> QED BY <1>1, <1>3, <2>1, <2>2, SameSuite DEF Books, Sourced
<1>7. Told'
  BY <1>1, <1>3, SameSuite DEF Books, Told
<1>8. Born'
  BY <1>1, BornSame DEF Books
<1>9. Tally'
  BY <1>1 DEF Tally
<1> QED BY <1>5, <1>6, <1>7, <1>8, <1>9 DEF Books

LEMMA BooksPrintResults == ASSUME Inv, Books, PrintResults PROVE Books'
<1>1. /\ pc = "walk" /\ pc' = "done" /\ todo' = todo
      /\ UNCHANGED <<suite, tested, results, proc, status>>
  BY DEF PrintResults
<1>2. Found' /\ Sourced' /\ Told'
  BY <1>1, SameSuite DEF Books, Found, Reached, Sourced, Told
<1>3. Born'
  BY <1>1, BornSame DEF Books
<1>4. ASSUME Promised PROVE Tally'
  <2>1. \A f : DidAsNamed(f)' <=> DidAsNamed(f)
    BY <1>1, SameSuite DEF DidAsNamed
  <2>2. Failing' = Failing
    BY <1>1, <2>1, SameSuite DEF Failing
  <2>3. Sources' = Sources /\ {f \in Failing : ~Panicked(f)}' = {f \in Failing : ~Panicked(f)}
    BY <1>1, <2>2, SameSuite
  <2> QED BY <1>4, <2>2, <2>3, TallyRight DEF Tally
<1> QED BY <1>1, <1>2, <1>3, <1>4, SameSuite DEF Books

-----------------------------------------------------------------------------
\* The running call of Test goes on, and the others.

LEMMA QuietBooks ==
  ASSUME Inv, Books, UNCHANGED <<suite, todo, tested, results>>, pc' # "done", Born'
  PROVE  Books'
<1>1. Found' /\ Sourced' /\ Told'
  BY SameSuite DEF Books, Found, Reached, Sourced, Told
<1>2. Tally'
  BY DEF Tally
<1> QED BY <1>1, <1>2 DEF Books

LEMMA BooksAssemble == ASSUME Inv, Books, Assemble PROVE Books'
<1>1. /\ pc = "assemble" /\ pc' = "start" /\ Of(file).assembles = "yes"
      /\ UNCHANGED <<suite, todo, tested, results, proc, status>>
  BY DEF Assemble
<1>2. Built(file)
  BY <1>1 DEF Inv, Now, Built
<1>3. Born'
  BY <1>1, <1>2, SameFile, SameSuite DEF Books, Born
<1> QED BY <1>1, <1>3, QuietBooks

LEMMA BooksStartProcess == ASSUME Inv, Books, StartProcess PROVE Books'
<1>1. /\ pc = "start" /\ pc' = "arm" /\ Of(file).starts
      /\ proc' = [proc EXCEPT ![file] = "running"]
      /\ UNCHANGED <<suite, todo, tested, results, status>>
  BY DEF StartProcess
<1>2. file \in Files /\ Built(file) /\ proc \in [Files -> {"none", "running", "ended", "reaped"}]
  BY <1>1, Running DEF Inv, Calling, Books, Born, Types
<1>3. /\ proc'[file] = "running" /\ \A f \in Files : f # file => proc'[f] = proc[f]
  BY <1>1, <1>2
<1>4. Born'
  BY <1>1, <1>2, <1>3, SameSuite DEF Books, Born
<1> QED BY <1>1, <1>4, QuietBooks

\* A process that changes was there before.
LEMMA LaterBooks ==
  ASSUME Inv, Books, UNCHANGED <<suite, todo, tested, results>>, pc' \notin {"start", "done"},
         \A f \in Files : /\ proc'[f] = "none" <=> proc[f] = "none"
                          /\ status'[f] = "zero" /\ status[f] # "zero"
                               => proc[f] # "none" /\ "zero" \in Of(f).ends
  PROVE  Books'
<1>1. Born'
  BY SameSuite DEF Books, Born
<1> QED BY <1>1, QuietBooks

LEMMA BooksQuiet ==
  ASSUME Inv, Books, CreateTemp \/ ArmTimer \/ StopTimer
  PROVE  Books'
<1>1. /\ UNCHANGED <<suite, todo, tested, results, proc, status>>
      /\ pc' \notin {"start", "done"}
  BY DEF CreateTemp, ArmTimer, StopTimer
<1> QED BY <1>1, LaterBooks

LEMMA BooksWait == ASSUME Inv, Books, Wait PROVE Books'
<1>1. /\ pc = "wait" /\ pc' = "stop" /\ proc[file] = "ended"
      /\ proc' = [proc EXCEPT ![file] = "reaped"]
      /\ UNCHANGED <<suite, todo, tested, results, status>>
  BY DEF Wait
<1>2. \A f \in Files : proc'[f] = "none" <=> proc[f] = "none"
  BY <1>1 DEF Inv, Types
<1> QED BY <1>1, <1>2, LaterBooks

LEMMA BooksExit == ASSUME Inv, Books, NEW f \in Files, Exit(f) PROVE Books'
<1>1. /\ proc[f] = "running" /\ proc' = [proc EXCEPT ![f] = "ended"] /\ pc' = pc
      /\ pc \notin Over /\ UNCHANGED <<suite, todo, tested, results>>
  BY DEF Exit, runner
<1>2. PICK s \in Of(f).ends : status' = [status EXCEPT ![f] = s]
  BY DEF Exit
<1>3. pc \in {"arm", "wait"}
  BY <1>1, OnlyRunning
<1>4. ASSUME NEW g \in Files
      PROVE  /\ proc'[g] = "none" <=> proc[g] = "none"
             /\ status'[g] = "zero" /\ status[g] # "zero"
                  => proc[g] # "none" /\ "zero" \in Of(g).ends
  <2>1. CASE g = f
    <3>1. proc'[g] = "ended" /\ status'[g] = s
      BY <1>1, <1>2, <2>1 DEF Inv, Types
    <3> QED BY <1>1, <1>2, <2>1, <3>1
  <2>2. CASE g # f
    <3>1. proc'[g] = proc[g] /\ status'[g] = status[g]
      BY <1>1, <1>2, <2>2 DEF Inv, Types
    <3> QED BY <3>1
  <2> QED BY <2>1, <2>2
<1> QED BY <1>1, <1>3, <1>4, LaterBooks

LEMMA BooksTimeOut == ASSUME Inv, Books, NEW f \in Files, TimeOut(f) PROVE Books'
<1>1. /\ UNCHANGED <<suite, todo, tested, results, proc, status>> /\ pc' = pc /\ pc \notin Over
  BY DEF TimeOut, runner
<1>2. file' = file
  BY <1>1, SameFile
<1>3. Born'
  BY <1>1, <1>2, SameSuite DEF Books, Born
<1>4. pc' # "done"
  BY <1>1 DEF Over
<1> QED BY <1>1, <1>3, <1>4, QuietBooks

LEMMA BooksKill == ASSUME Inv, Books, NEW f \in Files, Kill(f) PROVE Books'
<1>1. /\ UNCHANGED <<suite, todo, tested, results>> /\ pc' = pc /\ pc \notin Over
  BY DEF Kill, runner
<1>2. pc' # "done"
  BY <1>1 DEF Over
<1>3. CASE proc[f] = "running"
  <2>1. proc' = [proc EXCEPT ![f] = "ended"] /\ status' = [status EXCEPT ![f] = "killed"]
    BY <1>3 DEF Kill
  <2>2. pc \in {"arm", "wait"}
    BY <1>3, OnlyRunning
  <2>3. \A g \in Files : /\ proc'[g] = "none" <=> proc[g] = "none"
                         /\ status'[g] = "zero" => status[g] = "zero"
    BY <1>3, <2>1 DEF Inv, Types
  <2> QED BY <1>1, <2>2, <2>3, LaterBooks
<1>4. CASE proc[f] # "running"
  <2>1. UNCHANGED <<proc, status>>
    BY <1>4 DEF Kill
  <2>2. file' = file
    BY <1>1, SameFile
  <2>3. Born'
    BY <1>1, <2>1, <2>2, SameSuite DEF Books, Born
  <2> QED BY <1>1, <1>2, <2>3, QuietBooks
<1> QED BY <1>3, <1>4

LEMMA BooksStutter == ASSUME Inv, Books, UNCHANGED vars PROVE Books'
<1>1. UNCHANGED <<suite, todo, pc, tested, proc, status, results, summary>>
  BY DEF vars
<1>2. Found' /\ Sourced' /\ Told'
  BY <1>1, SameSuite DEF Books, Found, Reached, Sourced, Told
<1>3. Born'
  BY <1>1, SameFile, SameSuite DEF Books, Born
<1>4. Tally' <=> Tally
  <2>1. \A f : DidAsNamed(f)' <=> DidAsNamed(f)
    BY <1>1, SameSuite DEF DidAsNamed
  <2>2. Failing' = Failing
    BY <1>1, <2>1, SameSuite DEF Failing
  <2>3. Sources' = Sources /\ {f \in Failing : ~Panicked(f)}' = {f \in Failing : ~Panicked(f)}
    BY <1>1, <2>2, SameSuite
  <2> QED BY <1>1, <2>2, <2>3 DEF Tally
<1> QED BY <1>1, <1>2, <1>3, <1>4, SameSuite DEF Books

-----------------------------------------------------------------------------
\* The call of Test returns.

LEMMA ReturnBooks ==
  ASSUME Inv, Books, pc \in {"stage", "assemble", "start", "return"},
         NEW r, NEW gone, Return(r, gone), UNCHANGED <<proc, status>>,
         r \in Results, ToldOf(file, r)
  PROVE  Books'
<1> DEFINE m == Len(results)
<1>1. /\ results' = Append(results, r) /\ pc' = "walk"
      /\ UNCHANGED <<suite, todo, tested, proc, status>>
  BY DEF Return
<1>2. m \in Nat /\ DOMAIN results = 1 .. m /\ tested[m + 1] = file
  <2>1. Len(tested) = m + 1 /\ file = tested[Len(tested)]
    BY Running DEF Inv, Calling
  <2>2. m \in Nat /\ DOMAIN results = 1 .. m
    BY LenProperties DEF Inv, Types
  <2> QED BY <2>1, <2>2
<1>3. /\ DOMAIN results' = 1 .. m + 1
      /\ results'[m + 1] = r /\ \A i \in 1 .. m : results'[i] = results[i]
  <2>1. results \in Seq(Results)
    BY DEF Inv, Types
  <2>2. /\ results' \in Seq(Results) /\ Len(results') = m + 1
        /\ results'[m + 1] = r /\ \A i \in 1 .. m : results'[i] = results[i]
    BY <2>1, <1>1, AppendProperties
  <2> QED BY <2>2, LenProperties
<1> HIDE DEF m
<1>4. \A i \in DOMAIN results' : \/ i \in DOMAIN results /\ results'[i] = results[i]
                                 \/ tested[i] = file /\ results'[i] = r
  BY <1>2, <1>3
<1>5. Told'
  BY <1>1, <1>4, SameSuite DEF Books, Told
<1>6. Found' /\ Sourced'
  BY <1>1, SameSuite DEF Books, Found, Reached, Sourced
<1>7. Born'
  BY <1>1, BornSame DEF Books
<1>8. Tally'
  BY <1>1 DEF Tally
<1> QED BY <1>5, <1>6, <1>7, <1>8 DEF Books

\* What compareError says of an error.
LEMMA ComparedTold ==
  ASSUME NEW f \in Files, NEW code \in ErrorCodes, ~Panicked(f)
  PROVE  ToldOf(f, CompareError(f, code))
<1>1. code # NoCode
  BY DEF NoCode, ErrorCodes, NoEntryPoint, InternalCompilerError, FileError
<1>2. \/ CompareError(f, code) = Result(f, TRUE, "empty")
      \/ CompareError(f, code) = Result(f, FALSE, "code")
  BY <1>1 DEF CompareError
<1> QED BY <1>2 DEF ToldOf, Result

LEMMA BooksReturns ==
  ASSUME Inv, Books,
         Panic \/ FailStage \/ PassStage \/ FailAssemble \/ PanicAssemble \/ FailStart \/ ReturnStatus
  PROVE  Books'
<1> USE DEF Calling
<1>1. CASE Panic
  <2>1. ToldOf(file, Recovered)
    BY <1>1 DEF Panic, ToldOf, Recovered, Result, Panicked
  <2> QED BY <1>1, <2>1, ZeroResult, ReturnBooks DEF Panic
<1>2. CASE FailStage
  <2>1. /\ pc = "stage" /\ Of(file).stage \notin {"panics", "nothing", "binary"}
        /\ Return(StageError(file, Of(file).stage), {}) /\ UNCHANGED <<proc, status>>
    BY <1>2 DEF FailStage
  <2>2. file \in Files /\ suite \in Suites
    BY <2>1, Running DEF Inv, Types
  <2>3. Of(file).stage \in ErrorCodes
    BY <2>1, <2>2, SuitesShape DEF Behaves, Of, Files
  <2>4. StageError(file, Of(file).stage) \in Results
    BY <2>1, <2>2, <2>3, StageJudged DEF Inv, Now, Untouched
  <2>5. ~Panicked(file)
    BY <2>1 DEF Panicked
  <2>6. ToldOf(file, StageError(file, Of(file).stage))
    <3>1. \/ StageError(file, Of(file).stage) = Result(file, FALSE, "internal")
          \/ StageError(file, Of(file).stage) = Result(file, TRUE, "empty")
          \/ StageError(file, Of(file).stage) = CompareError(file, Of(file).stage)
      BY DEF StageError, InternalCompilerError, NoEntryPoint
    <3>2. ToldOf(file, Result(file, FALSE, "internal")) /\ ToldOf(file, Result(file, TRUE, "empty"))
      BY <2>5 DEF ToldOf, Result
    <3> QED BY <2>2, <2>3, <2>5, <3>1, <3>2, ComparedTold
  <2> QED BY <2>1, <2>4, <2>6, ReturnBooks
<1>3. CASE PassStage
  <2> DEFINE r == Result(file, TRUE, "empty")
  <2>1. pc = "stage" /\ Return(r, {}) /\ UNCHANGED <<proc, status>>
    BY <1>3 DEF PassStage
  <2>2. r \in Results /\ ToldOf(file, r)
    BY <2>1, Running DEF Inv, ToldOf, Result, Results
  <2> QED BY <2>1, <2>2, ReturnBooks
<1>4. CASE FailAssemble
  <2> DEFINE r == CompareError(file, FileError)
  <2>1. /\ pc = "assemble" /\ Of(file).assembles = "no" /\ Return(r, {Temp})
        /\ UNCHANGED <<proc, status>>
    BY <1>4 DEF FailAssemble
  <2>2. file \in Files /\ FileError \in ErrorCodes /\ Of(file).stage = "binary"
    BY <2>1, Running DEF Inv, Now, ErrorCodes
  <2>3. ~Panicked(file)
    BY <2>1, <2>2 DEF Panicked
  <2>4. r \in Results /\ ToldOf(file, r)
    BY <2>2, <2>3, Compared, ComparedTold
  <2> QED BY <2>1, <2>4, ReturnBooks
<1>5. CASE PanicAssemble
  <2>1. /\ pc = "assemble" /\ Of(file).assembles = "panics" /\ Return(Recovered, {Temp})
        /\ UNCHANGED <<proc, status>>
    BY <1>5 DEF PanicAssemble
  <2>2. Of(file).stage = "binary"
    BY <2>1 DEF Inv, Now
  <2>3. ToldOf(file, Recovered)
    BY <2>1, <2>2 DEF ToldOf, Recovered, Result, Panicked
  <2> QED BY <2>1, <2>3, ZeroResult, ReturnBooks
<1>6. CASE FailStart
  <2> DEFINE r == Result(file, FALSE, "os")
  <2>1. pc = "start" /\ Return(r, {Out(file)}) /\ UNCHANGED <<proc, status>>
    BY <1>6 DEF FailStart
  <2>2. ~Panicked(file)
    BY <2>1 DEF Books, Born, Built, Panicked
  <2>3. r \in Results /\ ToldOf(file, r)
    BY <2>1, <2>2, Running DEF Inv, ToldOf, Result, Results
  <2> QED BY <2>1, <2>3, ReturnBooks
<1>7. CASE ReturnStatus
  <2> DEFINE r == IF status[file] = "zero" THEN Result(file, TRUE, "empty")
                  ELSE Result(file, FALSE, "os")
  <2>1. pc = "return" /\ Return(r, {Out(file)}) /\ UNCHANGED <<proc, status>>
    BY <1>7 DEF ReturnStatus
  <2>2. file \in Files /\ proc[file] = "reaped"
    BY <2>1, Running DEF Inv, Now
  <2>3. ~Panicked(file)
    BY <2>2 DEF Books, Born, Built, Panicked
  <2>4. r \in Results /\ ToldOf(file, r)
    BY <2>2, <2>3 DEF ToldOf, Result, Results
  <2> QED BY <2>1, <2>4, ReturnBooks
<1> QED BY <1>1, <1>2, <1>3, <1>4, <1>5, <1>6, <1>7

-----------------------------------------------------------------------------
LEMMA BooksBegin == Init => Books
<1> SUFFICES ASSUME Init PROVE Books
  OBVIOUS
<1>1. ListsAll(suite)
  BY SuitesShape DEF Init
<1>2. todo = <<Dir("root")>> /\ DOMAIN todo = {1} /\ todo[1] = Dir("root")
  BY DEF Init
<1>3. Found
  BY <1>1, <1>2 DEF Found, ListsAll, Sources, Files
<1>4. DOMAIN tested = {} /\ DOMAIN results = {}
  BY DEF Init
<1>5. Sourced /\ Told
  BY <1>4 DEF Sourced, Told
<1>6. Born
  BY DEF Init, Born
<1>7. Tally
  BY DEF Init, Tally
<1> QED BY <1>3, <1>5, <1>6, <1>7 DEF Books

LEMMA BooksKept == Inv /\ Books /\ [Next]_vars => Books'
<1> SUFFICES ASSUME Inv, Books, [Next]_vars PROVE Books'
  OBVIOUS
<1>1. CASE Walk
  BY <1>1, BooksOpenDir, BooksUnreadable, BooksSkipFile, BooksCallTest, BooksPrintResults DEF Walk
<1>2. CASE Stage
  BY <1>2, BooksReturns, BooksQuiet, BooksAssemble DEF Stage
<1>3. CASE Exec
  BY <1>3, BooksReturns, BooksQuiet, BooksStartProcess, BooksWait DEF Exec
<1>4. CASE \E f \in Files : Exit(f) \/ TimeOut(f) \/ Kill(f)
  BY <1>4, BooksExit, BooksTimeOut, BooksKill
<1>5. CASE UNCHANGED vars
  BY <1>5, BooksStutter
<1> QED BY <1>1, <1>2, <1>3, <1>4, <1>5 DEF Next, Main, Ended

THEOREM BooksInvariant == Spec => [](Inv /\ Books)
<1>1. Init => Inv /\ Books
  BY Begins, BooksBegin
<1>2. (Inv /\ Books) /\ [Next]_vars => (Inv /\ Books)'
  BY Keeps, BooksKept
<1> QED BY <1>1, <1>2, PTL DEF Spec

\* The types of the variables, in the terms of Testing.
LEMMA Typed == Inv => TypeOK
<1> SUFFICES ASSUME Inv PROVE TypeOK
  OBVIOUS
<1>1. ToSet(tested) \subseteq Files
  BY ElementsOf DEF Inv, Types, ToSet
<1>2. disk \subseteq {Temp} \cup {Out(f) : f \in Files}
  <2>1. CASE pc \in {"walk"} \cup Over
    BY <2>1 DEF Inv, Now
  <2>2. CASE pc \in Calling
    <3>1. file \in Files
      BY <2>2, Running DEF Inv
    <3> QED BY <2>2, <3>1 DEF Inv, Now, Calling
  <2> QED BY <2>1, <2>2 DEF Inv, Types
<1> QED BY <1>1, <1>2 DEF Inv, Types, TypeOK, Calling

\* For every tree of folders whose names promise an error only to a file that
\* gets one: there is a result for each call of Test, and at the end printResults
\* has counted every test of the tree once, as failed exactly those that did not do as
\* their name says, and named those of them that did not panic.
THEOREM CountsRight ==
  ASSUME \A s \in Suites : \A f \in DOMAIN s.tests : KeepsPromise(s.tests[f])
  PROVE  Spec => []Counted
<1>1. ASSUME Inv, Books PROVE Counted
  <2>1. Promised
    BY <1>1 DEF Inv, Types, Promised, Of, Files
  <2> QED BY <1>1, <2>1, Typed DEF Books, Counted
<1> QED BY <1>1, BooksInvariant, PTL

-----------------------------------------------------------------------------
\* The run implements a run over a test folder.

\* The abstract variables.
Mays     == [f \in Sources |-> May(f)]
Readable == \A d \in DOMAIN suite.dirs : suite.dirs[d].readable
Verdicts == [f \in Sources |-> Verdict(f)]
Progress == IF pc \in Over THEN pc ELSE "running"

\* What a result says of its file is one of the verdicts it may get.
Said(r) == IF r.ok THEN "ok" ELSE "fail"

LEMMA Allowed ==
  ASSUME Inv, Books, Promised, NEW i \in DOMAIN results, tested[i] \in Files
  PROVE  Said(results[i]) \in May(tested[i])
<1> DEFINE f == tested[i]
<1>1. results[i].ok <=> DidAsNamed(f)
  BY DEF Inv, Judged, Right, Promised
<1> HIDE DEF f
<1>2. CASE CodesIn(f) # {}
  BY <1>1, <1>2 DEF Said, May, f
<1>3. CASE CodesIn(f) = {}
  <2>1. DidAsNamed(f) <=> Of(f).stage \in {"nothing", NoEntryPoint} \/ status[f] = "zero"
    BY <1>3 DEF DidAsNamed
  <2>2. status[f] = "zero" =>
          /\ Of(f).stage = "binary" /\ Of(f).assembles = "yes" /\ Of(f).starts
          /\ "zero" \in Of(f).ends
    BY DEF Books, Born, Built, f
  <2>3. CASE Of(f).stage \in {"nothing", NoEntryPoint}
    BY <1>1, <1>3, <2>1, <2>3 DEF Said, May, f
  <2>4. CASE Of(f).stage \notin {"nothing", NoEntryPoint} /\ status[f] = "zero"
    BY <1>1, <1>3, <2>1, <2>2, <2>4 DEF Said, May, f
  <2>5. CASE Of(f).stage \notin {"nothing", NoEntryPoint} /\ status[f] # "zero"
    BY <1>1, <1>3, <2>1, <2>5 DEF Said, May, f
  <2> QED BY <2>3, <2>4, <2>5
<1> QED BY <1>2, <1>3

\* What a file may get depends on the folder only.
LEMMA SameMay ==
  ASSUME suite' = suite
  PROVE  Mays' = Mays /\ Readable' = Readable
<1>1. ASSUME NEW f PROVE May(f)' = May(f)
  <2>1. Of(f)' = Of(f) /\ CodesIn(f)' = CodesIn(f)
    BY SameSuite
  <2>2. CodesIn(f) # {} => (DidAsNamed(f)' <=> DidAsNamed(f))
    BY <2>1 DEF DidAsNamed
  <2> QED BY <2>1, <2>2 DEF May
<1>2. Sources' = Sources
  BY SameSuite
<1> QED BY <1>1, <1>2 DEF Mays, Readable

LEMMA SameVerdicts ==
  ASSUME suite' = suite, results' = results, \A i \in DOMAIN results : tested'[i] = tested[i]
  PROVE  Verdicts' = Verdicts
<1>1. ASSUME NEW f PROVE Verdict(f)' = Verdict(f)
  <2>1. (Returned(f)' <=> Returned(f)) /\ (Passed(f)' <=> Passed(f))
    BY DEF Returned, Passed
  <2> QED BY <2>1 DEF Verdict
<1>2. Sources' = Sources
  BY SameSuite
<1> QED BY <1>1, <1>2 DEF Verdicts

\* A step that decides nothing and ends nothing changes nothing there is to see.
LEMMA SuiteStutters ==
  ASSUME Mays' = Mays, Readable' = Readable, Verdicts' = Verdicts, Progress' = Progress
  PROVE  UNCHANGED Suite!tsVars
BY DEF Suite!tsVars, Mays, Readable, Verdicts, Progress

LEMMA NothingDecided ==
  ASSUME suite' = suite, results' = results, \A i \in DOMAIN results : tested'[i] = tested[i],
         pc \notin Over, pc' \notin Over
  PROVE  UNCHANGED Suite!tsVars
<1>1. Progress' = Progress
  BY DEF Progress
<1> QED BY <1>1, SameMay, SameVerdicts, SuiteStutters

LEMMA FileDecided ==
  ASSUME NEW f \in Sources, Verdicts[f] = "none", NEW v \in Mays[f],
         Verdicts' = [Verdicts EXCEPT ![f] = v],
         Mays' = Mays, Readable' = Readable, Progress = "running", Progress' = "running"
  PROVE  Suite!Next
<1>1. Suite!Decide(f)
  BY DEF Suite!Decide, Mays, Readable, Verdicts, Progress
<1>2. f \in Suite!Files
  BY DEF Suite!Files
<1> QED BY <1>1, <1>2 DEF Suite!Next

AllAllowed == \A i \in DOMAIN results : Said(results[i]) \in May(tested[i])

\* A return of Test decides the running file, which had no verdict.
LEMMA ReturnDecides ==
  ASSUME Inv, Books, AllAllowed', pc \in {"stage", "assemble", "start", "return"},
         NEW r, NEW gone, Return(r, gone), r \in Results
  PROVE  Suite!Next
<1> DEFINE m == Len(results)
<1>1. /\ results' = Append(results, r) /\ pc' = "walk"
      /\ UNCHANGED <<suite, todo, tested>>
  BY DEF Return
<1>2. /\ m \in Nat /\ DOMAIN results = 1 .. m /\ tested[m + 1] = file /\ file \in Sources
      /\ \A i \in 1 .. m : tested[i] # file
  <2>1. /\ Len(tested) = m + 1 /\ file = tested[Len(tested)] /\ Len(tested) \in DOMAIN tested
        /\ \A i \in DOMAIN results : tested[i] # file
    BY Running DEF Inv, Calling
  <2>2. m \in Nat /\ DOMAIN results = 1 .. m
    BY LenProperties DEF Inv, Types
  <2>3. file \in Sources
    BY <2>1 DEF Books, Sourced
  <2> QED BY <2>1, <2>2, <2>3
<1>3. /\ DOMAIN results' = 1 .. m + 1
      /\ results'[m + 1] = r /\ \A i \in 1 .. m : results'[i] = results[i]
  <2>1. results \in Seq(Results)
    BY DEF Inv, Types
  <2>2. /\ results' \in Seq(Results) /\ Len(results') = m + 1
        /\ results'[m + 1] = r /\ \A i \in 1 .. m : results'[i] = results[i]
    BY <2>1, <1>1, AppendProperties
  <2> QED BY <2>2, LenProperties
<1> HIDE DEF m
<1>4. Mays' = Mays /\ Readable' = Readable
  BY <1>1, SameMay
<1>5. Said(r) \in Mays[file]
  <2>1. m + 1 \in DOMAIN results' /\ results'[m + 1] = r /\ tested'[m + 1] = file
    BY <1>1, <1>2, <1>3
  <2>2. ASSUME NEW f, NEW k \in DOMAIN results', tested'[k] = f
        PROVE  Said(results'[k]) \in May(f)'
    BY <2>2 DEF AllAllowed, Said
  <2>3. ASSUME NEW f, f = file PROVE Said(r) \in May(f)' /\ Mays'[f] = May(f)'
    BY <1>1, <1>2, <2>1, <2>2, <2>3, SameSuite DEF Mays
  <2> QED BY <2>3, <1>4
<1>6. ~ Returned(file)
  BY <1>2 DEF Returned
<1>7. Verdict(file)' = Said(r)
  <2>1. file' = file
    BY <1>1, SameFile
  <2>2. \A i \in DOMAIN results' : tested'[i] = file => i = m + 1
    BY <1>1, <1>2, <1>3
  <2>3. m + 1 \in DOMAIN results' /\ tested'[m + 1] = file
    BY <1>1, <1>2, <1>3
  <2>4. Returned(file)' /\ (Passed(file)' <=> r.ok)
    BY <1>3, <2>1, <2>2, <2>3 DEF Returned, Passed
  <2> QED BY <2>4 DEF Verdict, Said
<1>8. \A f : f # file => Verdict(f)' = Verdict(f)
  <2> TAKE f
  <2> SUFFICES ASSUME f # file PROVE Verdict(f)' = Verdict(f)
    OBVIOUS
  <2>1. \A i \in DOMAIN results' : tested'[i] = f => i \in DOMAIN results /\ results'[i] = results[i]
    BY <1>1, <1>2, <1>3
  <2>2. \A i \in DOMAIN results : i \in DOMAIN results' /\ results'[i] = results[i]
    BY <1>2, <1>3
  <2>3. (Returned(f)' <=> Returned(f)) /\ (Passed(f)' <=> Passed(f))
    BY <1>1, <2>1, <2>2 DEF Returned, Passed
  <2> QED BY <2>3 DEF Verdict
<1>9. Verdicts[file] = "none"
  BY <1>2, <1>6 DEF Verdicts, Verdict
<1>10. Verdicts' = [Verdicts EXCEPT ![file] = Said(r)]
  <2> DEFINE V == [f \in Sources |-> Verdict(f)']
  <2>1. Verdicts' = V
    BY <1>1, SameSuite DEF Verdicts
  <2>2. V = [Verdicts EXCEPT ![file] = Said(r)]
    <3>1. file' = file
      BY <1>1, SameFile
    <3>2. \A f \in Sources : Verdict(f)' = IF f = file THEN Said(r) ELSE Verdict(f)
      BY <1>7, <1>8, <3>1
    <3> QED BY <1>2, <3>2 DEF Verdicts
  <2> QED BY <2>1, <2>2
<1>11. Progress = "running" /\ Progress' = "running"
  BY <1>1 DEF Progress, Over
<1> QED BY <1>2, <1>4, <1>5, <1>9, <1>10, <1>11, FileDecided

\* The results that Test returns are results.
LEMMA ReturnsDecide ==
  ASSUME Inv, Inv', Books, AllAllowed',
         Panic \/ FailStage \/ PassStage \/ FailAssemble \/ PanicAssemble \/ FailStart \/ ReturnStatus
  PROVE  Suite!Next
<1>1. PICK r, gone : Return(r, gone)
  BY Zenon DEF Panic, FailStage, PassStage, FailAssemble, PanicAssemble, FailStart, ReturnStatus
<1>2. pc \in {"stage", "assemble", "start", "return"}
  BY DEF Panic, FailStage, PassStage, FailAssemble, PanicAssemble, FailStart, ReturnStatus
<1>3. r \in Results
  <2>1. results' = Append(results, r) /\ suite' = suite
    BY <1>1 DEF Return
  <2>2. results' \in Seq(Results) /\ results \in Seq(Results)
    BY <2>1, SameSuite DEF Inv, Types, Results
  <2>3. Len(results) \in Nat /\ Len(results') = Len(results) + 1 /\ results'[Len(results) + 1] = r
    BY <2>1, <2>2
  <2>4. Len(results) + 1 \in DOMAIN results'
    BY <2>2, <2>3, LenProperties
  <2> QED BY <2>2, <2>3, <2>4, ElementsOf
<1> QED BY <1>1, <1>2, <1>3, ReturnDecides

LEMMA FinishesOrGivesUp ==
  ASSUME Inv, Books, Unreadable \/ PrintResults
  PROVE  Suite!Next
<1>1. /\ pc = "walk" /\ pc' \in Over
      /\ UNCHANGED <<suite, todo, tested, results>>
  BY DEF Unreadable, PrintResults, At, Over
<1>2. Mays' = Mays /\ Readable' = Readable /\ Verdicts' = Verdicts
  BY <1>1, SameMay, SameVerdicts
<1>3. Progress = "running" /\ Progress' = pc'
  BY <1>1 DEF Progress, Over
<1>4. CASE Unreadable
  <2>1. ~suite.dirs[Head(todo).name].readable /\ Head(todo).kind = "dir" /\ todo # <<>>
          /\ pc' = "fatal"
    BY <1>4 DEF Unreadable, At
  <2>2. Head(todo) \in Entries(suite)
    BY <2>1, Rest DEF Inv
  <2>3. Head(todo).name \in DOMAIN suite.dirs
    BY <2>1, <2>2 DEF Entries
  <2>4. ~Readable
    BY <2>1, <2>3 DEF Readable
  <2>5. Suite!GiveUp
    BY <1>2, <1>3, <2>1, <2>4 DEF Suite!GiveUp, Mays, Readable, Verdicts, Progress
  <2> QED BY <2>5 DEF Suite!Next
<1>5. CASE PrintResults
  <2>1. pc' = "done" /\ todo = <<>>
    BY <1>5 DEF PrintResults
  <2>2. \A f \in Sources : Returned(f)
    BY <1>1, <2>1, AllReached DEF Returned
  <2>3. \A f \in Sources : Verdicts[f] # "none"
    BY <2>2 DEF Verdicts, Verdict
  <2>4. \A f \in Suite!Files : Verdicts[f] # "none"
    BY <2>3 DEF Suite!Files
  <2>5. Suite!Finish
    BY <1>2, <1>3, <2>1, <2>4 DEF Suite!Finish, Mays, Readable, Verdicts, Progress
  <2> QED BY <2>5 DEF Suite!Next
<1> QED BY <1>4, <1>5

\* Every step is a step of a run over a test folder, or one that does not show.
LEMMA SuiteStep ==
  ASSUME Inv, Inv', Books, AllAllowed', [Next]_vars
  PROVE  [Suite!Next]_(Suite!tsVars)
<1>1. CASE Unreadable \/ PrintResults
  BY <1>1, FinishesOrGivesUp
<1>2. CASE Panic \/ FailStage \/ PassStage \/ FailAssemble \/ PanicAssemble \/ FailStart \/ ReturnStatus
  BY <1>2, ReturnsDecide
<1>3. CASE CallTest
  <2>1. /\ pc = "walk" /\ pc' = "stage" /\ suite' = suite /\ results' = results
        /\ tested' = Append(tested, Head(todo).name)
    BY <1>3 DEF CallTest, At
  <2>2. Len(results) = Len(tested) - 0
    BY <2>1 DEF Inv, Types
  <2>3. \A i \in DOMAIN results : tested'[i] = tested[i]
    <3>1. DOMAIN results = 1 .. Len(results) /\ Len(tested) \in Nat
      BY LenProperties DEF Inv, Types
    <3>2. DOMAIN results = 1 .. Len(tested)
      BY <2>2, <3>1
    <3>3. tested \in Seq(Files)
      BY DEF Inv, Types
    <3> QED BY <2>1, <3>2, <3>3
  <2> QED BY <2>1, <2>3, NothingDecided DEF Over
<1>4. CASE \/ OpenDir \/ SkipFile \/ CreateTemp \/ Assemble \/ StartProcess \/ ArmTimer
           \/ Wait \/ StopTimer
  <2>1. UNCHANGED <<suite, tested, results>> /\ pc \notin Over /\ pc' \notin Over
    BY <1>4 DEF OpenDir, SkipFile, CreateTemp, Assemble, StartProcess, ArmTimer, Wait, StopTimer,
       At, Over
  <2> QED BY <2>1, NothingDecided
<1>5. CASE \E f \in Files : Exit(f) \/ TimeOut(f) \/ Kill(f)
  <2>1. UNCHANGED <<suite, tested, results>> /\ pc \notin Over /\ pc' \notin Over
    BY <1>5 DEF Exit, TimeOut, Kill, runner
  <2> QED BY <2>1, NothingDecided
<1>6. CASE UNCHANGED vars
  <2>1. UNCHANGED <<suite, tested, results, pc>>
    BY <1>6 DEF vars
  <2> QED BY <2>1, SameMay, SameVerdicts, SuiteStutters DEF Progress
<1> QED BY <1>1, <1>2, <1>3, <1>4, <1>5, <1>6 DEF Next, Main, Walk, Stage, Exec, Ended

LEMMA SuiteBegins == Init => Suite!Init
<1> SUFFICES ASSUME Init PROVE Suite!Init
  OBVIOUS
<1>1. \A f : ~Returned(f)
  BY DEF Init, Returned
<1>2. Progress = "running"
  BY DEF Init, Progress, Over
<1>3. Verdicts = [f \in Sources |-> "none"]
  BY <1>1 DEF Verdicts, Verdict
<1>4. Suite!Files = Sources
  BY DEF Suite!Files
<1> QED BY <1>2, <1>3, <1>4 DEF Suite!Init, Verdicts, Progress

\* For every tree of folders whose names promise an error only to a file that
\* gets one, the run is a run over a test folder as far as what may happen goes: each
\* test gets one verdict, one it may get, and keeps it; the run ends only when
\* all have one, or is given up over a folder that cannot be read.
THEOREM RunsTheSuite ==
  ASSUME \A s \in Suites : \A f \in DOMAIN s.tests : KeepsPromise(s.tests[f])
  PROVE  Spec => Suite!Init /\ [][Suite!Next]_(Suite!tsVars)
<1>1. ASSUME Inv, Books PROVE AllAllowed
  <2>1. Promised
    BY <1>1 DEF Inv, Types, Promised, Of, Files
  <2>2. \A i \in DOMAIN results : tested[i] \in Files
    <3>1. Len(results) \in Nat /\ DOMAIN results = 1 .. Len(results)
            /\ Len(tested) \in Nat /\ DOMAIN tested = 1 .. Len(tested)
      BY <1>1, LenProperties DEF Inv, Types
    <3>2. Len(results) = Len(tested) - 0 \/ Len(results) = Len(tested) - 1
      BY <1>1 DEF Inv, Types
    <3>3. \A i \in DOMAIN results : i \in DOMAIN tested
      <4> DEFINE m == Len(results) n == Len(tested)
      <4>1. m \in Nat /\ n \in Nat /\ (m = n - 0 \/ m = n - 1)
        BY <3>1, <3>2
      <4>2. DOMAIN results = 1 .. m /\ DOMAIN tested = 1 .. n
        BY <3>1
      <4> HIDE DEF m, n
      <4>3. m <= n
        BY <4>1
      <4> QED BY <4>1, <4>2, <4>3
    <3> QED BY <1>1, <3>3, ElementsOf DEF Inv, Types
  <2> QED BY <1>1, <2>1, <2>2, Allowed DEF AllAllowed
<1>2. Spec => []Inv /\ []Books /\ []AllAllowed
  BY <1>1, BooksInvariant, PTL
<1>3. Inv /\ Inv' /\ Books /\ AllAllowed' /\ [Next]_vars => [Suite!Next]_(Suite!tsVars)
  BY SuiteStep
<1>4. Init => Suite!Init
  BY SuiteBegins
<1> QED BY <1>2, <1>3, <1>4, PTL DEF Spec

=============================================================================

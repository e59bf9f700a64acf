------------------------------ MODULE Testing -------------------------------
(***************************************************************************)
(* A run over a folder of tests.  main walks the folder and calls Test on  *)
(* every source file: a stage of the compiler, and when the stage leaves a *)
(* binary, a run of the binary under a timeout.  The binary is a process   *)
(* of its own, and so is the callback of the timer: the callback may run   *)
(* before, while or after the process ends, and after the next test has    *)
(* started.  A stage may panic; Test's deferred calls then run.            *)
(***************************************************************************)
EXTENDS Naturals, Sequences, SequencesExt, FiniteSetsExt

CONSTANT Suites   \* each: its folders (dirs) and how its files behave (tests)

NoEntryPoint          == "E044"
InternalCompilerError == "E102"
FileError             == "E007"
ErrorCodes == {NoEntryPoint, InternalCompilerError, FileError, "E002", "E003"}
NoCode                == ""      \* no error code in the name of a file
NoName                == ""      \* the file of a zero TestResult
Temp                  == "mpc_temp"

\* What a folder holds, in a suite s.
Entries(s) == [kind : {"dir"}, name : DOMAIN s.dirs] \cup [kind : {"file"}, name : DOMAIN s.tests]

\* The lines of an entry in a listing of the whole tree of folders, in the order
\* they are read; those of a folder contain those of its entries.
FirstLine(s, e) == IF e.kind = "dir" THEN s.dirs[e.name].first ELSE s.tests[e.name].line
LastLine(s, e)  == IF e.kind = "dir" THEN s.dirs[e.name].last ELSE s.tests[e.name].line

\* The tests are in a tree of folders: none is found twice.
IsTree(s) ==
  /\ "root" \in DOMAIN s.dirs
  /\ \A f \in DOMAIN s.tests : s.tests[f].line \in Nat
  /\ \A d \in DOMAIN s.dirs :
       LET es == s.dirs[d].entries
       IN /\ es \in Seq(Entries(s))
          /\ s.dirs[d].first \in Nat /\ s.dirs[d].last \in Nat
          /\ s.dirs[d].first <= s.dirs[d].last
          /\ \A i \in DOMAIN es : /\ s.dirs[d].first < FirstLine(s, es[i])
                                  /\ LastLine(s, es[i]) <= s.dirs[d].last
          /\ \A i, j \in DOMAIN es : i < j => LastLine(s, es[i]) < FirstLine(s, es[j])

\* Where a file is listed, or below which folder.
Within(s, f, e) == /\ FirstLine(s, e) <= s.tests[f].line
                   /\ s.tests[f].line <= LastLine(s, e)
                   /\ e.kind = "file" => e.name = f

Dir(d) == [kind |-> "dir", name |-> d]

\* All tests are below the folder, each in an entry of every folder it is below.
ListsAll(s) ==
  \A f \in DOMAIN s.tests :
    /\ Within(s, f, Dir("root"))
    /\ \A d \in DOMAIN s.dirs :
         Within(s, f, Dir(d)) =>
           \E i \in DOMAIN s.dirs[d].entries : Within(s, f, s.dirs[d].entries[i])

\* What can come of a test.
Behaves(t) ==
  /\ t.name \in Seq(STRING)
  /\ t.stage \in {"panics", "nothing", "binary"} \cup ErrorCodes
  /\ t.assembles \in {"yes", "no", "panics"}
  /\ t.starts \in BOOLEAN
  /\ t.ends \subseteq {"zero", "nonzero"}

ASSUME SuitesShape ==
  \A s \in Suites : IsTree(s) /\ ListsAll(s) /\ \A f \in DOMAIN s.tests : Behaves(s.tests[f])

VARIABLES
  suite,    \* the folder the run is over
  todo,     \* entries still to be visited, in order
  pc,       \* where main is
  tested,   \* the files Test was called on, in order
  disk,     \* files the run has created and not removed
  proc,     \* of each file: "none", "running", "ended" or "reaped"
  status,   \* how the process of a file ended
  timer,    \* of each file: "none", "armed", "firing", "fired" or "stopped"
  results,  \* results of the tests that returned
  summary   \* what printResults says

runner == <<suite, todo, pc, tested, disk, results, summary>>
vars == <<suite, todo, pc, tested, disk, proc, status, timer, results, summary>>

Files == DOMAIN suite.tests
Of(f) == suite.tests[f]

\* The binary is named for the module, and the module for its file.
Out(f) == Head(Of(f).name)

\* The file of the call of Test that is running.
file == Last(tested)

Result(f, ok, message) == [file |-> f, ok |-> ok, message |-> message]

-----------------------------------------------------------------------------
Init ==
  /\ suite \in Suites
  /\ todo = <<Dir("root")>>
  /\ pc = "walk" /\ tested = <<>> /\ disk = {}
  /\ proc   = [f \in Files |-> "none"]
  /\ status = [f \in Files |-> "none"]
  /\ timer  = [f \in Files |-> "none"]
  /\ results = <<>>
  /\ summary = [failed |-> 0, total |-> 0, named |-> {}]

-----------------------------------------------------------------------------
\* The walk.  A folder that cannot be read ends the program (Fatal).

At(kind) == pc = "walk" /\ todo # <<>> /\ Head(todo).kind = kind

OpenDir ==
  /\ At("dir") /\ suite.dirs[Head(todo).name].readable
  /\ todo' = suite.dirs[Head(todo).name].entries \o Tail(todo)
  /\ UNCHANGED <<suite, pc, tested, disk, results, summary, proc, status, timer>>

\* Mutant of Unreadable: a folder that cannot be read counts as empty.
UnreadableEmpty ==
  /\ At("dir") /\ ~suite.dirs[Head(todo).name].readable
  /\ todo' = Tail(todo)
  /\ UNCHANGED <<suite, pc, tested, disk, results, summary, proc, status, timer>>

Unreadable ==
  /\ At("dir") /\ ~suite.dirs[Head(todo).name].readable
  /\ pc' = "fatal"
  /\ UNCHANGED <<suite, todo, tested, disk, results, summary, proc, status, timer>>

\* Of(f).name is the name of the file, cut at its dots: a file named mp has none.
IsSource(f) == Len(Of(f).name) > 1 /\ Last(Of(f).name) = "mp"

SkipFile ==
  /\ At("file") /\ ~IsSource(Head(todo).name)
  /\ todo' = Tail(todo)
  /\ UNCHANGED <<suite, pc, tested, disk, results, summary, proc, status, timer>>

CallTest ==
  /\ At("file") /\ IsSource(Head(todo).name)
  /\ tested' = Append(tested, Head(todo).name) /\ todo' = Tail(todo)
  /\ pc' = "stage"
  /\ UNCHANGED <<suite, disk, results, summary, proc, status, timer>>

\* Test has returned r: its deferred calls remove gone.
Return(r, gone) ==
  /\ results' = Append(results, r)
  /\ disk' = disk \ gone
  /\ pc' = "walk"
  /\ UNCHANGED <<suite, todo, tested, summary>>

\* Mutant of PrintResults: counts as failed only what it names.
PrintResultsNamed ==
  LET Failed == {i \in DOMAIN results : ~results[i].ok /\ results[i].message # "empty"}
  IN /\ pc = "walk" /\ todo = <<>>
     /\ summary' = [failed |-> Cardinality(Failed), total |-> Len(results),
                    named |-> {results[i].file : i \in Failed}]
     /\ pc' = "done"
     /\ UNCHANGED <<suite, todo, tested, disk, results, proc, status, timer>>

\* printResults names a failed test only when there is a message.
PrintResults ==
  LET Failed == {i \in DOMAIN results : ~results[i].ok}
      Told   == {i \in Failed : results[i].message # "empty"}
  IN /\ pc = "walk" /\ todo = <<>>
     /\ summary' = [failed |-> Cardinality(Failed), total |-> Len(results),
                    named |-> {results[i].file : i \in Told}]
     /\ pc' = "done"
     /\ UNCHANGED <<suite, todo, tested, disk, results, proc, status, timer>>

-----------------------------------------------------------------------------
\* The stage.  Of(file).stage is what comes of it before the assembler: a
\* panic, an error, nothing to run, or an assembly ("binary").

\* Mutant of ExtractError: the code right after the name of the module.
ExtractErrorSecond(f) ==
  LET sections == Of(f).name
  IN IF Len(sections) < 3 THEN NoCode ELSE sections[2]

ExtractError(f) ==
  LET sections == Of(f).name
  IN IF Len(sections) < 3 THEN NoCode ELSE sections[Len(sections) - 1]

CompareError(f, code) ==
  LET expected == ExtractError(f)
  IN CASE code = NoCode /\ expected # NoCode -> Result(f, FALSE, "nothing")
       [] code # NoCode /\ expected # code   -> Result(f, FALSE, "code")
       [] OTHER                              -> Result(f, TRUE, "empty")

StageError(f, code) ==
  CASE code = InternalCompilerError -> Result(f, FALSE, "internal")
    [] code = NoEntryPoint          -> Result(f, TRUE, "empty")
    [] OTHER                        -> CompareError(f, code)

\* recoverIfFatal: Test returns the zero TestResult.
Recovered == Result(NoName, FALSE, "empty")

Panic ==
  /\ pc = "stage" /\ Of(file).stage = "panics"
  /\ Return(Recovered, {})
  /\ UNCHANGED <<proc, status, timer>>

FailStage ==
  /\ pc = "stage" /\ Of(file).stage \notin {"panics", "nothing", "binary"}
  /\ Return(StageError(file, Of(file).stage), {})
  /\ UNCHANGED <<proc, status, timer>>

PassStage ==
  /\ pc = "stage" /\ Of(file).stage = "nothing"
  /\ Return(Result(file, TRUE, "empty"), {})
  /\ UNCHANGED <<proc, status, timer>>

\* genBinary: the temporary file is created before the assembly is written.
CreateTemp ==
  /\ pc = "stage" /\ Of(file).stage = "binary"
  /\ disk' = disk \cup {Temp}
  /\ pc' = "assemble"
  /\ UNCHANGED <<suite, todo, tested, results, summary, proc, status, timer>>

Assemble ==
  /\ pc = "assemble" /\ Of(file).assembles = "yes"
  /\ disk' = (disk \ {Temp}) \cup {Out(file)}
  /\ pc' = "start"
  /\ UNCHANGED <<suite, todo, tested, results, summary, proc, status, timer>>

FailAssemble ==
  /\ pc = "assemble" /\ Of(file).assembles = "no"
  /\ Return(CompareError(file, FileError), {Temp})
  /\ UNCHANGED <<proc, status, timer>>

\* Mutant of PanicAssemble: the temporary file removed on the way out, not
\* in a deferred call.
PanicAssembleLeaves ==
  /\ pc = "assemble" /\ Of(file).assembles = "panics"
  /\ Return(Recovered, {})
  /\ UNCHANGED <<proc, status, timer>>

PanicAssemble ==
  /\ pc = "assemble" /\ Of(file).assembles = "panics"
  /\ Return(Recovered, {Temp})
  /\ UNCHANGED <<proc, status, timer>>

-----------------------------------------------------------------------------
\* execWithTimeout.

StartProcess ==
  /\ pc = "start" /\ Of(file).starts
  /\ proc' = [proc EXCEPT ![file] = "running"]
  /\ pc' = "arm"
  /\ UNCHANGED <<suite, todo, tested, disk, results, summary, status, timer>>

FailStart ==
  /\ pc = "start" /\ ~Of(file).starts
  /\ Return(Result(file, FALSE, "os"), {Out(file)})
  /\ UNCHANGED <<proc, status, timer>>

ArmTimer ==
  /\ pc = "arm"
  /\ timer' = [timer EXCEPT ![file] = "armed"]
  /\ pc' = "wait"
  /\ UNCHANGED <<suite, todo, tested, disk, results, summary, proc, status>>

Wait ==
  /\ pc = "wait" /\ proc[file] = "ended"
  /\ proc' = [proc EXCEPT ![file] = "reaped"]
  /\ pc' = "stop"
  /\ UNCHANGED <<suite, todo, tested, disk, results, summary, status, timer>>

\* Stop does not wait for a callback that has started.
StopTimer ==
  /\ pc = "stop"
  /\ timer' = [timer EXCEPT ![file] = IF @ = "armed" THEN "stopped" ELSE @]
  /\ pc' = "return"
  /\ UNCHANGED <<suite, todo, tested, disk, results, summary, proc, status>>

ReturnStatus ==
  /\ pc = "return"
  /\ Return(IF status[file] = "zero" THEN Result(file, TRUE, "empty")
            ELSE Result(file, FALSE, "os"), {Out(file)})
  /\ UNCHANGED <<proc, status, timer>>

-----------------------------------------------------------------------------
\* The others: the program under test, the clock, the callback.  Callbacks
\* that are left end with the runner.

Over == {"done", "fatal"}

Exit(f) ==
  /\ pc \notin Over /\ proc[f] = "running"
  /\ \E s \in Of(f).ends : status' = [status EXCEPT ![f] = s]
  /\ proc' = [proc EXCEPT ![f] = "ended"]
  /\ UNCHANGED <<runner, timer>>

TimeOut(f) ==
  /\ pc \notin Over /\ timer[f] = "armed"
  /\ timer' = [timer EXCEPT ![f] = "firing"]
  /\ UNCHANGED <<runner, proc, status>>

\* Mutant of Kill: the callback kills the process of the running test.
KillCurrent(f) ==
  /\ pc \notin Over /\ timer[f] = "firing"
  /\ timer' = [timer EXCEPT ![f] = "fired"]
  /\ IF proc[file] = "running"
     THEN /\ proc' = [proc EXCEPT ![file] = "ended"]
          /\ status' = [status EXCEPT ![file] = "killed"]
     ELSE UNCHANGED <<proc, status>>
  /\ UNCHANGED runner

\* Killing a process that has ended, reaped or not, does nothing.
Kill(f) ==
  /\ pc \notin Over /\ timer[f] = "firing"
  /\ timer' = [timer EXCEPT ![f] = "fired"]
  /\ IF proc[f] = "running"
     THEN /\ proc' = [proc EXCEPT ![f] = "ended"]
          /\ status' = [status EXCEPT ![f] = "killed"]
     ELSE UNCHANGED <<proc, status>>
  /\ UNCHANGED runner

-----------------------------------------------------------------------------
Walk  == OpenDir \/ Unreadable \/ SkipFile \/ CallTest \/ PrintResults
Stage == Panic \/ FailStage \/ PassStage \/ CreateTemp \/ Assemble
           \/ FailAssemble \/ PanicAssemble
Exec  == StartProcess \/ FailStart \/ ArmTimer \/ Wait \/ StopTimer \/ ReturnStatus

Main == Walk \/ Stage \/ Exec

Ended == pc \in Over /\ UNCHANGED vars

Next == \/ Main
        \/ \E f \in Files : Exit(f) \/ TimeOut(f) \/ Kill(f)
        \/ Ended

\* The runner runs, an armed timer expires and a callback runs.  A program
\* under test owes nothing: it may never exit.
Fairness == /\ WF_vars(Main)
            /\ WF_vars(\E f \in Files : TimeOut(f))
            /\ WF_vars(\E f \in Files : Kill(f))

Spec == Init /\ [][Next]_vars /\ Fairness

-----------------------------------------------------------------------------
\* What the runner is for.

\* The comment at the head of testing.go: no code, the file must exit
\* normally; a code, the compiler must end with that error.  A file without
\* entry point is a library, and a stage may leave nothing to run.
CodesIn(f) == ToSet(Of(f).name) \cap ErrorCodes

DidAsNamed(f) ==
  IF CodesIn(f) = {}
  THEN Of(f).stage \in {"nothing", NoEntryPoint} \/ status[f] = "zero"
  ELSE Of(f).stage \in CodesIn(f) \ {InternalCompilerError}

\* A name promises one error, in the part before the suffix, and where it does the
\* compiler gives an error: what Test does not look for, see README, section 4.
KeepsPromise(t) ==
  LET codes == ToSet(t.name) \cap ErrorCodes
  IN codes # {} => /\ Len(t.name) >= 3 /\ codes = {t.name[Len(t.name) - 1]}
                   /\ t.stage \notin {"nothing", "binary"}
                   /\ t.stage = NoEntryPoint => NoEntryPoint \in codes

Returned(f) == \E i \in DOMAIN results : tested[i] = f

Passed(f) == \E i \in DOMAIN results : tested[i] = f /\ results[i].ok

\* Types of the variables; a result for every call of Test but the running one.
TypeOK ==
  /\ suite \in Suites
  /\ pc \in {"walk", "stage", "assemble", "start", "arm", "wait", "stop", "return"} \cup Over
  /\ ToSet(tested) \subseteq Files
  /\ disk \subseteq {Temp} \cup {Out(f) : f \in Files}
  /\ proc \in [Files -> {"none", "running", "ended", "reaped"}]
  /\ status \in [Files -> {"none", "zero", "nonzero", "killed"}]
  /\ timer \in [Files -> {"none", "armed", "firing", "fired", "stopped"}]
  /\ Len(results) = Len(tested) - (IF pc \in {"walk"} \cup Over THEN 0 ELSE 1)

\* A test that returned is reported as passed exactly when it did what its
\* name says, whichever of its process and its timer came first (Test).
VerdictRight == \A f \in Files : Returned(f) => (Passed(f) <=> DidAsNamed(f))

\* When Test has returned, by whichever path, no file it or Compile made is
\* left, and the process it started is reaped: the next test, which may make
\* a binary of the same name, starts from nothing.
LeavesNothing ==
  pc \in {"walk"} \cup Over =>
    disk = {} /\ \A f \in Files : proc[f] \in {"none", "reaped"}

\* What is killed is the process of the test that is waiting, after its own
\* time: a callback that comes late, of this test or of an earlier one,
\* changes nothing (execWithTimeout).
KillsOnlyLate ==
  [][\A f \in Files : status'[f] = "killed" /\ status[f] # "killed" =>
       /\ f = file /\ pc = "wait"
       /\ timer[f] = "firing" /\ status[f] = "none"]_vars

Sources == {f \in Files : IsSource(f)}

Failing == {f \in Sources : ~DidAsNamed(f)}

Panicked(f) == \/ Of(f).stage = "panics"
               \/ Of(f).stage = "binary" /\ Of(f).assembles = "panics"

\* printResults counts every test, counts as failed those that did not do as
\* their name says, and names them, but for those whose stage panicked.
Tally ==
  pc = "done" =>
    /\ summary.total = Cardinality(Sources)
    /\ summary.failed = Cardinality(Failing)
    /\ summary.named = {f \in Failing : ~Panicked(f)}

\* What the comment at the head of testing.go says of a name with a code: the
\* file passes only when the compiler ends with that error.
ExpectedErrorFound ==
  \A f \in Files : Passed(f) /\ CodesIn(f) # {} => Of(f).stage \in CodesIn(f)

-----------------------------------------------------------------------------
\* The abstract run.

\* What each file may come to: a binary that exits normally passes, unless
\* it is too slow.
May(f) ==
  IF CodesIn(f) # {} THEN {IF DidAsNamed(f) THEN "ok" ELSE "fail"}
  ELSE IF Of(f).stage \in {"nothing", NoEntryPoint} THEN {"ok"}
  ELSE IF Of(f).stage = "binary" /\ Of(f).assembles = "yes" /\ Of(f).starts
    THEN {"fail"} \cup {"ok" : s \in Of(f).ends \cap {"zero"}}
  ELSE {"fail"}

Verdict(f) == IF ~Returned(f) THEN "none" ELSE IF Passed(f) THEN "ok" ELSE "fail"

Suite == INSTANCE TestSuite WITH
  may      <- [f \in Sources |-> May(f)],
  readable <- \A d \in DOMAIN suite.dirs : suite.dirs[d].readable,
  verdict  <- [f \in Sources |-> Verdict(f)],
  state    <- IF pc \in Over THEN pc ELSE "running"

\* The run is a run over a test folder: every test gets one verdict, in the
\* end all have one, although a program under test may never exit.
Implements == Suite!Spec

\* The books are right at every moment: a result for each call of Test, and at
\* the end the totals printResults says.
Counted == TypeOK /\ Tally

=============================================================================

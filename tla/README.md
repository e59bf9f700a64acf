# Milipascal: models, checks and proofs

This directory is a TLA+ development of the milipascal compiler (`src/src` of the
repository; paths below are relative to `src/src`). It models the passes in which a
wrong step silently changes what a compiled program computes: the reading of a file, the
resolution of modules and names, the types and numbers of constants, the types of bodies,
the lowering of statements and of control structures to PIR, register allocation, the code
emitted around procedures, the order blocks are written in, and instruction selection; and
the test runner, the one part of the program that is concurrent.

1. [The system](#1-the-system)
2. [The modules](#2-the-modules)
3. [The runs](#3-the-runs)
4. [Disagreements found](#4-disagreements-found)
5. [What is proved](#5-what-is-proved)
6. [What is only model-checked, and what is not modelled](#6-limits)
7. [Plan](#7-plan)

## 1. The system

The compiler is one sequential program. `pipelines.go` calls its passes in a fixed
order; each pass reads the data of the one before and panics, or returns an error
that ends the compilation. Nothing runs concurrently except the test runner
(`testing/testing.go`), which races a process against a timer.

```
source ─ lexer ─ parser ─ resolution ─ typechecker ─ constexpr, asmproc
                                                   │ module
                                           linearization
                                                   │ PIR         (PIR checker)
                                              resalloc
                                                   │ MIR         (MIR checker)
                                                  gen
                                                   │ assembly lines
                                                 fasm
```

| component | state it keeps | operations | interacts with | hard behaviour | what makes it correct |
|---|---|---|---|---|---|
| lexer, parser (`lexer.go`, `parser.go`) | position in the text, one word of look-ahead | `Next`, recursive descent by combinators (`expect`, `repeat`, `repeatBinary`, ...) | resolution calls it for every module | loops over characters that the text may not end; numbers with a base, a type and underscores; productions that leave words to others; ranges of nodes that may be empty | the words are the longest ones, exactly the files of the grammar are parsed, the tree holds every name once and binds operators by level |
| module resolution (`resolution.go`) | table of loaded modules, symbols and references, `Visited` flags | `Resolve`, `resolveModule`, `checkDependencyCycles`, `resolveNames` | parser, file system | a module is in the table before its own imports are; cycles; re-exported names | every module is loaded once, every cycle is reported, every name means one symbol |
| type checker (`typechecker.go`), constant evaluation (`constexpr.go`) | types of symbols and nodes, `Visited` flags of constants and structs | walks over declarations and bodies | tables of resolution; linearization reads the types of nodes | cyclic constants and structs, ranges of literals; a node that has no type because it is a call with several results | accepted programs do not make later passes panic |
| linearization | `context`: current block, temporaries, PIR procedure | `genSet`, `genExpr`, `genIf`, `genWhile`, ... | writes PIR | order of evaluation; a nil current block; an out block that may not exist yet | PIR does what the source does, in its order |
| PIR checker (`core/pir/checker`) | none | `Check` | reads PIR | typing rules of its own; panics on a block no flow reaches | accepts what linearization makes |
| register allocator (`resalloc.go`) | per block: `AvailableRegs`, `UsedRegs`, `AvailableSpills`, `UsedSpills`, `LiveValues`, last uses; per procedure: maxima | `allocBinary`, `allocCopy`, `allocCall`, `transformFlow`, ... over the methods `Free`, `AllocReg`, `Spill`, ... | reads PIR, writes MIR | eviction, spilling, slots shared by arguments and results, ranges over maps | no live value is lost, no stale one is read |
| MIR checker | a symbolic machine | `Check` | reads MIR | | accepts what the allocator makes |
| frame layout (`core/cc/stack`) | none | offset formulas | gen | caller and callee compute one address by two formulas | slots do not overlap, and the formulas meet |
| code generator (`gen.go`) | `Visited` flags, list of true branches | `genBlocks`, `genInstr`, `genProc`, ... | reads MIR, writes lines | two-address form, widths, scratch registers, jumps that are left out | the lines do what MIR says |
| fasm output | none | printing, running `fasm` | external assembler | | |
| test runner (`testing/testing.go`, `main.go`) | process, timer, files on disk, results | `Test`, `execWithTimeout`, `genBinary`, `printResults` | all passes, fasm, the program under test | the callback of a timer against `Wait` and against the next test; panics recovered on the way | a test passes exactly when it did what its name says, and leaves nothing behind |

`PROJECT.json` lists every part of the program with its status, and the places where
the code can go wrong in ways a test hardly reaches (`hazards`).

### PIR and its passes in a little more detail

A PIR procedure is a list of basic blocks. A block has instructions over temporaries,
variables, arguments, globals and literals, and a flow: jump, if, return or exit.
Temporaries live in one block. `allocProc` starts every block with a fresh allocator
state, so the contract between blocks is the contract of the frame: a variable or an
argument is in its frame slot when a block begins. The slot of argument *i* is also
that of result *i*. Inside a block, `LiveValues` says where the newest copy of a value
is (register, spill slot, or callee slot of the last call) and whether the home slot
is out of date (`Mutated`).

## 2. The modules

| module | models | state and actions |
|---|---|---|
| `Lexer` | `lexer/lexer.go` | pure: the word that begins at a character, one operator per `acceptX` and kind of word; a loop the text does not end gives the index `Never` |
| `Parser` | `parser/parser.go` | every production is a value, a list of steps of the combinators the code writes it with; `Prod` runs one at a word and gives the word after it, the nodes, and an error or panic |
| `Grammar` | (abstract) the grammar in the comments over the productions | rules as data and what they derive; `Lenient` leaves out what the parser does not insist on |
| `Reading` | `Parse`: both, one after the other | `words` and `next` are the lexer's position; `ReadWord` hands out a word, `ParseModule` makes the tree. Abstract, in the same module: a word is the longest piece of the text that has the form of one (`WordsFrom`) |
| `Modules` | `resolution/resolution.go`, `core/module/module.go` | `frames` is the Go call stack of `resolveModule` and `resolve`, `walk` the one of the path walks; `deps`, `globals`, `exported`, `refs` are the tables of the modules, `visited` their flags. One action per function, split where it recurses; a range over a map takes the remaining entries (`todo`, `rest`) in any order |
| `ConstExpr` | expressions in `checkExpr` and `computeExpr`, declarations | an expression is the sequence of its nodes in the order the recursion leaves them; operators on types, and on numbers without a width |
| `Constants` | `checkModule`, `checkSymbol` and what they call for constants, data and structs (`typechecker.go`); `evalModule`, `evalSymbol` and what they call (`constexpr.go`) | `frames` is the Go call stack of the walk over modules, `todo` the entries of a map that are left; `s` holds what is written into the tables: `Visited` flags, types, numbers, offsets. A symbol's visit and what it recurses into is one step, a function of `s`: it ranges over slices only |
| `ConstantRules` | (abstract) what declarations mean | recursive definitions by declaration, no order, no flags; what is wrong with a program |
| `ImportRules` | (abstract) what imports and exports mean | declarative: reachable modules, cycles, exported names, the declaration a name stands for, well-formed programs |
| `BodySyntax` | types (`core/types/types.go`), expressions and statements of bodies | no state; a type is its name |
| `BodyTypes` | `checkExpr`, `checkSet` and the other checks of statements (`typechecker.go`) | pure: what the checker leaves of a node (a type, "several results", an error, a panic), in the order of its checks |
| `BodyRules` | (abstract) what types mean | an operator has signatures, an expression the types it gets from them; what it reads and writes in memory, as what |
| `TypedPir` | typed instructions (`pir/util`), operand rules of the PIR checker | pure |
| `Bodies` | `checkBlock`, `genBlock` with everything below it, `checkCode`, one after the other | `at` is the statement or instruction the pass is at, `c` the `context` of linearization; each pass stops at its first error or panic |
| `Pir` | `core/pir`, `pir/util` | operands, instructions and flows as records; no state |
| `RegState` | `state` in `resalloc.go` and its methods | one record `s`: the two stacks, `used`, `usedSpill`, `live`, last uses, the maxima, and `s.cell`, which is what the emitted loads and stores have done to the machine |
| `RegAlloc` | `allocBlock` … `transformReturn` | `alloc` is the record above, `idx` the instruction, `phase` the loop the code is in. One action per `alloc*` function; a range over `LiveValues` that changes the state is a phase whose steps take the remaining entries (`todo`) in any order, since Go's map order is unspecified |
| `Linearize` | expressions and statements of `linearization.go` | source statements as data, lowering as operators on a context record; an expression is the postfix sequence in which `genExpr` visits it |
| `Lowering` | the same, as a system | `LowerStatement` lowers one statement, runs the new PIR on one abstract machine and the source's meaning on another |
| `ControlFlow` | `genBlock`, `genIf`, `genElseIfChain`, `genWhile`, `genDoWhile`, `genReturn`, `genExit`, `setReturn`, `ProperlyTerminates`, PIR checker | `work` is the Go call stack as data: one frame per unfinished construct. One action per function, split where it calls another on a nested body. `curr` is `CurrBlock`, `Nil` where the code sets it to nil. The abstract meaning of the source's structures is at its end, a machine on statements |
| `BlockOrder` | `genBlocks`, `genFalseBranches`, `genCondJmp` | the recursion as a stack of lists of true branches |
| `CompiledFlow` | composes the two | compiles a procedure, then runs source, blocks and lines in step, every condition decided either way, the same way for the three |
| `Frames` | the formulas of `core/cc/stack/stack.go`, `stackReserve`; `genEntry`, `genProc`, `genCall`, `genRet`, `genExit`, operand addresses | `rsp`, `rbp`, the words of the stack, which code runs |
| `Activations` | (abstract) what the calling convention promises | a stack of activations with private slots; `Frames` implements it |
| `Testing` | `testing.go`, the walk of `main.go`, `Compile` and `genBinary` | `pc` is where the runner is, `todo` what is left of the walk, `disk` the files made; of each test its process, its exit status and its timer. The process (`Exit`), the clock (`TimeOut`) and the callback (`Kill`) are actors of their own, and a callback may run after the next test has started |
| `TestSuite` | (abstract) what a run over a folder promises | every file gets one verdict and keeps it, and the run ends; `Testing` implements it |
| `InstrSelect` | `genInstr` and everything below it, `convertToTwoAddr`, `resolveOperand`, `mov_t`; of the MIR checker, the operands each instruction may have (`CheckInstr`) | selects the lines for one instruction, then executes them |
| `Amd64` | (external) processor and assembler, as far as gen uses them | registers with parts, instructions, which forms exist |

`MC*` modules give the constants their values. `RegAllocProofs`, `LoweringProofs`,
`CompiledFlowProofs`, `FramesProofs`, `InstrSelectProofs`, `TestingProofs` and `ModulesProofs` hold the
proofs; `FoldFacts` has what they need of folds and of recursive functions.

How values are abstracted. In `RegAlloc` a cell holds a *token*: "what value v was at
the beginning of the block" or "result k of instruction i". Nothing is computed; a
register is right when its token is the one the PIR block itself has for the value
(`env`). In `Lowering` and `CompiledFlow` values are terms and events. In `InstrSelect`
they are words, because there the widths are the question.

## 3. The runs

Runs that pass (an invariant that is a conjunction of named parts has them in parentheses):

| run | question | instance |
|---|---|---|
| `Lowering` | Does the PIR compute, load, store and call what the source does, in its order? Is every temporary written once, before it is read? | every statement kind × every kind of target (variable, argument, `e@`, field, `f[x]@`) × nine expressions, alone and in every pair |
| `RegAllocAmple` | With the 11 registers of the target, is any value lost or stale, in any block of up to two statements and any kind of block end? | 13 statements that take every branch of every `alloc*` function, 11 ends, all pairs |
| `RegAllocPressure` | The same when registers run out: eviction, spilling, reloading; and does allocation end? | 3 registers, 5 spill slots; every binary tree over 4 to 6 computed operands, alone, as an argument, next to a call, and with variables that hold registers to the end |
| `Frames` | Is every activation's storage private, its arguments and results shared with its caller, and the caller resumed intact? | three procedures of different shapes, one returning more than it takes, recursion as deep as 14 words of stack allow |
| `CompiledFlow` | Whatever the conditions give, do source, blocks and assembly do the same (`Agree`)? Is the verdict on code paths right? When does linearization panic? | every structure around every simple body; every structure around one of those, alone and between statements |
| `Modules` | Is every module loaded once, every cycle of imports and of symbols reported and nothing else, every name the declaration it should be, whatever order the maps are ranged over in? Does resolution end? | every import graph over three modules; over four, every forward graph with at most one edge back; files that cannot be opened or parsed; two modules with every combination of 7 imports, 20 sets of declarations and 7 exports; a module handed on under another name |
| `Constants` | Has every constant its type and number, every struct its size and offsets, whatever order the tables are ranged over in and whoever visits a symbol again? Are exactly the faulty programs rejected? | two constants (13 and 8 expressions), a struct (5 layouts) and data (7 forms) in one module, in every combination without a cycle; two or three modules that import constants, sizes and structs |
| `InstrSelect` | Do the selected lines compute the instruction, spare every register that is not theirs, and exist in the assembler? | every instruction × every type × operands in registers (equal and different), literals at the ends of each range × the destination in the register of either operand or another |

| `Bodies` | Does the type checker accept exactly the well typed bodies (`Verdict`)? Does what it accepts become PIR that the PIR checker accepts (`Compiles`), with every access as wide as the source says (`EffectsKept`)? | 16 000 bodies: every operator on every two names, operators on results of each type, every statement on every target and value of the menus, pairs of statements |
| `Reading` | Are the words the longest ones, with the values of their digits (`Munch`)? Are exactly the files of the grammar parsed (`Verdict`), every name kept once (`Complete`), operators bound by level (`Binds`)? Is every text read to its end (`Reads`)? | texts of up to five characters over the symbols, digits and letters that can run into each other, and of up to three literals, comments and blanks; 17 programs that together use every production, each with one word more, less or other at every place, or cut off; every expression of up to five words, and chains of operators of the five levels |
| `Testing` | Is a test reported as passed exactly when it did what its name says (`VerdictRight`), are the books right (`Counted`), does it leave nothing behind, kill nothing but its own process, and does the run end? | three tests, one of them in a folder that may not be readable, in every way a test can end; the first and the third make a binary of the same name |

Parts: `CodeWellFormed` (`TypeOK`, `SingleAssignment`), `ValuesKept` (`Tracked`,
`ReadsCurrent`, `FlowCorrect`), `BlocksWellMade` (`TypeOK`, `AssertionsHold`,
`WayKept`, `WrittenOnce`), `LinesWellFormed` (`TypeOK`, `Assembles`), `TablesHold` (`TypeOK`,
`Loading`, `ExportsFirst`), `Decision` (`CyclesCaught`, `Verdict`), `TablesMean`
(`TypeOK`, `TypesMean`, `NumbersMean`), `Counted` (`TypeOK`, `Tally`), `Compiles`
(`TypeOK`, `Lowers`), `TreeWellFormed` (`TypeOK`, `RangesNest`).

Why these bounds are enough for the cases that matter: the allocator's decisions depend
on which table a value is in, whether it is used again, whether it is out of date, and
whether a register is free; two statements and one end give each operand every such
history, and three registers make an instruction with two operands and a result compete
with one held value. `genFalseBranches` and the if/while lowering treat a nested body
only through whether it falls through and what block is current after it, so two levels
of nesting meet every combination of outer and inner frame. Two activations of the same
procedure and one of another are enough to overlap if anything can; 14 words hold them.
In `InstrSelect` a byte has two bits (`ByteBits`): the widths 1, 2, 4, 8 keep their
proportions, words are 16 bits, and 9 sampled words cover all-zero, all-one, sign bits
of every width and mixed patterns; `Junk` is in every register that is no operand.
An instance with `ByteBits = 8` would only enlarge the words.

In `Constants` a byte has three bits, so that the ends of `i8` and `u8` are met by small
numbers; four declarations that can each name the three others give every acyclic shape of
references there is between that many, and three modules an imported constant that is
visited by two importers.

The deepest interaction of two tests is a callback of the first that runs while the third
has a process of the same binary name; a fourth test meets nothing new. In `Reading` the
lexer decides on at most three characters after the ones it has passed, and the parser on
one word; edits of one word meet every decision of every production with every word that
can continue it. In `Bodies` a check looks at the types of the operands only, and the
menus have an operand of each type, and each way to have none or several.

Bounds, all named: `NumTemps` (`Fits` in `Lowering`: a block ends where the instance has no more
temporaries; the code numbers them without limit), `NumVars`, `NumArgs`, `NumSlots`, `NumSpills` (16 in the
code, 5 under pressure so that slots are reused), `NumRegs`; `ByteBits` in `InstrSelect` and `Constants`; `StackSlots` in `Frames`
(`HasRoom` in `GenCall`, the only guard that is not in the code: the model ends where the
process would overflow its stack); `Samples` in `InstrSelect`.

Three modules give every cycle with and without a tail and every diamond of two paths;
the fourth gives a cycle below a diamond and a path of three back to its start. Every rule
about names looks at one module and one it imports from.

Preconditions. `Lowering!ProgramsChecked` says of the blocks what the parser and the type checker
have seen to: every operand is there, an assignment takes one value, the right side of a multiple
assignment is a call with a result for each target, a target is a variable, an argument or an address.
`ControlFlow!ProceduresParsed` says that bodies are lists of the statements `statement` (`parser.go:823`) makes,
and that `Stmts` has them all. `CompiledFlow!StoppingAre` and `TrappingAre` are the equations of the two
recursions over statements that its properties are stated with; `MCCompiledFlow` has the recursions.
`RegAlloc!Sound`, `MCCompiledFlow!FallsPastClosed`/`LeavesDoWhile`,
`Modules!ImportsRenamed`, `MCModules!UsesNamesake`, `MCInstrSelect!Sound`, `MCConstants!Sound`, `MCBodies!Sound`
and `MCReading!EmptyParens` name exactly the
inputs the code gets wrong, which the next section lists; the passing runs cover all other inputs of the instance.
`CompiledFlow!Straight` says of the sources what the two of `MCCompiledFlow` say of a body; that the run leaves out
nothing else is checked as the assumption `SourcesStraight`.
That every block of `MCRegAlloc` is `Linearized`, as the theorems about `RegAlloc` require, is checked
as the assumption `GeneratedLinearized`.
In `MCTesting` every file keeps the promise of its name (`KeepsPromise`, checked as the
assumption `PromisesKept`); in the texts of `MCReading` a comment is not empty and a literal
has its end, and in `Grammar` `Lenient` is `TRUE`.
`InstrSelect!InstrsChecked` says of the instructions what the MIR checker lets through (`CheckInstr`) and
what it is given: registers the allocator has, literals of their type. Three parts of it come from the type
checker: no pointer is subtracted from an integer, a jump is on a `bool`, an exit code is an `i8`.
TLC evaluates it on every instruction of the run.
`InstrSelect!Defined` says which instructions mean something (no division by zero, no
shift by the width or more, booleans 0 or 1).

Fairness. `RegAlloc` and `Modules` have a liveness property (`Allocates`, `Decides`) under
`WF_vars(Next)`, because `allocProc` and `Resolve` run in one sequential program and nothing
can hold them up. A range over a map visits every entry, so no strong fairness on entries is
needed: `todo` and `rest` only shrink. `Reading` has `WF_vars(ReadWord)`: the lexer is a
sequential loop. `Testing` is fair to the runner, to a timer that is armed and to a callback
that has begun, which the operating system and the Go scheduler owe; not to the program under
test, which may never exit. The liveness of `TestSuite` follows because the timer ends what does not end.

Deadlock is checked in every run; ended behaviours stutter explicitly (`Finished`,
`Stopped`, `Lowered`, `Done`, `Ended`).

## 4. Disagreements found

The run `AliasedExport`, which TLC must find violated: with `export X as Z, Y as X`,
`from a import Z` is looked up a second time by its declared name: another symbol, or a
panic (`resolution.go:453`).

The others are reproduced by giving a passing run the inputs it leaves out: the set named
for the constant, and the property named as the invariant; each gives a trace of a few steps.

In `CompiledFlow.cfg`, `InstrSelect.cfg` and `Testing.cfg`:

| change | property | what happens |
|---|---|---|
| `Procedures <- ElseIfProcedures` | `Agree` | an `elseif` arm that falls through, under a first arm that returns, jumps to block 0 (`linearization.go:234`) |
| `Procedures <- DoWhileProcedures` | `VerdictRight` | a `return` that ends the body of a do-while is overwritten by the loop's branch, and the procedure is rejected (`linearization.go:296`) |
| `Instrs <- ShiftInstrs` | `Computes` | `1 << i` with the result in the register of `i` becomes `i << 1` (`gen.go:388`); with 100 for 1, `LinesWellFormed` too: 100 is no count the assembler has a line for |
| `Instrs <- ExitInstrs` | `Computes` | an exit code the allocator keeps in RDI is cleared before it is moved there (`gen.go:188`) |
| `Instrs <- DivisionInstrs` | `Computes` | a quotient of `u32`: `cdq` extends a dividend that has no sign; of narrower types, `eax` is extended of which the dividend is only a part (`gen.go:931`) |
| `Instrs <- NotInstrs` | `LinesWellFormed` | the `not` of a literal boolean compares two immediates (`gen.go:272`) |
| `Suites <- MissedSuites` | `ExpectedErrorFound` | a test that expects a compile error and compiles is reported ok: the branch of `compareError` for it is never reached (`testing.go:86`, against the comment at `testing.go:19-25`) |

In `RegAllocAmple.cfg`:

| `Blocks <-` | property | constants changed | what happens |
|---|---|---|---|
| `ExitBlocks` | `FlowCorrect` | | `set a += x; exit a;` exits with the old `a`: the exit code is read from the frame slot, which a terminal block does not update (`resalloc.go:413`) |
| `ReturnOrderBlocks` | `FlowCorrect` | | `return y, x + 1;` stores result 1 over argument `y` (position 1) before `y` is read for result 0 (`resalloc.go:434`) |
| `ComputedCalleeBlocks` | `ReadsCurrent` | | a callee that is itself computed is called through a register that does not hold it (`resalloc.go:671`) |
| `ReturnTwiceBlocks` | `FlowCorrect` | | `return a, a` after a change of `a`: the first result frees the register, the second reads the old slot |
| `CalleeKeptBlocks` | `Tracked` | | a variable called and then used again is believed to be in the register it was called through |
| `SpillLeakBlocks` | `SpillArea` | | a value copied from a spill slot to memory leaves its slot in `UsedSpills` for good |
| `EvictedOperandBlocks` | `ReadsCurrent` | `NumVars = 12` | placing operand B evicts operand A, whose register is then read |
| `ManyCountersBlocks` | `Allocates` | `NumVars = 12` | twelve variables changed and not used again: panic "not enough registers" |
| `ManyArgumentsBlocks` | `SpillArea` | `NumTemps = 20`, `NumSlots = 18` | a call with 18 computed arguments takes a spill slot twice: `Pop` of an empty stack returns its bottom item |
| `ManyReturnsBlocks` | `FlowCorrect` | `NumTemps = 23`, `NumSlots = 23` | `return x + 1, ..., x + 23;` returns one value twice: a result that was spilled gives its slot back before it has a register, and the value evicted for it is stored in that slot before the load (`resalloc.go:932`) |

With `Programs <- Namesakes` and `Verdict` in `Modules.cfg`: `from a import X as W` and
`const X = W` is rejected as a cycle, because the check compares names without their
modules (`resolution.go:1052`).

With the following `Programs` and `Verdict` in `Constants.cfg`:

| `Programs <-` | what happens |
|---|---|
| `FieldReadEarlyPrograms` | an offset that is read is computed by the visit of its field, which leaves it in the declaration; the visit of the struct passes the field over, and the type never gets it: "constant expression had nil value" (`constexpr.go:113`, `constexpr.go:166`) |
| `ConstantInOffsetPrograms` | `checkStruct` checks offsets without visiting what they refer to: whether a constant in one has a type yet depends on the order of the table (`typechecker.go:244`) |
| `OffsetNeedsSizePrograms` | data of a struct's type needs its size while one of its offsets, computed first, needs the size of the data (`constexpr.go:168`); no cycle is reported, because the references of a field are not those of its struct |
| `OffsetMissingPrograms` | a struct with a size and a field without an offset is accepted, and its offset is computed from nothing: a nil dereference (`constexpr.go:172`) |
| `ConstantInBlobPrograms` | `resBlobExpr` links the operands of the first item only: a constant in a blob may have no number yet, or no type (`resolution.go:878`) |
| `ImportComputedPrograms` | a constant imported from `a` that `a` computes from another one is evaluated again by the importer, with the importer's names: a panic, or another value (`constexpr.go:88`) |
| `DivisionByZeroPrograms` | division by a constant that is zero panics in `math/big` (`constexpr.go:337`) |

With the following `Programs` in `Bodies.cfg`:

| `Programs <-` | property | what happens |
|---|---|---|
| `SeveralCondition`, `ElseIfCondition` | `Verdict` | the condition of an `if` that is a call with several results: a nil type (`typechecker.go:651`); that of an `elseif` may have any type (`typechecker.go:700`) |
| `SeveralArgument` | `Verdict` | an argument that is a call with several results: a nil type (`typechecker.go:1116`) |
| `ExternalOffset` | `Verdict` | `a::S.X`: `checkDotAccess` reads the wrong leaves (`typechecker.go:1503`) |
| `VoidConversion` | `Verdict` | a conversion of a value of type void is accepted (`typechecker.go:1071`) |
| `PointerProduct` | `Verdict` | `set p *= i` is accepted (`typechecker.go:871`) |
| `SeveralStatement` | `Lowers` | a statement that is a call with several results panics (`linearization.go:567`) |
| `PointerStep` | `Lowers` | `set p++` adds a pointer to a pointer, which the PIR checker rejects (`linearization.go:424`) |
| `PointerInMemory`, `StructInMemory` | `EffectsKept` | `set s->to += i` and `set s->next++` load and store the pointer with the width of what is added (`linearization.go:554`) |

With the following `Programs` or `Texts` in `Reading.cfg`, and the other set empty
(`NoPrograms`, `NoTexts`):

| change | property | what happens |
|---|---|---|
| `Programs <- EmptyParensPrograms` | `Verdict` | `( )` panics: the range of a node that is nil (`parser.go:1170`) |
| `Texts <- EmptyCommentTexts` | `Munch` | `#` with the end of the line behind it takes the next line with it (`lexer.go:593`) |
| `Texts <- UnterminatedTexts` | `Reads` | a string without an end keeps the lexer in its loop (`lexer.go:195`) |
| `Texts <- WrongCharTexts` | `Munch` | a character literal of none or several characters panics (`lexer.go:732`) |
| `Lenient = FALSE`, `Programs <- ConstWithoutValue`, `SuffixWithoutOperand` or `SingleIf` | `Verdict` | accepted, although the comments do not derive it (`parser.go:246`, `977`, `1427`) |

Seen while modelling the parser: the comment of `exit` has a `?` that no word is; the errors
of `st.Next()` in `repeatCommaList` and of the keyword in `_if` are dropped, without harm, since
the words behind fail too; `const NAME 8` of the style guide is rejected (`Programs <- OldConst`
holds). Where `Lenient` differs from the comments is marked in `Grammar` by `As` and `Needed`.

Seen while modelling constants: a constant with `and` or `or` has no number, since the
outer case of `computeExpr` does not name them (`constexpr.go:319`); an error in the annotation of a constant is
dropped, because `err` is declared a second time (`typechecker.go:214`).

Seen while modelling resolution: `nomod::x` panics with "use of unknown dependency" instead
of being reported (`core/module/module.go`, `GetExternalSymbol`); `export all` exports the names of imported modules
too; `checkDepCycle` walks every path without remembering finished modules, so a layered
import graph takes exponentially many steps (`resolution.go:285`).

Seen while modelling the test runner: the timeout is on the program under test only, so a
stage, or fasm, that hangs hangs the run; a test whose stage panicked is counted as failed but not
named, since `Test` then returns the zero `TestResult` (`testing.go:133`), which `Tally` says.

Seen while modelling the back end: the table in
`core/cc/stack/stack.go:3-20` has interprocedural slot 0 highest, the formulas below it
have it lowest; caller and callee agree, so `Frames` is not affected. `PanicsAtDeadEnds`
states exactly when linearization dereferences a nil block: code follows an `if` none
of whose arms falls through.

## 5. What is proved

`RegAllocProofs` proves, for every set of well-formed blocks and every number of
registers, spill slots, slots, variables, arguments and temporaries:

- `TypeCorrect`: `Spec => []TypeOK`, the invariant of the run `RegAllocAmple`;
- `RegistersConsistent`: `Spec => []RegisterFile`: until a panic, the pool of free
  registers, `UsedRegs` and `LiveValues` describe one partition of the registers.

Assumptions: `PirSizes` (`Pir`), `AllocSizes` (`RegState`: at least one register and one
spill slot, the arguments have slots) and `BlocksWellFormed` (`RegAlloc`: instructions have
the arity of their kind, temporaries are not indexed outside the instance, blocks are
shorter than `retIndex`). TLC evaluates them in every run of `MCRegAlloc`.

The argument. `RegisterFile` is not inductive. `EmitCall` enters the results of a call into
`LiveValues` without looking at what was there, as the code does; the tables stay
consistent because `clearVolatiles` has emptied the registers by then, and it has only
because the range it loops over began with every value that was in a register. `Inv` is
`TypeOK /\ RegisterFile /\ Pending`, where `Pending` says what each of these loops still owes: which
entries `todo` may hold, and in the clearing loop that it holds every value still in a
register. The first half of the module has one lemma per method of `state`: from a state with its type and
consistent registers, the method gives such a state, or panics. They rest on two lemmas
about the pool (`HandedOut`, `GivenBack`): popping and pushing a number keeps the stack
free of repetition and in step with the table. The second half has one lemma per
action, which follows the order of calls in the code, and `Step` collects them. A
panicked state keeps its type but promises nothing about the registers, hence the
implication in `RegisterFile`.

It also proves, for the same sizes, of every set of blocks that are `Linearized` and `Sound`:

- `ValuesFollow`: `Spec /\ []Roomy => []ValuesKept`: between instructions every variable is where
  `LiveValues` says or at home, and every temporary still wanted is somewhere; what the emitted
  code reads is what the PIR means by the operand; and where the block is left every home, condition, exit
  code and result is what it should be;
- `HomesKeptUp`: `Spec /\ []Roomy => HomesFollow`: no store to the slot of a variable, by whatever
  instruction, puts anything but the variable's newest value there.

What the three conditions are. `Linearized` is what linearization makes: a temporary is written in
one place and read only after it; a result goes to a temporary or back to an operand; a call
is the last use of the temporaries it takes. `Sound` leaves out the first five rows of the table about
`RegAllocAmple.cfg` in section 4 and no more: an exit code that is a variable written in the
block, results that overwrite an argument still to be returned or that are returned twice, and a
callee that is computed or used again. `Roomy` says that before every step three registers and a spill
slot are free, so that no value is evicted on behalf of an operand: `EvictedOperandBlocks`,
`ManyArgumentsBlocks` and `ManyReturnsBlocks` are `Linearized` and `Sound` and lose values without it.
With the 11 registers of the target `Roomy` is true in every state of the run `RegAllocAmple` (add it to the
invariants of its cfg), so the theorem is about all of that run. Allocation that
does evict is what `RegAllocPressure` checks.

The argument. `ValuesKept` speaks of the times between instructions and of the end; `Follows` says
what it takes to get there. While code is allocated (`InCode`) every value is right: a variable can be
read where `LiveValues` has it, its home lags only while it is marked mutated, and a
temporary wanted later is live with its token. A call (`InSpillRegs`, `InSpillInter`, `InArgs`,
`InClear`, `InRelease`) gives this up piece by piece: first homes come up to date and temporaries go to
slots, then results of earlier calls leave the callee area before the arguments overwrite it; the clearing
loop drops what was in registers; afterwards only a variable that was called is still in one. In
`transformReturn` (`InReturn`) a result that is stored overwrites the home of an argument, so the
invariant says of every result whether it is in its slot or can still be read; here
`ReturnsInOrder` is needed, and that the code loads an argument first if a later result wants it.
`Apart` (a spill slot is in the pool or in use, not both) goes with all of them. The second half of
the lemmas about methods says of each which value it moves and that it leaves the place and the contents
of every other (`Keeps`); `RightKept` turns that into `Right` of the next state. There is one lemma per
action, `…Follows`; most of them prove their part of `HomesFollow` too.

`LoweringProofs` proves, for every set of blocks, with expressions of any size, statements of every
kind in any number, and any number of variables, arguments and temporaries:

- `MeaningPreserved`: `Spec => []SameMeaning`: after every statement the PIR that linearization
  emitted has left every variable and argument with the value the source gives it, and has loaded,
  stored and called in the order of the source; at the end the operands of the flow stand for the
  values the source carries out of the block;
- `CodeAlwaysWellFormed`: `Spec => []CodeWellFormed`: every instruction has the operands of its kind, and
  every temporary is assigned once, before it is read, with no number left out.

Assumptions: `PirSizes` (`Pir`) and `ProgramsChecked` (`Lowering`, see section 3). TLC evaluates both in the
run `Lowering`.

The argument. `SameMeaning` is not inductive: between the nodes of an expression, and between an
expression and the target it is assigned to, the operands on the stack have to go on meaning what they
meant. `Agree(c, s, K)` says that: the code of the context `c` is well formed and leaves the
machine with the variables and the trace of `s`, and the operands in the places `K` of the stack have
the values on the stack of `s`. The set `K` is there because agreement is given up in places: a target
that is a variable is on the stack as the name that will be written, not as a value (`Aim`), and once
it is written it may change what its name stands for. `NodeRight` is one case per kind of node: it takes its
operands off the stack, gives its results, and keeps the rest, since what it writes is a fresh
temporary. `ExprRight` is the induction over the nodes, `TargetRight` adds targets. There is one lemma per
kind of statement; `SidesRight` is the order of the two sides, `WriteRight`, `OpRight` and `SwapMachines` are what is
done with them, and `Beside` follows the machines through instructions that no node makes. A multiple
assignment is an induction of its own (`OneRet`): results stay right while targets before them are written,
because a call returns in temporaries and no target is one.

Lowering and execution are folds over sequences, and the library's induction theorems take an operator
as a parameter. `FoldFacts` gets around it: the operator is a constant of the module, `LoweringProofs`
instantiates it once for each operator that is folded (`Nodewise`, `Evaluation`, `Execution`, ...), and the
induction is over a *set* of numbers or of sequences (`Induct`, `SeqInduct`), which needs no parameter. It proves the
two equations of a fold, `FoldNone` and `FoldMore`, from the definition of the community modules.

What these proofs changed in the models. The returns of a multiple assignment were dealt out by an
index into two sequences; now they are a fold over pairs (`GenAssignRet`). What a block must be was
only true of the instance; it is now said (`Statements`, `Ends`, `ProgramsChecked`).

`FramesProofs` proves, for every set of procedures, every shape of their frames, every
order of calls and every size of stack:

- `TypeCorrect`: `Spec => []TypeOK`: the stack pointers stay on the stack and every return
  finds the code after its call;
- `FramesInPlace`: `Spec => []FrameInPlace`: a body runs on the frame its prologue made, and
  none of the slots it names is a saved `rbp` or a return address;
- `ParamsMeet`: the address `Arg` gives in a callee is the address `CallArg` gave in its
  caller, for all numbers of variables, spill slots, callee slots, arguments and results.

Assumptions: `ProgramShape` (`main` takes and returns nothing, which the type checker
demands of the entry point) and `StackSize` (the stack has room for `main`).

The argument. `FrameInPlace` is not inductive: it speaks of the running frame only, and
a return makes another frame the running one, from two words of the stack that bodies could have
overwritten in the meantime. A body does write outside its own frame, into the slots it
shares with its caller. `Inv` adds `Chain`: for *every* active frame, what its two
saved words are, that it begins where its caller's ends, and that the caller reserved room for the
callee's arguments and results; and `Running`: what `rsp` and `rbp` are in each part of the code.
`StoreFacts` is the heart: an address a body computes lies in its own frame or in its
caller's callee area, which `ParamsMeet` places and `Chain` keeps clear of all saved words.

It also proves, for the same programs and stacks:

- `Refines`: `Spec => Implements`: `Frames` refines `Activations`. What a body reads and writes
  through `rsp` and `rbp` is what it would read and write if each activation had its slots to
  itself, with the arguments and results in common between a callee and its caller only; and a return
  continues the caller with its slots as they were.

The argument. The abstract slots of an activation are the words of its frame. Init and six of
the eight actions are direct: they write below every slot, so no abstract slot changes. The step that
carries the weight is a store of a body (`GenLoadStoreWrites`): it must change the one abstract slot
the body named and no other, in no activation. `SlotsApart` shows that two slots of one frame
are never one word, `OwnAddresses` that two frames meet only in the words of an area a caller
reserved for its callee, and `SharedSlot` that those words are the same slot by either name. `Inv` is
the invariant of the simulation too; the refinement needs no other.

`InstrSelectProofs` proves, for bytes of any width, any set of MIR instructions and any
content of the machine:

- `LiveValuesKept`: `Spec => []KeepsLiveValues`: at every line of the code selected for an
  instruction, no register but the destination and RAX, RCX and RDX, and no memory but the
  destination, differs from what it was before. The allocator relies on this: it hands out all the
  other registers.

- `MachineTyped`: `Spec => []TypeOK`: registers, slot and pointee always hold words, however wide the
  immediates and the products are;
- `LinesAssemble`: `Spec => []LinesWellFormed`, where every instruction `Commutes` and is `Comparable`: the
  assembler has every line that is selected for an instruction that means something. No immediate is too
  wide for its instruction, no two operands are in memory, no immediate is written to.

Assumption: `InstrsChecked` (section 3), which is what the MIR checker lets
through. That results are in registers, which the first theorem needs, follows from it (`ResultsInRegisters`).
The two hypotheses of `LinesAssemble` cannot be dropped: each leaves out instructions of which `gen` writes lines
that do not exist, the `not` of a literal and the shift of a literal by what is in the register of its result. The
variants `NotInstrs` and `ShiftInstrs` of section 4 are their counterexamples.

The argument. For `LiveValuesKept`, `Inv` says it of the lines executed so far and of those that are left: each of
them writes only what may be written (`SafeLines`). There is one lemma per `gen*` function, since each decides by
its operands which lines it emits and through which scratch register, and one for the
processor (`ExecuteKeeps`). For the other two, `WellFormed` says that the machine holds words (`Holding`) and that
every line left fits (`FitLines`): it has the parts of a line and, if the instruction means something, it
can be encoded. `ExecuteHolds` shows that no line makes the machine hold anything but words; it needs that
remainders stay below their divisor and a part below its word, hence the lemmas on spans, as powers of two.
That lines fit is again one lemma per `gen*` function (`GenNegFits`, `GenShiftFits`, ...), over what `Resolve` returns for each class of
operand (`ResolveFits`): a literal of its type fits the width of its type (`ValuesFit`), and one beyond 32 bits
went through RCX. What the lines *compute* needs an arithmetic of remainders, signs and
bitwise operators, inductions over data that stay with the run.

What these proofs changed in the model: the provers know nothing of `2 ^ n` nor of sums over sets, so powers of
two and the bitwise *and* in `Amd64` are recursive functions (`Power`, `And`); and what was assumed of the results of
instructions is now what the MIR checker says of all their operands.

`TestingProofs` proves, for every tree of test folders, every way stages and programs can end,
and every order of processes, timers and callbacks:

- `NothingLeft`: `Spec => []LeavesNothing`: between two tests no file is left and no process
  runs or waits to be reaped;
- `LateCallbacksHarmless`: `Spec => KillsOnlyLate`: a callback kills only the process of the
  test that waits, after its own time and before it ended;
- `VerdictsRight`: `Spec => []VerdictRight`, where every file keeps the promise of its name.

Assumptions: `SuitesShape` (the folders are a tree, so the walk finds no file twice, and a test is what
`Behaves` says); for the last theorem `KeepsPromise` of every file, which the run checks of its instance.

The argument. `Inv` says of each file how far it is: `Past` and `Judged` of the tests that
returned, `Now` of the running call of `Test`, `Fresh` of what was not reached. That a process
or a callback touches no result that is already given needs that the running file is none of those
before it. `InOrder` says so without counting files: number the lines of a listing of the tree; what
is still to be visited has later lines than what was tested, and the walk keeps it so when it
puts the entries of a folder in the place of the folder. `OnlyRunning` is the fact the rest leans on: a process that has
not been reaped is that of the running call, which is waiting for it; so a callback of an earlier
test finds its own process reaped. There is one lemma per action; `Returning` serves the seven
that return from `Test`, `Quiet` those that do neither call nor return.

It also proves, for every tree of folders of which each file keeps the
promise of its name:

- `CountsRight`: `Spec => []Counted`: at the end the runner has counted every test of the tree
  once, as failed exactly those that did not do as their name says, and named those of them that
  did not panic;
- `RunsTheSuite`: the safety half of `Implements`: each test gets one verdict, one it may get, and
  keeps it, and the run ends only when all have one, or is given up over a folder that cannot be read.

Assumptions: `SuitesShape` and `KeepsPromise`, as above. `SuitesShape` contains `ListsAll`, that every
test is in an entry of every folder it is below; without it a test could be in the tree and in no folder.

The argument. `Books` is added to `Inv`. `Found` is the half `InOrder` lacks: what the walk has not
reached is below an entry still to be visited. With `InOrder` it makes `tested`, once
`todo` is empty, a numbering of the tests without repetition, and
counting results is counting files (`Counts`). `Born` says that a process is that of a binary that
was built and started, so an exit status is one the program may have; `Told` that a result
without a message is that of a test that panicked, which is why `printResults` cannot name it.

What these proofs changed in the models. `Tally` took a test for a panic when the assembler
would panic, even when it was never called; no instance of the run has such a test, the proof of
`TallyRight` asks about it. `May` in `Testing` and `Execute` in `Amd64` had `CASE`s whose arms overlap, of
which TLA+ does not say which is taken (TLC takes the first); they now say so.

`CompiledFlowProofs` proves, for every set of parsed procedures, with structures nested in any way:

- `CompiledAgrees`: `Spec => []Agree`: whatever the conditions of the branches come out as, the source,
  the basic blocks and the assembly have done the same so far, and wait for the same condition or have ended
  the same way.
- `VerdictIsRight`: `Spec => []VerdictRight`: `NotAllCodePathsReturnAValue` is reported of a procedure that returns something
  exactly when some path of its source comes to the end, although `ProperlyTerminates` looks at the blocks only.
- `PanicsThere`: `Spec => []PanicsAtDeadEnds`: a nil `CurrBlock` is dereferenced exactly when something is to be generated
  after an `if` no arm of which falls through.
- `BlocksAreWellMade`: `Spec => []BlocksWellMade`: every target is a block there is, `gen` comes to no block a
  second time (`panic("no blocks should be already visited")` is not reached), and each block is written under one label.
- `NeverRefused`: the PIR checker finds every block reached and ended, and returns where there should be.
- `StraightKeepsTheWay`: `Spec => []WayKept`.

Assumptions: `ProceduresParsed`, `StoppingAre`, `TrappingAre` (section 3), and `Straight`: in no `if` does an
`elseif` arm fall through under a first arm that does not, and no body of a do-while has a return or an exit of its own.
Where it does not hold the code is wrong (section 4).

The argument. `Agree` says nothing before the three run, so the invariant follows the program through its phases. `M`
names, for every place in a block, the machine of the source that stands there. While blocks are generated, `Gen` says that
what has been emitted leads from each place to the next (`Flows`), that a block still open waits for what the
frames of `work` still have to generate (`FrameMeans`, `Stack`), and that no other block is without a flow. There is one
lemma per action of `ControlFlow`; each extends `M` to the new blocks and leaves it alone on those there
were. When the stack is empty, only the last block is open, which is where `setReturn` puts its return (`Stands`).
While the lines are written, `Laid` says that they are the code of visited blocks, that a jump left out is to the
block that comes next, and that `next` and `trues` have every target not yet written; at the end every
target is. At last the three machines step together (`Running`). The
assembly has labels and jumps of which neither the blocks nor the source know; `Path` is a way through such lines, along
which nothing is executed.

That the lowering keeps the way (`WayKept`) needs to know at every moment what the source says of the code around it:
whether it stops, traps, is closed. `OnTheWay` gives every frame of `work` its verdict, a set of words, and says how the verdict
of a frame follows from that of the one above (`Knows`, `Fits`): the current block has a flow, or is nil, exactly as the statement or list just
done `Stops` or is `Closed`. When the stack is empty, what is left is the verdict on the body. That the verdict on the blocks is the same, and that the checker finds
all of them reached, takes a second invariant, `Planted`: every set of blocks with the first one and what its blocks lead to has all blocks, but for the ends of
open do-whiles, which are linked last. `ReachedIsAll` is why `Reached` is such a set: it adds a block at every step
or has nothing to add.

`genFalseBranches` asks of the true target of a branch whether it is visited, and puts it in a queue if not; of the false
target it asks nothing, and the queue is not looked at again. So a block could be in the queue twice, or be written while
it waits there. That it cannot is a fact about the graph: of the two targets of every branch, the
false one is led to by that branch alone (`Lone`), and so is the true one, unless the branch can only be reached through it
(`Gated`: the branch at the end of a do-while, which leads back to the start). `Sealed` says so of the finished blocks. While
they are made, `Tidy` keeps it: what the frames still have to link is led to by no branch
(`Linked`), and the body of an open do-while is entered by its start only and left by no jump (`Nest`, `Loop`),
which is why its last branch is gated. `Order` then carries it through the
writing: what waits was led to once, by a block that is written, and a set of blocks that is left through a gate only
has no block outside it written before the gate.

What these proofs changed in the models: what a statement is was only true of the instance; it
is now said (`Parsed`, `Parts`), with the statements as a second constant, since a set of trees is not a recursion.

`ModulesProofs` proves, for every set of programs a parser can hand out, however many modules they
have, and every order in which maps are ranged over:

- `TablesSound`: `Spec => []TablesHold`: a module is loaded once and has all its dependencies when
  `resolveModule` leaves it; after loading the program is exactly what the root reaches; a module
  binds names only when every module it takes names from has been left;
- `CyclesReported`: `Spec => []CyclesCaught`, the first half of `Decision`: `InvalidDependencyCycle` is
  reported only where the imports the root reaches have a cycle, and names are resolved only where
  they have none, although `depHasVisited` does not remember where a walk started;
- `NamesResolved`: `Spec => []NamesMean`: once resolved, `GetSymbol` finds for every name the one
  declaration that the rules of `ImportRules` give it.

Assumptions: `ProgramsParsed` (`Modules`): a folder has finitely many files; couplings, declarations and
references are lists, of the forms the parser makes. It does not say that a program is well formed: modules
that are missing or on a cycle, names bound twice, imports of what is not exported are all in it. TLC
evaluates it in the run `Modules`. `NamesResolved` also assumes `~ImportsRenamed` of every
program, which is what the run `AliasedExport` shows to be necessary: an import that lists a name its module
exports under another is looked up by the wrong one. The second precondition of the run, `~UsesNamesake`, is
about cycles of symbols and is not needed here.

The argument. The invariant says for each phase what the frames on the stack owe. While loading
(`LoadShape`), the table of a module on the stack is made of the requests before `next`, that of any
other of all its requests (`DepsAre`), and the modules found are reachable; when the stack is empty they
are closed under imports, and `ReachedIs` makes them what the rules call reached. In the walk over imports
(`CyclesShape`), each module on the path is reachable from those before it, and what has been looked at
leads to no cycle (`Checked`), except the module the walk is at. So when the walk meets a module that is on its
path there is a cycle, and when it ends there is none. The start of the walk is not on the path `prev` the
first time, so a cycle through it is found on its second round.
While names are resolved (`NamesShape`), the absence of cycles makes the stack free of repetition; a frame
past its dependencies has left modules only below it (`Left`), its table is what its couplings and
declarations bind (`TableMade`), and a module that was left has its exports too (`Done`). As exports are
never written again, a table stays the one that would be made now (`SameTableMade`), and what the rules
mean can be read off it: `EntryOrigin` and `EntryIs` say that the table has exactly what aliases,
`from` clauses and declarations bring, `ExportsAre` that the exports are those of the rules, and `NamesMean`
follows for a module and those it names (`Settled`).

Tables are made of flattened sequences and folds, and what a module reaches is a recursive function of a
number. `FoldFacts` says of both that they satisfy their equations; `FlattenPlaces` says that every element of a
flattened sequence is one element of one of its parts and the other way round, which is all that is used.
The inductive invariant was checked with TLC on every import graph of the run before it was proved.

What these proofs changed in the model: what the parser makes of a file was only true of the instance;
it is now said (`IsFile`).

## 6. Limits

Only model-checked: liveness (`Allocates`, `Decides`, `Reads`, that a run over a test folder ends), the contents of cells
once values are evicted on behalf of operands (`ValuesKept` in `RegAllocPressure`; it does not hold for every block, see section 4),
`SpillArea` (false for long calls, and where a spilled value is copied to memory), `Computes` of `InstrSelect`, `Verdict` of `Modules`,
and all of `Constants`, `Bodies` and `Reading`. Of these last
the recursions are RECURSIVE operators: the visits of symbols in `Constants`, of expressions in `BodyTypes`, `BodyRules` and
`Bodies`, and the productions in `Parser` and `Grammar`, so no theorem can be stated there. What they compute
could be proved if they were folds, as in `Lowering`; a recursion over trees, or one that stops at the first
error, is not a fold.

Not modelled, and why: the formatter (`Format` panics with "outdated" at its first line, the code
behind it is dead); printing of PIR, MIR and assembly and the wording of messages (text out, no
state); `fasm` (an external process); the checks of inline assembly operands (a table); of the MIR
checker, its symbolic run over the blocks the allocator made, which changes nothing: that a
place is written before it is read follows from `ReadsCurrent` and `FlowCorrect`, which say so
of the newest value. Data declarations and string literals pass through the back end as they are.

In the modelled parts: `Reading` has the lexer read all words before the parser begins, since the
parser tells it nothing but to go on; lines, columns and UTF-8 are left out, and productions nothing
calls (`repeatList`, `clobberSet`, `number`, `numberOrString`, `Peek`, `ReadAll`, `IsValidIdentifier`). `Bodies` has a
control structure as its condition (what it does with blocks is in `ControlFlow`) and a body as one flat
block; it leaves out string literals, operands of inline assembly, sizes of things of other modules and the
headers of procedures, has two types equal when their names are (`ProcTypesDiffer`), and an
error is an error, whatever its kind. In `Testing` a stage is what it ends with. `Constants` starts where resolution has accepted a program without
cyclic symbols; it leaves out bitwise and Boolean operators, procedure types, string data and the
operands of inline assembly, and has the kind of an error only. `Modules` has files as already parsed lists of couplings and
declarations; it leaves out where an error is located and the check of the root file's
name, and an error is its kind. Types of operands matter in `InstrSelect` only; `RegAlloc` treats
unary, conversion and pointer instructions by their operand places. `Frames` lets a body
do anything MIR allows it, so it does not depend on the other passes. `Amd64` models no
flags beyond the last comparison and no memory but one frame slot and one pointee.

## 7. Plan

Done in this order: `Pir`, `RegState`, `RegAlloc` (the pass with the most state); their
proofs; `Linearize`, `Lowering`; `Frames`, `Activations` and their proofs; `ControlFlow`,
`BlockOrder`, `CompiledFlow`; `Amd64`, `InstrSelect`; `ImportRules`, `Modules`; `ConstExpr`, `ConstantRules`, `Constants`;
`TestSuite`, `Testing`; `BodySyntax`, `BodyTypes`, `BodyRules`, `TypedPir`, `Bodies`; `Lexer`, `Parser`, `Grammar`,
`Reading`; the proofs about `Testing`; the refinement of `Activations` by `Frames`, the registers
in `InstrSelect`, the counts of `Testing`; the values in `RegAlloc`; the meaning of what `Linearize` makes; the tables of `Modules`; the lines of `InstrSelect`; the way from the source through
blocks to lines, what the source says of where the generator is, and the order blocks are written in.

Left: `MirCheck`, the MIR checker's symbolic machine as a property of what `RegAlloc` emits, which
would add nothing to `ValuesKept` but that the checker itself is right.

Next theorems, most valuable first:

1. `RegAlloc`: `SpillArea` for blocks that copy no spilled value and need at most
   `NumSpills` slots; `Roomy` from the number of values a block has.
2. `Modules`: `Verdict`, one kind of error at a time; a program that is resolved has distinct names
   (`FaultlessBindings`) and defined exports already, in the inductive invariant.

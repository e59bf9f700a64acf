------------------------------ MODULE Modules ------------------------------
(***************************************************************************)
(* Module resolution (resolution/resolution.go, core/module/module.go):    *)
(* the files a program imports are loaded, the import graph is checked for *)
(* cycles, and then every module gets its table of names, dependencies     *)
(* first.                                                                  *)
(*                                                                         *)
(* The recursion of resolveModule and of resolve is the stack frames; the  *)
(* recursion of the two cycle checks is the stack walk.  A range over a Go *)
(* map takes its entries in any order.                                     *)
(*                                                                         *)
(* A file is a record: how many files of the folder have the module's      *)
(* name, whether it parses, its couplings (imports and exports, in order)  *)
(* and its declarations.  A declaration has a kind, the fields of a        *)
(* struct, and the references of its constant expressions.                 *)
(***************************************************************************)
EXTENDS Naturals, Sequences, SequencesExt, FiniteSets

CONSTANTS
  Programs,     \* functions from module names to files
  Root          \* the module given to the compiler

VARIABLES
  program,
  phase,        \* the function of Resolve that runs
  error,        \* what it returns in the end
  frames,       \* resolveModule and resolve that have not returned
  walk,         \* checkDepCycle and checkSymbolCycle that have not returned
  deps,         \* Dependencies of each loaded module
  globals,      \* Globals of each module
  exported,     \* Exported of each module
  refs,         \* Refs of each symbol and field
  visited       \* modules resolve has entered

vars == <<program, phase, error, frames, walk, deps, globals, exported, refs, visited>>

Ok == "ok"

\* What the parser makes of a file, and what can be wrong with a declaration.
Forms == {"value", "sizeof", "field", "external", "sizeofExternal", "call", "string"}

Listed(s) == s \in Seq(ToSet(s))

IsCoupling(c) ==
  /\ c.kind \in {"import", "from", "export"}
  /\ c.all \in BOOLEAN
  /\ Listed(c.items)

IsDeclaration(d) ==
  /\ d.fault \in {Ok, "InvalidFlag", "OffsetInMultipleFields", "NameAlreadyDefined"}
  /\ Listed(d.refs)
  /\ \A i \in DOMAIN d.refs : d.refs[i].via \in Forms

IsFile(f) ==
  /\ Listed(f.couplings) /\ \A i \in DOMAIN f.couplings : IsCoupling(f.couplings[i])
  /\ Listed(f.symbols) /\ \A i \in DOMAIN f.symbols : IsDeclaration(f.symbols[i])

\* A folder has finitely many files.
ASSUME ProgramsParsed ==
  \A p \in Programs : IsFiniteSet(DOMAIN p) /\ \A m \in DOMAIN p : IsFile(p[m])

\* Part 0 is the symbol itself, the others are the fields of a struct.
Whole == 0

Set(f, x, y) == [z \in DOMAIN f \cup {x} |-> IF z = x THEN y ELSE f[z]]

Top(s) == s[Len(s)]
Advanced(s, frame) == [s EXCEPT ![Len(s)] = frame]

Fail(e) == phase' = "failed" /\ error' = e

-----------------------------------------------------------------------------
\* Loading.

Couplings(m) == program[m].couplings

Import(name, as, ofAll) == [name |-> name, as |-> as, all |-> ofAll]

\* What resolveDependencies asks for, in order.
Requests(m) ==
  FlattenSeq([i \in DOMAIN Couplings(m) |->
    LET c == Couplings(m)[i]
    IN CASE c.kind = "import" /\ c.all -> <<Import(c.module, c.module, TRUE)>>
         [] c.kind = "import" /\ ~c.all ->
              [k \in DOMAIN c.items |-> Import(c.items[k].name, c.items[k].as, FALSE)]
         [] c.kind = "from" -> <<Import(c.module, c.module, FALSE)>>
         [] c.kind = "export" -> <<>>])

\* Why a module cannot be opened.
FileFault(m) == IF m \notin DOMAIN program THEN "ModuleNotFound"
                ELSE IF program[m].files > 1 THEN "AmbiguousModuleName"
                ELSE IF ~program[m].parses THEN "ParserError"
                ELSE Ok

NoNames == [n \in {} |-> {}]

\* A module is in the table before its own imports are resolved.
ResolveModule(m) ==
  IF FileFault(m) # Ok
  THEN Fail(FileFault(m)) /\ UNCHANGED <<frames, deps, globals, exported>>
  ELSE /\ frames' = Append(frames, [module |-> m, next |-> 1])
       /\ deps' = Set(deps, m, NoNames)
       /\ globals' = Set(globals, m, NoNames)
       /\ exported' = Set(exported, m, NoNames)
       /\ UNCHANGED <<phase, error>>

ResolveRoot ==
  /\ phase = "load" /\ frames = <<>>
  /\ ResolveModule(Root)
  /\ UNCHANGED <<program, walk, refs, visited>>

AddDependency(m, request) ==
  IF request.as \in DOMAIN deps[m]
  THEN Fail("NameAlreadyDefined") /\ UNCHANGED <<frames, deps, globals, exported>>
  ELSE /\ deps' = [deps EXCEPT ![m] = Set(@, request.as, request.name)]
       /\ frames' = Advanced(frames, [module |-> m, next |-> Top(frames).next + 1])
       /\ UNCHANGED <<phase, error, globals, exported>>

\* A module that is not in the table is loaded first; its importer then finds
\* it there.
ResolveDependency ==
  /\ phase = "load" /\ frames # <<>>
  /\ LET m == Top(frames).module
         requests == Requests(m)
     IN /\ Top(frames).next <= Len(requests)
        /\ LET request == requests[Top(frames).next]
           IN IF request.all
              THEN Fail("CantImportAll") /\ UNCHANGED <<frames, deps, globals, exported>>
              ELSE IF request.name \in DOMAIN deps THEN AddDependency(m, request)
              ELSE ResolveModule(request.name)
  /\ UNCHANGED <<program, walk, refs, visited>>

\* resolveModule returns; after the first call, checkDependencyCycles starts.
ModuleLoaded ==
  /\ phase = "load" /\ frames # <<>>
  /\ Top(frames).next > Len(Requests(Top(frames).module))
  /\ frames' = Front(frames)
  /\ IF Len(frames) = 1
     THEN /\ phase' = "cycles"
          /\ walk' = <<[at |-> Root, rest |-> DOMAIN deps[Root]]>>
     ELSE UNCHANGED <<phase, walk>>
  /\ UNCHANGED <<program, error, deps, globals, exported, refs, visited>>

-----------------------------------------------------------------------------
\* checkDependencyCycles: every path of the import graph is walked.  prev does
\* not contain the module the walk started from.

DepHasVisited(m) == \E k \in 2 .. Len(walk) : walk[k].at = m

\* Mutant of CheckDepCycle: the range starts over after each dependency.
CheckDepCycleAgain ==
  /\ phase = "cycles" /\ walk # <<>>
  /\ \E name \in Top(walk).rest :
       LET m == deps[Top(walk).at][name]
       IN IF DepHasVisited(m)
          THEN Fail("InvalidDependencyCycle") /\ UNCHANGED walk
          ELSE /\ walk' = Append(walk, [at |-> m, rest |-> DOMAIN deps[m]])
               /\ UNCHANGED <<phase, error>>
  /\ UNCHANGED <<program, frames, deps, globals, exported, refs, visited>>

CheckDepCycle ==
  /\ phase = "cycles" /\ walk # <<>>
  /\ \E name \in Top(walk).rest :
       LET m == deps[Top(walk).at][name]
       IN IF DepHasVisited(m)
          THEN Fail("InvalidDependencyCycle") /\ UNCHANGED walk
          ELSE /\ walk' = Append(Advanced(walk, [Top(walk) EXCEPT !.rest = @ \ {name}]),
                                 [at |-> m, rest |-> DOMAIN deps[m]])
               /\ UNCHANGED <<phase, error>>
  /\ UNCHANGED <<program, frames, deps, globals, exported, refs, visited>>

\* Mutant of Resolving: the loop over the dependencies is left out.
ResolvingAlone(m) == [module |-> m, stage |-> "dependencies", todo |-> {}]

\* What resolve has still to do for m.
Resolving(m) == [module |-> m, stage |-> "dependencies", todo |-> DOMAIN deps[m]]

\* checkDepCycle returns; after the last one, resolveNames starts.
DependencyChecked ==
  /\ phase = "cycles" /\ walk # <<>> /\ Top(walk).rest = {}
  /\ walk' = Front(walk)
  /\ IF Len(walk) = 1
     THEN /\ phase' = "names"
          /\ frames' = <<Resolving(Root)>>
          /\ visited' = {Root}
     ELSE UNCHANGED <<phase, frames, visited>>
  /\ UNCHANGED <<program, error, deps, globals, exported, refs>>

-----------------------------------------------------------------------------
\* resolve: the modules a module depends on come first, in any order.

ResolveDep ==
  /\ phase = "names" /\ Top(frames).stage = "dependencies"
  /\ \E name \in Top(frames).todo :
       LET m == deps[Top(frames).module][name]
           rest == Advanced(frames, [Top(frames) EXCEPT !.todo = @ \ {name}])
       IN IF m \in visited
          THEN frames' = rest /\ UNCHANGED visited
          ELSE frames' = Append(rest, Resolving(m)) /\ visited' = visited \cup {m}
  /\ UNCHANGED <<program, phase, error, walk, deps, globals, exported, refs>>

\* A Global: what kind of symbol, the module and name it is looked up by, and
\* (decl) the declaration it stands for.
Global(kind, m, name, external, decl) ==
  [kind |-> kind, module |-> m, name |-> name, external |-> external, decl |-> decl]

ModuleSymbol(m, c, i) ==
  Global("module", m, c.items[i].name, FALSE, <<m, c.items[i].as>>)

\* Mutant of External: every import is looked up by its first name.
ExternalFirstName(sy, name) == Global(sy.kind, sy.module, sy.name, TRUE, sy.decl)

External(sy, name) == Global(sy.kind, sy.module, name, TRUE, sy.decl)

Binding(as, sy)  == [as |-> as, sy |-> sy, fault |-> Ok]
Unbound(as, e) == [as |-> as, sy |-> {}, fault |-> e]

\* createImportedSymbols: a name imported one by one is looked up later by the
\* name it was declared with, one imported by "all" by the name it is exported
\* with.
ImportSymbols(m) ==
  FlattenSeq([i \in DOMAIN Couplings(m) |->
    LET c == Couplings(m)[i]
        theirs == exported[deps[m][c.module]]
    IN CASE c.kind = "import" ->
              [k \in DOMAIN c.items |-> Binding(c.items[k].as, ModuleSymbol(m, c, k))]
         [] c.kind = "from" /\ c.all ->
              LET names == SetToSeq(DOMAIN theirs)
              IN [k \in DOMAIN names |->
                    Binding(names[k], External(theirs[names[k]], names[k]))]
         [] c.kind = "from" /\ ~c.all ->
              [k \in DOMAIN c.items |->
                 LET item == c.items[k]
                 IN IF item.name \in DOMAIN theirs
                    THEN Binding(item.as, External(theirs[item.name], theirs[item.name].name))
                    ELSE Unbound(item.as, "NameNotExported")]
         [] c.kind = "export" -> <<>>])

\* createGlobals
DeclareSymbols(m) ==
  [i \in DOMAIN program[m].symbols |->
     LET d == program[m].symbols[i]
     IN IF d.fault # Ok THEN Unbound(d.name, d.fault)
        ELSE Binding(d.name, Global(d.kind, m, d.name, FALSE, <<m, d.name>>))]

\* The first binding that cannot be made, with its reason; Ok if all can.
FirstFault(bindings) ==
  LET again(i) == \E j \in 1 .. i - 1 : bindings[j].as = bindings[i].as
      faulty == {i \in DOMAIN bindings : bindings[i].fault # Ok \/ again(i)}
      first == CHOOSE i \in faulty : \A j \in faulty : i <= j
  IN IF faulty = {} THEN Ok
     ELSE IF bindings[first].fault # Ok THEN bindings[first].fault
     ELSE "NameAlreadyDefined"

Table(bindings) ==
  [n \in {bindings[i].as : i \in DOMAIN bindings} |->
     bindings[CHOOSE i \in DOMAIN bindings : bindings[i].as = n].sy]

CreateSymbols ==
  /\ phase = "names" /\ Top(frames).stage = "dependencies" /\ Top(frames).todo = {}
  /\ LET m == Top(frames).module
         bindings == ImportSymbols(m) \o DeclareSymbols(m)
     IN IF FirstFault(bindings) # Ok
        THEN Fail(FirstFault(bindings)) /\ UNCHANGED <<frames, globals>>
        ELSE /\ globals' = [globals EXCEPT ![m] = Table(bindings)]
             /\ frames' = Advanced(frames, [module |-> m, stage |-> "references",
                                            todo |-> DOMAIN Table(bindings)])
             /\ UNCHANGED <<phase, error>>
  /\ UNCHANGED <<program, walk, deps, exported, refs, visited>>

-----------------------------------------------------------------------------
\* resolveGlobalDepGraph: what each constant expression refers to.

\* GetSymbol: an imported symbol is looked up again among its module's exports.
\* It panics where the lookup fails.
Lost(m, n) ==
  LET sy == globals[m][n]
  IN sy.external /\ \/ sy.module \notin DOMAIN deps[m]
                    \/ sy.name \notin DOMAIN exported[deps[m][sy.module]]

GetSymbol(m, n) ==
  LET sy == globals[m][n]
  IN IF sy.external THEN exported[deps[m][sy.module]][sy.name] ELSE sy

Decl(sy) == program[sy.decl[1]].symbols[
              CHOOSE i \in DOMAIN program[sy.decl[1]].symbols :
                program[sy.decl[1]].symbols[i].name = sy.decl[2]]

Fields(sy) == IF sy.kind = "struct" THEN 1 .. Decl(sy).fields ELSE {}

\* A reference r = [from, via, to, part]: the part of the symbol whose
\* expression it is in, the form of the expression, the name, and the field or
\* the module that form has.
RefFault(m, r) ==
  LET sy == GetSymbol(m, r.to)
      lookup(wanted) == IF r.to \notin DOMAIN globals[m] THEN "NameNotDefined"
                        ELSE IF Lost(m, r.to) THEN "panic"
                        ELSE wanted
  IN CASE r.via = "value"  -> lookup(IF sy.kind # "const" THEN "NonConstExpr" ELSE Ok)
       [] r.via = "sizeof" -> lookup(Ok)
       [] r.via = "field"  -> lookup(IF sy.kind # "struct" THEN "ExpectedStruct"
                                     ELSE IF r.part \notin Fields(sy) THEN "NameNotDefined"
                                     ELSE Ok)
       [] r.via \in {"external", "sizeofExternal"} ->
            IF r.part \notin DOMAIN deps[m] THEN "panic"
            ELSE IF r.to \notin DOMAIN exported[deps[m][r.part]] THEN "panic"
            ELSE IF /\ r.via = "external"
                    /\ exported[deps[m][r.part]][r.to].kind # "const" THEN "NonConstExpr"
            ELSE Ok
       [] r.via = "call" -> "NonConstExpr"
       [] r.via = "string" -> "CannotUseStringInExpr"

Node(sy, part) == [sy |-> sy, part |-> part]

\* LinkField leaves out a symbol that is already linked; it goes by the name.
LinkField(links, node) ==
  IF \E i \in DOMAIN links : links[i].sy.name = node.sy.name /\ links[i].part = node.part
  THEN links ELSE Append(links, node)

Linked(m, sy, from) ==
  LET rs == SelectSeq(Decl(sy).refs, LAMBDA r : r.from = from /\ r.via \in {"value", "sizeof", "field"})
      nodes == [i \in DOMAIN rs |->
                  Node(GetSymbol(m, rs[i].to), IF rs[i].via = "field" THEN rs[i].part ELSE Whole)]
  IN FoldLeft(LinkField, <<>>, nodes)

LinkSymbol ==
  /\ phase = "names" /\ Top(frames).stage = "references"
  /\ \E n \in Top(frames).todo :
       LET m == Top(frames).module
           sy == globals[m][n]
           own == ~sy.external /\ sy.kind # "module"
           faulty == {i \in DOMAIN Decl(sy).refs : RefFault(m, Decl(sy).refs[i]) # Ok}
           first == CHOOSE i \in faulty : \A j \in faulty : i <= j
           next == Advanced(frames, [Top(frames) EXCEPT !.todo = @ \ {n}])
       IN IF ~own THEN frames' = next /\ UNCHANGED <<phase, error, refs>>
          ELSE IF faulty # {}
          THEN Fail(RefFault(m, Decl(sy).refs[first])) /\ UNCHANGED <<frames, refs>>
          ELSE /\ refs' = [node \in DOMAIN refs \cup {Node(sy, p) : p \in {Whole} \cup Fields(sy)} |->
                             IF node.sy = sy THEN Linked(m, sy, node.part) ELSE refs[node]]
               /\ frames' = next
               /\ UNCHANGED <<phase, error>>
  /\ UNCHANGED <<program, walk, deps, globals, exported, visited>>

-----------------------------------------------------------------------------
\* checkGlobalCycles: every path of references, from every symbol and field.

\* The Refs of an imported symbol are empty; its fields are those of the
\* declaration.
RefsOf(node) ==
  LET declared == Node(Global(node.sy.kind, node.sy.decl[1], node.sy.decl[2], FALSE, node.sy.decl),
                       node.part)
  IN IF node.part = Whole /\ node.sy.external THEN <<>>
     ELSE IF declared \in DOMAIN refs THEN refs[declared]
     ELSE <<>>

\* Mutant of SyHasVisited: fields are taken for their struct.
SyHasVisitedName(node) == \E k \in DOMAIN walk : walk[k].at.sy.name = node.sy.name

SyHasVisited(node) ==
  \E k \in DOMAIN walk : walk[k].at.sy.name = node.sy.name /\ walk[k].at.part = node.part

CheckGlobals ==
  /\ phase = "names" /\ Top(frames).stage = "references" /\ Top(frames).todo = {}
  /\ LET m == Top(frames).module
     IN frames' = Advanced(frames,
          [module |-> m, stage |-> "cycles",
           todo |-> UNION {{Node(globals[m][n], p) : p \in {Whole} \cup Fields(globals[m][n])} :
                             n \in DOMAIN globals[m]}])
  /\ UNCHANGED <<program, phase, error, walk, deps, globals, exported, refs, visited>>

\* The loops of checkGlobalCycles start the next walk, with an empty prev.
StartSymbolCheck ==
  /\ phase = "names" /\ Top(frames).stage = "cycles" /\ walk = <<>>
  /\ \E node \in Top(frames).todo :
       /\ walk' = <<[at |-> node, rest |-> RefsOf(node)]>>
       /\ frames' = Advanced(frames, [Top(frames) EXCEPT !.todo = @ \ {node}])
  /\ UNCHANGED <<program, phase, error, deps, globals, exported, refs, visited>>

CheckSymbolCycle ==
  /\ phase = "names" /\ walk # <<>> /\ Top(walk).rest # <<>>
  /\ LET node == Head(Top(walk).rest)
     IN IF SyHasVisited(node)
        THEN Fail("InvalidSymbolCycle") /\ UNCHANGED walk
        ELSE /\ walk' = Append(Advanced(walk, [Top(walk) EXCEPT !.rest = Tail(@)]),
                               [at |-> node, rest |-> RefsOf(node)])
             /\ UNCHANGED <<phase, error>>
  /\ UNCHANGED <<program, frames, deps, globals, exported, refs, visited>>

SymbolChecked ==
  /\ phase = "names" /\ walk # <<>> /\ Top(walk).rest = <<>>
  /\ walk' = Front(walk)
  /\ UNCHANGED <<program, phase, error, frames, deps, globals, exported, refs, visited>>

-----------------------------------------------------------------------------
\* checkExports, and resolve returns.

Exports(m) ==
  FlattenSeq([i \in DOMAIN Couplings(m) |->
    LET c == Couplings(m)[i]
        inner == SetToSeq({n \in DOMAIN globals[m] : ~globals[m][n].external})
    IN CASE c.kind # "export" -> <<>>
         [] c.kind = "export" /\ c.all ->
              [k \in DOMAIN inner |-> [name |-> inner[k], as |-> inner[k]]]
         [] c.kind = "export" /\ ~c.all -> c.items])

\* The table of exports is a map: which of two faults is reported is open.
ExportFaults(m) ==
  LET es == Exports(m)
      again == \E i, j \in DOMAIN es : i # j /\ es[i].as = es[j].as
      undefined == \E i \in DOMAIN es : es[i].name \notin DOMAIN globals[m]
      foreign == \E i \in DOMAIN es : es[i].name \in DOMAIN globals[m]
                                      /\ globals[m][es[i].name].external
  IN IF again THEN {"DuplicatedExport"}
     ELSE {e \in {"ExportingUndefName", "ExportingExternalName"} :
             IF e = "ExportingUndefName" THEN undefined ELSE foreign}

ExportTable(m) ==
  LET es == Exports(m)
  IN [n \in {es[i].as : i \in DOMAIN es} |->
        globals[m][es[CHOOSE i \in DOMAIN es : es[i].as = n].name]]

CheckExports ==
  /\ phase = "names" /\ Top(frames).stage = "cycles" /\ walk = <<>> /\ Top(frames).todo = {}
  /\ LET m == Top(frames).module
     IN IF ExportFaults(m) # {}
        THEN /\ \E e \in ExportFaults(m) : Fail(e)
             /\ UNCHANGED <<frames, exported, visited>>
        ELSE /\ exported' = [exported EXCEPT ![m] = ExportTable(m)]
             /\ frames' = Front(frames)
             /\ IF Len(frames) = 1
                THEN phase' = "resolved" /\ visited' = {}
                ELSE UNCHANGED <<phase, visited>>
             /\ UNCHANGED error
  /\ UNCHANGED <<program, walk, deps, globals, refs>>

Ended == phase \in {"resolved", "failed"} /\ UNCHANGED vars

Init ==
  /\ program \in Programs
  /\ phase = "load" /\ error = Ok
  /\ frames = <<>> /\ walk = <<>>
  /\ deps = NoNames /\ globals = NoNames /\ exported = NoNames
  /\ refs = NoNames
  /\ visited = {}

Next ==
  \/ ResolveRoot \/ ResolveDependency \/ ModuleLoaded
  \/ CheckDepCycle \/ DependencyChecked
  \/ ResolveDep \/ CreateSymbols
  \/ LinkSymbol \/ CheckGlobals \/ StartSymbolCheck \/ CheckSymbolCycle \/ SymbolChecked
  \/ CheckExports
  \/ Ended

\* Resolve is one sequential program.
Spec == Init /\ [][Next]_vars /\ WF_vars(Next)

-----------------------------------------------------------------------------
\* Properties.

R == INSTANCE ImportRules

\* Every table keeps its type.
TypeOK ==
  /\ phase \in {"load", "cycles", "names", "resolved", "failed"}
  /\ (error = Ok) = (phase # "failed")
  /\ DOMAIN globals = DOMAIN deps /\ DOMAIN exported = DOMAIN deps
  /\ visited \subseteq DOMAIN deps
  /\ \A m \in DOMAIN deps : \A a \in DOMAIN deps[m] : deps[m][a] \in DOMAIN deps
  /\ \A i \in DOMAIN frames : frames[i].module \in DOMAIN deps

OnFrames == {frames[i].module : i \in DOMAIN frames}

\* A module is loaded once, whatever the number of its importers and the cycles it
\* is on; one that resolveModule has left has all its dependencies; and after
\* loading the program is exactly what Root reaches.
Loading ==
  /\ phase = "load" =>
       /\ \A i, j \in DOMAIN frames : i # j => frames[i].module # frames[j].module
       /\ \A m \in DOMAIN deps \ OnFrames :
            {deps[m][a] : a \in DOMAIN deps[m]} = R!Wanted(program, m)
  /\ phase \in {"cycles", "names", "resolved"} =>
       /\ DOMAIN deps = R!Reached(program, Root)
       /\ \A m \in DOMAIN deps :
            {deps[m][a] : a \in DOMAIN deps[m]} = R!Wanted(program, m)

\* A cycle is reported if and only if the imports Root reaches have one, on
\* whatever path the walk finds it, and names are only resolved without.
CyclesCaught ==
  /\ error = "InvalidDependencyCycle" => R!Cyclic(program, Root)
  /\ phase \in {"names", "resolved"} => ~R!Cyclic(program, Root)

\* When the symbols of a module are made, all modules it depends on have been
\* left by resolve: what they export is complete, in any order of the maps.
ExportsFirst ==
  \A i \in DOMAIN frames :
    phase = "names" /\ frames[i].stage # "dependencies" =>
      \A a \in DOMAIN deps[frames[i].module] :
        deps[frames[i].module][a] \in visited \ OnFrames

\* The name a symbol had before m gave it the name n.
FirstName(p, m, n) == ({n} \cap R!Declared(p, m))
                        \cup {a.name : a \in {b \in R!Aliases(p, m) : b.as = n}}

\* A name imported by the one its module exports it under, which is not its first.
ImportsRenamed(p) ==
  \E m \in DOMAIN p : \E i \in DOMAIN p[m].couplings :
    LET c == p[m].couplings[i]
    IN c.kind = "from" /\ ~c.all /\
       \E k \in DOMAIN c.items : \E e \in R!Exported(p, c.module) :
         e.as = c.items[k].name /\ e.as \notin FirstName(p, c.module, e.name)

\* In a resolved program every name of a module can be looked up, and stands
\* for the declaration that the imports and exports say.
NamesMean ==
  phase = "resolved" =>
    \A m \in DOMAIN globals : \A n \in DOMAIN globals[m] :
      ~Lost(m, n) /\ {GetSymbol(m, n).decl} = R!Meaning(program, m, n)

\* A program is resolved if and only if it is well formed, whichever order the
\* ranges over maps take.
Verdict ==
  /\ phase = "resolved" => R!WellFormed(program, Root)
  /\ phase = "failed" => ~R!WellFormed(program, Root)

\* Resolution ends, cyclic programs included.
Decides == <>(phase \in {"resolved", "failed"})

\* The tables are what the pass that reads them next takes them for: closed
\* under dependencies, complete after loading, and with exports made before
\* imports ask for them.
TablesHold == TypeOK /\ Loading /\ ExportsFirst

\* A program is rejected when it must be, for a cycle of imports or any other
\* reason, and only then.
Decision == CyclesCaught /\ Verdict

=============================================================================

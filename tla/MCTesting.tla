----------------------------- MODULE MCTesting ------------------------------
(***************************************************************************)
(* Folders for Testing: three tests, the second in a folder of its own, a  *)
(* file named mp, which is no test, and a folder that may not be readable. *)
(* The first and the third make a binary of the same name.                 *)
(***************************************************************************)
EXTENDS Testing

Test(codes, stage) ==
  [name |-> <<"m">> \o codes \o <<"mp">>, stage |-> stage, assembles |-> "yes",
   starts |-> TRUE, ends |-> {}, line |-> 0]

Runs(ends) == [Test(<<>>, "binary") EXCEPT !.ends = ends]

Programs == {Runs({}), Runs({"zero"}), Runs({"nonzero"}), Runs({"zero", "nonzero"}),
             [Runs({}) EXCEPT !.starts = FALSE],
             [Runs({}) EXCEPT !.assembles = "no"],
             [Runs({}) EXCEPT !.assembles = "panics"]}

Errors == {Test(<<>>, "panics"), Test(<<>>, "nothing"), Test(<<>>, "E002"),
           Test(<<>>, NoEntryPoint), Test(<<>>, InternalCompilerError),
           Test(<<"E002">>, "E002"), Test(<<"1", "E002">>, "E002"),
           Test(<<"E002">>, "panics"), Test(<<NoEntryPoint>>, NoEntryPoint),
           Test(<<InternalCompilerError>>, InternalCompilerError)}

\* Names that promise an error the compiler does not give.
Missed == {Test(<<"E002">>, "E003"), Test(<<"E002">>, "nothing"),
           [Runs({"zero"}) EXCEPT !.name = <<"m", "E002", "mp">>],
           Test(<<"E002">>, NoEntryPoint)}

Named(t, n) == [t EXCEPT !.name = <<n>> \o Tail(@)]

OnLine(t, n) == [t EXCEPT !.line = n]

FileEntry(f) == [kind |-> "file", name |-> f]

Folder(a, b, c, readable) ==
  [dirs |-> [root |-> [readable |-> TRUE, first |-> 1, last |-> 6,
                       entries |-> <<FileEntry("a"), [kind |-> "dir", name |-> "sub"],
                                     FileEntry("c"), FileEntry("mp")>>],
             sub  |-> [readable |-> readable, first |-> 3, last |-> 4, entries |-> <<FileEntry("b")>>]],
   tests |-> [a |-> OnLine(a, 2), b |-> OnLine(Named(b, "n"), 4), c |-> OnLine(c, 5),
              mp |-> OnLine([Test(<<>>, "nothing") EXCEPT !.name = <<"mp">>], 6)]]

MCSuites == {Folder(a, b, c, r) : a \in Programs \cup {Test(<<>>, "panics")},
                                  b \in Programs \cup Errors,
                                  c \in {Runs({"zero"}), Test(<<"E002">>, "E002")},
                                  r \in BOOLEAN}

ASSUME PromisesKept == \A s \in MCSuites : \A f \in DOMAIN s.tests : KeepsPromise(s.tests[f])

MissedSuites == {Folder(Runs({"zero"}), b, Runs({"zero"}), TRUE) : b \in Missed}

=============================================================================

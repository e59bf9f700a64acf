------------------------------ MODULE MCFrames ------------------------------
(***************************************************************************)
(* A program of three procedures: main calls both others and itself, f     *)
(* calls itself, and g returns more than it takes.                         *)
(***************************************************************************)
EXTENDS Frames

MCProcs == {"main", "f", "g"}

Of(v, s, m, n, r) == [vars |-> v, spills |-> s, callee |-> m, args |-> n, rets |-> r]

MCShape == [main |-> Of(1, 0, 2, 0, 0),
            f    |-> Of(0, 1, 1, 1, 1),
            g    |-> Of(1, 0, 0, 1, 2)]

=============================================================================

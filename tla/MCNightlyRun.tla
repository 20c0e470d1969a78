---------------------------- MODULE MCNightlyRun ----------------------------
(* Two suites: one of five codeunits that needs two chunks, one of two.  Some *)
(* ids are neighbours, some gaps are empty, and in some is a codeunit that    *)
(* must not run, next to the one before it or further on.                     *)
EXTENDS ChunkedRun

MCExpected == [s \in 1..2 |-> IF s = 1 THEN {1, 2, 4, 5, 8} ELSE {11, 14}]
MCTests == {1, 2, 4, 5, 8, 11, 14}
MCForeign == {0, 6, 10, 13}
=============================================================================

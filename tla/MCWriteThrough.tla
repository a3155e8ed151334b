---------------------------- MODULE MCWriteThrough ----------------------------
(* Small instances of WriteThrough. *)
EXTENDS WriteThrough

CONSTANTS s1, s2

MCSubjects == {s1, s2}
\* Two values that differ in a column, with a fact that has none in some tables.
MCValues == {{1, 3}, {2, 3}}
=============================================================================

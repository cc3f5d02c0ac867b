------------------------------ MODULE MCRename ------------------------------
(* Small instances of Rename.                                              *)
EXTENDS Rename, TLC

\* Callers, records and values are interchangeable.
Symmetry == Permutations(Caller) \cup Permutations(Row) \cup Permutations(Value)
=============================================================================

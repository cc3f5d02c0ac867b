----------------------------- MODULE MCRecords ------------------------------
(* Small instances of Records.                                             *)
EXTENDS Records, TLC

\* Clients are interchangeable, and so are ids.
Symmetry == Permutations(Client) \cup Permutations(Id)
=============================================================================

----------------------------- MODULE MCEdgeAssoc -----------------------------
(* Small instances of EdgeAssoc: a relation between two tables, which accepts *)
(* edges from r1 to r2 and r3 only, and one of a table with itself.            *)
EXTENDS EdgeAssoc, TLC

CONSTANTS r1, r2, r3

Records == {r1, r2, r3}
MCTables == {{<<r1, r2>>, <<r1, r3>>}, {r1, r2} \X {r1, r2}}
Symmetry == Permutations(Client)
=============================================================================

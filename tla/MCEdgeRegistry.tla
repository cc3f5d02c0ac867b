-------------------------- MODULE MCEdgeRegistry ---------------------------
(* Small instances of EdgeRegistry.                                        *)
EXTENDS EdgeRegistry, TLC

\* Goroutines are interchangeable.
Symmetry == Permutations(Goroutine)
=============================================================================

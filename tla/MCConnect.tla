----------------------------- MODULE MCConnect ------------------------------
(* A small instance of Connect: three attempts at most.                       *)
EXTENDS Connect
=============================================================================

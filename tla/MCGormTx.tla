------------------------------ MODULE MCGormTx ------------------------------
(* A small instance of GormTx: two sessions, one of which may be in a        *)
(* transaction, a record that is there and one that may be created, and two  *)
(* edges.                                                                    *)
EXTENDS GormTx
=============================================================================

------------------------------ MODULE MCLinks -------------------------------
(* A small instance of Links: a link whose T has no GetID, and an element of *)
(* a SliceLink whose T has one.                                              *)
EXTENDS Links
=============================================================================

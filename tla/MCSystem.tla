------------------------------ MODULE MCSystem ------------------------------
(* Two CPUs whose processes compete for one RAM frame, with swap for every *)
(* page; pages have one byte.                                              *)
EXTENDS System
=============================================================================

------------------------------ MODULE MCTimer ------------------------------
(* Timer on a dev_list of three devices that live for at most two slots.   *)
EXTENDS Timer
=============================================================================

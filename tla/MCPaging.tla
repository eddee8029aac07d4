------------------------------ MODULE MCPaging ------------------------------
(* Small instances of the memory system.  Pages have two bytes, so that a  *)
(* size of one or three leaves a page half used.                           *)
EXTENDS Paging, TLC

\* Neither CPUs nor processes are told apart; used where only safety is checked.
Symmetric == Permutations(Cpu) \cup Permutations(Pid)
=============================================================================

--------------------------- MODULE MCProcessLock ---------------------------
(* ProcessLock on a handful of processes, for TLC. *)
EXTENDS ProcessLock, TLC

Symmetry == Permutations(Procs)
=============================================================================

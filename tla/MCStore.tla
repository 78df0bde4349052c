------------------------------ MODULE MCStore ------------------------------
(* Store on a handful of sequence numbers, for TLC. *)
EXTENDS Store
=============================================================================

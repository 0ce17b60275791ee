---------------------------- MODULE MCRetention ----------------------------
(* Retention for TLC. *)
EXTENDS Retention, TLC

Interchangeable == Permutations(Worker)
=============================================================================

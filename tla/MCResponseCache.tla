-------------------------- MODULE MCResponseCache --------------------------
(* Small instances of ResponseCache for TLC. *)
EXTENDS ResponseCache, TLC

Interchangeable == Permutations(Client) \cup Permutations(Key)
=============================================================================

--------------------------- MODULE MCScanControl ---------------------------
(* Small instances of ScanControl for TLC. *)
EXTENDS ScanControl, TLC

Interchangeable == Permutations(Worker) \cup Permutations(Customer)
                     \cup Permutations(Provider)
=============================================================================

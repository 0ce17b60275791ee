--------------------------- MODULE MCCostHistory ---------------------------
(* CostHistory for TLC. *)
EXTENDS CostHistory

ASSUME BothTables == HistoryTables
=============================================================================

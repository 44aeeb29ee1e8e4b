---------------------------- MODULE MC_QueryCheck ----------------------------
(* Every combination of arguments and results of one query() or command(). *)
EXTENDS QueryCheck
=============================================================================

------------------------------ MODULE MCTables ------------------------------
(* A root and two further tables of two fields, one loop inside another,   *)
(* paths of up to three keys.  While a loop is on or the program has a     *)
(* table of its own on the stack, at most one besides the root is in use.  *)
EXTENDS Tables

CONSTANTS a, b
TwoKeys == <<a, b>>
NoUses  == {}
StackPushes == {"stack_push"}
StackValids == {"stack_valid"}

Small ==
    \/ Running = {} /\ own = <<>>
    \/ Cardinality(Reachable(heap, stack)) <= 2
MCSpec == TablesInit /\ [][TablesNext /\ Small']_tablevars

Symmetry == Permutations(Walks) \cup Permutations(TableIds \ {Root, Globals})
=============================================================================

------------------------------ MODULE MCScripts -----------------------------
(* Two result objects, one value of the program's own, two packages whose  *)
(* scripts may require each other, and an environment besides the globals. *)
EXTENDS Scripts

NoUses == {}

Symmetry == Permutations(Objects) \cup Permutations(Calls) \cup Permutations(Packages)
=============================================================================

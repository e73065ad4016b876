--------------------------- MODULE MCUserdataLayout ---------------------------
(* A 64-bit machine: objects of alignment 1 to 32, two sizes of each, in    *)
(* blocks at every residue of an address modulo 64.                         *)
EXTENDS UserdataLayout
Word == [align |-> 8, size |-> 8]
Held == {[align |-> a, size |-> a * n] : a \in {1, 2, 4, 8, 16, 32}, n \in {1, 3}}
Everywhere == 64 .. 127
=============================================================================

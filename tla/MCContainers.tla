----------------------------- MODULE MCContainers -----------------------------
(* Every kind of container, with two values.                                 *)
EXTENDS Containers
=============================================================================

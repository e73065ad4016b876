---------------------------- MODULE MCCallResults ---------------------------
(* Two result objects, and a program that calls, is called back and calls  *)
(* again, with an own value under and over the results.                    *)
EXTENDS CallResults

NoUses      == {}
Copies      == {"copy"}
AssignsOver == {"assign_over"}
TypedErrors == {"typed_error"}
Throws      == {"throw"}
OtherThread == {"other_thread"}
OutOfOrder  == {"out_of_order"}
=============================================================================

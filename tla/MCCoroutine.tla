----------------------------- MODULE MCCoroutine -----------------------------
(* Two coroutine objects and two results on one thread.                      *)
EXTENDS Coroutine
=============================================================================

--------------------------- MODULE MCSolReference ---------------------------
(* Lua state A has a main thread, a coroutine and an object; state B has a *)
(* main thread and an object.  r1, r2 are plain handles, m is a main_ one. *)
EXTENDS SolReference, TLC

CONSTANTS r1, r2, m, A, B, mainA, mainB, coA, objA, objB

\* One state, all three handles.
Handles3      == {r1, r2, m}
Main3         == {m}
OnlyA         == {A}
ThreadsA      == {mainA, coA}
StateOfA      == mainA :> A @@ coA :> A
MainThreadA   == A :> mainA
ValuesA       == {coA, objA}
HomeA         == coA :> A @@ objA :> A

\* Two states, two handles.
Handles2      == {r1, m}
BothStates    == {A, B}
ThreadsAB     == {mainA, coA, mainB}
StateOfAB     == StateOfA @@ mainB :> B
MainThreadAB  == MainThreadA @@ B :> mainB
ValuesAB      == {coA, objA, objB}
HomeAB        == HomeA @@ objB :> B

NoUses       == {}
SelfAssigns  == {"self_copy_assign"}
CrossPins    == {"cross_state_pin"}
EmptyToMain  == {"main_from_empty"}
=============================================================================

---------------------------- MODULE ValueHandles ----------------------------
(***************************************************************************)
(* What sol::reference promises: a handle is a value.  Copying gives both  *)
(* handles the same object, moving never invents or changes one, and an    *)
(* object is kept from the collector for as long as a handle denotes it.   *)
(* Slots, threads and lua_State pointers are absent: SolReference shows    *)
(* that the code's bookkeeping with them amounts to this.                  *)
(***************************************************************************)
CONSTANTS Handles, Values, Nil, None, Dead

VARIABLES val,    \* val[h]: what h denotes (None: empty, Dead: not constructed)
          roots,  \* objects the Lua side still reaches (globals, stacks)
          live    \* objects not collected yet

vars == <<val, roots, live>>

TypeOK == /\ val \in [Handles -> Values \cup {Nil, None, Dead}]
          /\ roots \subseteq live
          /\ live \subseteq Values

Init == /\ val = [h \in Handles |-> Dead]
        /\ roots = Values
        /\ live = Values

Bind(h) == /\ val[h] = Dead
           /\ \E x \in roots \cup {Nil, None} : val' = [val EXCEPT ![h] = x]
           /\ UNCHANGED <<roots, live>>

Copy(h, g) == /\ h # g
              /\ val[g] # Dead
              /\ val' = [val EXCEPT ![h] = val[g]]
              /\ UNCHANGED <<roots, live>>

\* The source of a move is left empty or, when the code copies, untouched.
Move(h, g) == /\ val[g] # Dead
              /\ \E left \in {val[g], None} :
                    val' = [val EXCEPT ![h] = val[g], ![g] = left]
              /\ UNCHANGED <<roots, live>>

Clear(h) == /\ val[h] # Dead
            /\ val' = [val EXCEPT ![h] = None]
            /\ UNCHANGED <<roots, live>>

Destroy(h) == /\ val[h] # Dead
              /\ val' = [val EXCEPT ![h] = Dead]
              /\ UNCHANGED <<roots, live>>

Give(h) == /\ val[h] \in Values
           /\ roots' = roots \cup {val[h]}
           /\ UNCHANGED <<val, live>>

Unroot(v) == /\ v \in roots
             /\ roots' = roots \ {v}
             /\ UNCHANGED <<val, live>>

Collect(v) == /\ v \in live \ roots
              /\ \A h \in Handles : val[h] # v
              /\ live' = live \ {v}
              /\ UNCHANGED <<val, roots>>

Next == \/ \E h \in Handles : Bind(h) \/ Clear(h) \/ Destroy(h) \/ Give(h)
        \/ \E h, g \in Handles : Copy(h, g) \/ Move(h, g)
        \/ \E v \in Values : Unroot(v) \/ Collect(v)

Spec == Init /\ [][Next]_vars
=============================================================================

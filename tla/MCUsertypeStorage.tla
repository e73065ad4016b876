-------------------------- MODULE MCUsertypeStorage --------------------------
(* Two scopes: one default constructible class with every handler, or a    *)
(* base class and one derived from it.                                     *)
EXTENDS UsertypeStorage

CONSTANTS B, D, v1

\* D may be declared to derive from B, and B from nothing.
DerivedBases(c) == IF c = D THEN {<<B>>} ELSE {}

VARIABLE scope

Alone == scope = "alone"

In(c) == c = B \/ ~Alone
ScopeKeys == IF Alone THEN MetaKeys ELSE {"__index"}
ScopeNames == IF Alone THEN Names ELSE {"f"}
ScopeValues == IF Alone THEN {v1} ELSE Values

\* In the first scope the class has a default constructor.
Constructible(c) == class[c].live => (Alone <=> "new" \in DOMAIN class[c].string_keys)

MCInit == Init /\ scope \in {"alone", "family"}

MCNext ==
    /\ UNCHANGED scope
    /\ \E c \in Classes : In(c) /\
          \/ Register(c) /\ Constructible(c)'
          \/ Unregister(c)
          \/ Alone /\ BindCall(c)
          \/ \E k \in ScopeNames, kind \in {"function", "variable"} : BindMember(c, k, kind)
          \/ \E k \in ScopeKeys : BindHandler(c, k)
          \/ \E bases \in BaseLists(c) : DeclareBases(c, bases)
          \/ \E k \in {"f"}, v \in ScopeValues :
                 \/ ScriptAssign(c, k, v)
                 \/ ~Alone /\ \E t \in {"value", "reference"} : ObjectAssign(c, t, k, v)

MCSpec == MCInit /\ [][MCNext]_<<vars, scope>>
=============================================================================

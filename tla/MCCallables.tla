----------------------------- MODULE MCCallables -----------------------------
(* Lists of up to three functions, and calls with up to three arguments.   *)
EXTENDS Callables

Functions == {
    <<>>, <<"int">>, <<"string">>, <<"int", "string">>, <<"optional_int", "string">>,
    <<"this_state", "int">>, <<"int", "optional_table">>, <<"optional_int", "optional_int">>, <<"optional_table", "int">>, <<"pair">>, <<"tuple", "int">>,
    <<"int", "variadic_args">>, <<"variadic_args">>, <<"int", "pair">>, <<"int", "tuple">>,
    <<"this_environment", "variadic_args">>, <<"table", "this_environment", "int">>}
Few == {<<"int">>, <<"string">>, <<"int", "string">>, <<"variadic_args">>}

UpTo(n, S) == UNION {[1 .. i -> S] : i \in 1 .. n}
Sets == UpTo(1, Functions) \cup UpTo(3, Few) \cup {<<f, g>> : f \in Few, g \in Functions}
Pairs == {s \in Sets : Len(s) = 2}
Calls == {<<>>} \cup UpTo(3, ArgTypes)
AllForms == {"plain", "overload", "constructor", "initializer", "bare"}
Overloaded == {"overload"}
NoUses == {}
Displaced == {"displaced"}
AbsentTables == {"absent_table"}
Environments == {"environment"}
BareOnes == {"bare"}
Views == {"views"}
Unchecked == {"unchecked"}
=============================================================================

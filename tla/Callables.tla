------------------------------ MODULE Callables ------------------------------
(***************************************************************************)
(* How a call from Lua finds its C++ function: the overloads are tried in  *)
(* order, the checkers of the parameters decide, the getters read the      *)
(* arguments from the slots a running count leads them to, the arguments   *)
(* are cleared away and the results pushed.                                *)
(*                                                                         *)
(* A checker and a getter each count the slots they used.  Nothing but the *)
(* agreement of the two counts makes a parameter read its own argument.    *)
(***************************************************************************)
EXTENDS Integers, Sequences

CONSTANTS OverloadSets, \* lists of functions bound to one name
          ArgLists,     \* lists of arguments scripts pass
          Forms,        \* how the functions are bound
          MaxResults,   \* bound: values a function returns
          CallUses      \* parameters and results the program's functions have

(***************************************************************************)
(*   "displaced"    a pair or a tuple after another parameter              *)
(*   "absent_table" optional<table> before another parameter               *)
(*   "environment"  this_environment before variadic_args                  *)
(*   "bare"         constructors bound as a function, with parameters      *)
(*   "views"        several results that point into arguments              *)
(*   "unchecked"    a build without checks of a function's arguments        *)
(***************************************************************************)
AllCallUses == {"displaced", "absent_table", "environment", "bare", "views", "unchecked"}

ArgTypes == {"num", "str", "nil", "tbl"}

Numbers == {"int", "optional_int"}
Optionals == {"optional_int", "optional_table"}
Twins == {"pair", "tuple"}         \* of an int and a string
Transparent == {"this_state", "this_environment", "variadic_args"}
Params == {"int", "string", "table"} \cup Optionals \cup Twins \cup Transparent

ASSUME CallablesAssumption ==
    /\ \A o \in OverloadSets : o \in Seq(Seq(Params)) /\ o # <<>>
    /\ ArgLists \subseteq Seq(ArgTypes) /\ MaxResults \in Nat
    /\ Forms \subseteq {"plain", "overload", "constructor", "initializer", "bare"}
    /\ CallUses \subseteq AllCallUses

VARIABLES form, syntax, overloads, args,  \* the call
          stack,    \* the stack of the C function
          phase, fx,  \* what goes on, and the function that is tried
          misfits,  \* arities the call is known not to have
          used,     \* the record of the getters
          taken,    \* the slots every parameter was read from
          living,   \* the arguments' strings exist
          results,  \* what the function returned
          pushed    \* how much of it is on the stack

call == <<form, syntax, overloads, args>>
callvars == <<call, stack, phase, fx, misfits, used, taken, living, results, pushed>>

-----------------------------------------------------------------------------
(* Parameters. *)

At(i) == IF i \in DOMAIN stack THEN stack[i] ELSE "none"

lua_size(p) == IF p \in Twins THEN 2 ELSE IF p \in Transparent THEN 0 ELSE 1

\* The sizes of the first n parameters together.
Sizes(f) ==
    LET sum[n \in 0 .. Len(f)] == IF n = 0 THEN 0 ELSE sum[n - 1] + lua_size(f[n])
    IN  sum
free_arity(f) == Sizes(f)[Len(f)]

Fixed(f) == \A i \in DOMAIN f : f[i] # "variadic_args"

Underlying(p) == CASE p \in Numbers -> "num" [] p \in {"optional_table", "table"} -> "tbl"
                   [] OTHER -> "str"

\* check() of one parameter at index: whether it passes, and the count after.
Checker(p, index, count) ==
    CASE p \in Transparent -> [ok |-> TRUE, used |-> count]
      [] p \in Optionals ->
           [ok |-> At(index) \in {"none", "nil", Underlying(p)},
            used |-> count + (IF At(index) = "none" THEN 0 ELSE 1)]
      [] p \in Twins ->
           \* check_types starts at index and adds the count of all before.
           [ok |-> At(index + count) = "num" /\ At(index + count + 1) = "str",
            used |-> count + 2]
      [] OTHER -> [ok |-> At(index) = Underlying(p), used |-> count + 1]

\* The record of the checkers after n parameters.
Checked(f, start) ==
    LET c[n \in 0 .. Len(f)] ==
            IF n = 0 THEN [ok |-> TRUE, used |-> 0]
            ELSE IF c[n - 1].ok THEN Checker(f[n], start + c[n - 1].used, c[n - 1].used)
            ELSE c[n - 1]
    IN  c
check_types(f, start) == Checked(f, start)[Len(f)].ok

\* The getter of a sol::optional of a reference counts no slot for nil.
Absent(p, index) ==
    IF p = "optional_table" \/ At(index) = "none" THEN 0 ELSE 1

\* Mutant: an optional that finds no value counts no slot.
Getter_uncounted(p, index, count) ==
    CASE p = "variadic_args" -> [slots |-> [i \in 1 .. Len(stack) - index + 1 |-> index + i - 1],
                                 used |-> count]
      [] p \in Transparent \ {"variadic_args"} -> [slots |-> <<>>, used |-> count]
      [] p \in Optionals /\ At(index) # Underlying(p) -> [slots |-> <<>>, used |-> count]
      [] p \in Twins -> [slots |-> <<index, index + 1>>, used |-> count + 2]
      [] OTHER -> [slots |-> <<index>>, used |-> count + 1]

\* get() of one parameter at index: what it reads, and the count after.
Getter(p, index, count) ==
    CASE p = "variadic_args" -> [slots |-> [i \in 1 .. Len(stack) - index + 1 |-> index + i - 1],
                                 used |-> count]
      [] p \in Transparent \ {"variadic_args"} -> [slots |-> <<>>, used |-> count]
      [] p \in Optionals /\ At(index) # Underlying(p) ->
           [slots |-> <<>>, used |-> count + Absent(p, index)]
      [] p = "pair" -> [slots |-> <<index, index + count + 1>>, used |-> count + 2]
      [] p = "tuple" -> [slots |-> <<index + count, index + count + 1>>, used |-> count + 2]
      [] OTHER -> [slots |-> <<index>>, used |-> count + 1]

-----------------------------------------------------------------------------
(* The call. *)

Constructing == form \in {"constructor", "bare", "initializer"}
syntaxval == IF syntax = "colon" THEN 1 ELSE 0

\* What is before the arguments when the overloads are tried.
Before(w, s) ==
    (IF w \in {"constructor", "bare"} THEN <<"userdata">> ELSE <<>>)
        \o (IF s = "colon" THEN <<"class">> ELSE <<>>)

\* Where check_types starts, and where the getters do: the userdata of an
\* initializer is inserted between the two.
checkstart == IF form = "constructor" THEN 2 + syntaxval ELSE 1 + syntaxval
callstart == IF form = "initializer" THEN checkstart + 1 ELSE checkstart
fxarity == Len(args)

Function == overloads[fx]
HasFunction == fx <= Len(overloads)
Matching == phase = "match" /\ HasFunction

\* A parameter that its successors make unusual.
Usual(f) ==
    \A i, j \in DOMAIN f :
        /\ f[i] \in Twins /\ j < i /\ f[j] \notin Transparent => "displaced" \in CallUses
        /\ f[i] = "optional_table" /\ i < j /\ f[j] # "this_state" => "absent_table" \in CallUses
        /\ f[i] = "this_environment" /\ f[j] = "variadic_args" /\ i < j => "environment" \in CallUses

Bound(w, o) ==
    /\ w = "plain" => Len(o) = 1
    /\ w = "bare" => "bare" \in CallUses \/ \A i \in DOMAIN o : o[i] = <<>>
    /\ \A i \in DOMAIN o : Usual(o[i])

CallInit ==
    /\ form \in Forms
    /\ syntax \in IF form \in {"plain", "overload"} THEN {"dot"} ELSE {"dot", "colon"}
    /\ overloads \in {o \in OverloadSets : Bound(form, o)}
    /\ args \in ArgLists
    /\ stack = Before(form, syntax) \o args
    /\ phase = IF form = "plain" THEN "verify" ELSE "match"
    /\ fx = 1 /\ misfits = {}
    /\ used = 0 /\ taken = <<>>
    /\ living = TRUE /\ results = <<>> /\ pushed = 0

fetching == <<used, taken, living, results, pushed>>

Skip(m) ==
    /\ fx' = fx + 1 /\ misfits' = m
    /\ UNCHANGED <<call, stack, phase, fetching>>

\* The arity was found wrong before: the compiler left the function out.
SkipKnown ==
    /\ Matching /\ Fixed(Function) /\ free_arity(Function) \in misfits
    /\ Skip(misfits)

SkipArity ==
    /\ Matching /\ Fixed(Function) /\ free_arity(Function) \notin misfits
    /\ free_arity(Function) # fxarity
    /\ Skip(misfits \cup {free_arity(Function)})

RightNumber == Fixed(Function) => free_arity(Function) \notin misfits /\ free_arity(Function) = fxarity

\* A single function is not checked before it is called.
Suits == Len(overloads) = 1 \/ check_types(Function, checkstart)

\* Mutant: what only has other types is taken for a misfit as well.
SkipTypesAsMisfit ==
    /\ Matching /\ RightNumber /\ ~Suits
    /\ Skip(misfits \cup {free_arity(Function)})

SkipTypes ==
    /\ Matching /\ RightNumber /\ ~Suits
    /\ Skip(misfits)

Match ==
    /\ Matching /\ RightNumber /\ Suits
    /\ phase' = "verify"
    /\ stack' = IF form = "initializer" THEN <<"userdata">> \o stack ELSE stack
    /\ UNCHANGED <<call, fx, misfits, fetching>>

NoMatch ==
    /\ phase = "match" /\ ~HasFunction
    /\ phase' = "error"
    /\ UNCHANGED <<call, stack, fx, misfits, fetching>>

\* multi_check, with safe function calls.
Verify ==
    /\ phase = "verify"
    /\ phase' = IF "unchecked" \in CallUses \/ check_types(Function, callstart)
                THEN "fetch" ELSE "error"
    /\ UNCHANGED <<call, stack, fx, misfits, fetching>>

Param == Function[Len(taken) + 1]

\* The getter of this_environment finds a function of Lua that has one and
\* leaves it on the stack, or finds none.
Fetch ==
    /\ phase = "fetch" /\ Len(taken) < Len(Function)
    /\ LET g == Getter(Param, callstart + used, used)
       IN /\ taken' = Append(taken, g.slots) /\ used' = g.used
          /\ stack' \in IF Param = "this_environment" THEN {stack, Append(stack, "function")}
                        ELSE {stack}
    /\ UNCHANGED <<call, phase, fx, misfits, living, results, pushed>>

Strings == {i \in DOMAIN stack : stack[i] = "str"}
Value == <<"value", 0>>
View(i) == <<"view", i>>
Slot(i) == <<"slot", i>>

\* Values of the function's own, or strings it was given as arguments.
Results ==
    {r \in UNION {[1 .. n -> {Value} \cup {View(i) : i \in Strings}] : n \in 0 .. MaxResults} :
        "views" \in CallUses \/ \A i \in DOMAIN r : i > 1 => r[i] = Value}

\* variadic_args as the result: what they stand for is copied to the top.
Forwarded ==
    {[i \in DOMAIN taken[k] |-> Slot(taken[k][i])] :
        k \in {j \in DOMAIN taken : Function[j] = "variadic_args"}}

\* Mutant: the arguments are cleared away before any kind of result.
CleanedAlways(stack_based) == <<>>

\* The arguments are cleared away unless the result is on the stack itself.
Cleaned(stack_based) == IF stack_based THEN stack ELSE <<>>

Run ==
    /\ phase = "fetch" /\ Len(taken) = Len(Function)
    /\ phase' = "push"
    /\ \/ /\ results' \in IF Constructing THEN {<<>>} ELSE Results
          /\ stack' = Cleaned(FALSE)
       \/ /\ ~Constructing /\ results' \in Forwarded
          /\ stack' = Cleaned(TRUE)
    /\ UNCHANGED <<call, fx, misfits, used, taken, living, pushed>>

Content(r) ==
    CASE r[1] = "slot" -> At(r[2])
      [] r[1] = "view" -> IF living THEN "str" ELSE "freed"
      [] OTHER -> "value"

\* Lua may collect while a result is pushed, and nobody holds the arguments.
Push ==
    /\ phase = "push" /\ pushed < Len(results)
    /\ stack' = Append(stack, Content(results[pushed + 1]))
    /\ pushed' = pushed + 1
    /\ living' \in {living, FALSE}
    /\ UNCHANGED <<call, phase, fx, misfits, used, taken, results>>

\* A constructor returns the userdata it kept a reference to.
ReturnResults ==
    /\ phase = "push" /\ pushed = Len(results)
    /\ phase' = "returned"
    /\ stack' = IF Constructing THEN Append(stack, "userdata") ELSE stack
    /\ UNCHANGED <<call, fx, misfits, fetching>>

CallNext ==
    \/ SkipKnown \/ SkipArity \/ SkipTypes \/ Match \/ NoMatch
    \/ Verify \/ Fetch \/ Run \/ Push \/ ReturnResults

CallSpec == CallInit /\ [][CallNext]_callvars

-----------------------------------------------------------------------------
(* Properties. *)

\* Where an argument is once its function is called.
Place(n) == n + Len(Before(form, syntax)) + IF form = "initializer" THEN 1 ELSE 0

Arg(n) == IF n \in DOMAIN args THEN args[n] ELSE "none"

\* The argument that belongs to parameter k, counted from the sizes of the
\* parameters before it, whatever checkers and getters count.
Position(f, k) == 1 + Sizes(f)[k - 1]

Takes(f, k) ==
    LET n == Position(f, k)
    IN  CASE f[k] \in Transparent -> TRUE
          [] f[k] \in Optionals -> Arg(n) \in {"none", "nil", Underlying(f[k])}
          [] f[k] \in Twins -> Arg(n) = "num" /\ Arg(n + 1) = "str"
          [] OTHER -> Arg(n) = Underlying(f[k])

Own(f, k) ==
    LET n == Position(f, k)
    IN  CASE f[k] = "variadic_args" -> [i \in 1 .. Len(args) - n + 1 |-> Place(n + i - 1)]
          [] f[k] \in Transparent \ {"variadic_args"} -> <<>>
          [] f[k] \in Optionals /\ Arg(n) # Underlying(f[k]) -> <<>>
          [] f[k] \in Twins -> <<Place(n), Place(n + 1)>>
          [] OTHER -> <<Place(n)>>

Fits(f) ==
    /\ form # "plain" /\ Fixed(f) => free_arity(f) = Len(args)
    /\ \A k \in DOMAIN f : Takes(f, k)

CallTypeOK ==
    /\ stack \in Seq(ArgTypes \cup {"userdata", "class", "function", "value", "freed"})
    /\ phase \in {"match", "verify", "fetch", "push", "returned", "error"}
    /\ fx \in 1 .. Len(overloads) + 1 /\ misfits \subseteq Nat
    /\ used \in Nat /\ taken \in Seq(Seq(Nat)) /\ living \in BOOLEAN
    /\ results \in Seq({"value", "view", "slot"} \X Nat) /\ pushed \in 0 .. Len(results)

\* The function that runs is the first of the overloads whose parameters
\* take the arguments, and there is an error only when there is none: so
\* what was left out for its arity could not have been it.
FirstMatchIsCalled ==
    /\ phase \in {"fetch", "push", "returned"} =>
          Fits(Function) /\ \A j \in 1 .. fx - 1 : ~Fits(overloads[j])
    /\ phase = "error" => \A j \in DOMAIN overloads : ~Fits(overloads[j])

\* Every parameter is read from its own arguments, however many slots the
\* checkers and getters of those before it used or left on the stack.
ArgumentsAreTheirOwn ==
    \A k \in DOMAIN taken : Takes(Function, k) /\ taken[k] = Own(Function, k)

\* What the script gets is what the function returned, also when that was
\* among the arguments that were cleared away or above them.
ResultsAreTheirOwn ==
    phase = "returned" /\ ~Constructing =>
        \A i \in DOMAIN results :
            stack[Len(stack) - Len(results) + i] =
                CASE results[i][1] = "slot" -> Arg(results[i][2] - Place(0))
                  [] results[i][1] = "view" -> "str"
                  [] OTHER -> "value"
=============================================================================

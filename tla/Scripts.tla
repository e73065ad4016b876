------------------------------ MODULE Scripts ------------------------------
(***************************************************************************)
(* Loading and running code: load and load_result, do_string and           *)
(* safe_script with their error handlers, unsafe_script, the environment a *)
(* chunk is given, and require_script with the packages it registers.      *)
(*                                                                         *)
(* The program runs scripts; a script may call a bound function that       *)
(* requires a package, whose script may require again.  An error reaches   *)
(* the program as a result, as an exception of its error handler, or as    *)
(* Lua's panic, which empties the stack.  String, file and reader variants *)
(* of an operation differ in how the chunk is read, not in what follows.   *)
(***************************************************************************)
EXTENDS Integers, Sequences, FiniteSets, SequencesExt

CONSTANTS Objects,    \* result objects of the C++ program
          Calls,      \* names for chunks and calls
          Packages,   \* keys of packages
          Envs,       \* environments
          Globals,    \* the environment a chunk is loaded with
          MaxDepth,   \* bound: scripts running inside each other
          MaxOwn,     \* bound: values the program keeps on the stack
          MaxRuns,    \* bound: runs of one package's script
          Uses        \* unusual uses of the API the program makes

(***************************************************************************)
(*   "copy"          copying a load_result                                 *)
(*   "assign_over"   moving into a load_result that still owns its chunk   *)
(*   "out_of_order"  destroying a result below another one, as in          *)
(*                   lua.load(code)()                                      *)
(*   "late_throw"    script_throw_on_error for a result with values above  *)
(*   "panic"         a panic while result objects are alive                *)
(*   "many_values"   a required script that returns not exactly one value  *)
(*   "falsy"         a required script that returns false or nil           *)
(*   "cycle"         packages that require each other                      *)
(*   "global_later"  require_script with create_global for a package that  *)
(*                   was loaded without                                    *)
(*   "env_below"     set_environment on a stack_function not on the top    *)
(***************************************************************************)
AllUses == {"copy", "assign_over", "out_of_order", "late_throw", "panic",
            "many_values", "falsy", "cycle", "global_later", "env_below"}

ASSUME ScriptsAssumption ==
    /\ Globals \in Envs
    /\ MaxDepth \in Nat \ {0} /\ MaxOwn \in Nat /\ MaxRuns \in Nat \ {0}
    /\ Uses \subseteq AllUses

Own == <<"own">>                  \* a value the program pushed
H   == <<"handler">>
Arg == <<"argument">>             \* of the bound function that requires
Chunk(c, e) == <<"chunk", c, e>>  \* a function and its first upvalue
Script(p)   == <<"script", p>>    \* the function of a package
Val(c)      == <<"value", c>>     \* what call c left: results or its error
Module(p, n) == <<"module", p, n>>  \* what run n of a package's script built
Nil == <<"nil">>
False == <<"false">>
Foreign == <<"foreign">>          \* a value no script of the package built

Modules(p) == {Module(p, n) : n \in 1 .. MaxRuns}
Item == {Own, H, Arg, Nil, False, Foreign} \cup {Val(c) : c \in Calls}
           \cup {Chunk(c, e) : c \in Calls, e \in Envs}
           \cup {Script(p) : p \in Packages}
           \cup UNION {Modules(p) : p \in Packages}
Registered(p) == Modules(p) \cup {Nil, False, Foreign}

Gone == [kind |-> "gone"]
Result == [kind : {"load", "protected", "unsafe"}, index : Nat, popcount : Nat,
           ok : BOOLEAN, call : Calls, asked : Envs]

\* A script that runs: where its function lies, and what awaits its end.
Run == [how : {"protected", "unsafe"}, func : Nat, into : Objects, call : Calls,
        handler : {"pass", "throw"}, asked : Envs]
       \cup [how : {"require"}, func : Nat, base : Nat, key : Packages,
             create : BOOLEAN, n : 1 .. MaxRuns]

VARIABLES stack,    \* the thread's stack
          runs,     \* the scripts that run, the innermost last
          res,      \* the result objects
          own,      \* how many values the program has on the stack
          loaded,   \* the registry's _LOADED
          global,   \* the global variable of a package's name
          ran,      \* history: runs of a package's script begun
          handed,   \* history: what require returned for a package
          wanted    \* history: packages required with create_global

vars == <<stack, runs, res, own, loaded, global, ran, handed, wanted>>
packageVars == <<loaded, global, ran, handed, wanted>>

-----------------------------------------------------------------------------
Running == runs # <<>>
Owns(o) == res[o] # Gone /\ res[o].popcount > 0

Fresh == {c \in Calls :
            /\ \A i \in 1 .. Len(stack) :
                  /\ stack[i] # Val(c)
                  /\ \A e \in Envs : stack[i] # Chunk(c, e)
            /\ \A o \in Objects : res[o] # Gone => res[o].call # c
            /\ \A i \in 1 .. Len(runs) :
                  runs[i].how # "require" => runs[i].call # c}

Cut(st, n) == SubSeq(st, 1, Len(st) - n)

\* stack::remove of values whose index is absolute.
removed(st, index, count) ==
    IF count < 1 \/ Len(st) < 1 THEN st
    ELSE IF index = Len(st) \/ index + count - 1 > Len(st) THEN Cut(st, count)
    ELSE SubSeq(st, 1, index - 1) \o SubSeq(st, index + count, Len(st))

\* lua_rotate of the segment that is only the top, by n > 0: its reversals
\* touch the n slots at the top.
rotatedTop(st, n) ==
    IF n > Len(st) THEN st ELSE Cut(st, n) \o Reverse(SubSeq(st, Len(st) - n + 1, Len(st)))

-----------------------------------------------------------------------------
(* The program's own values, and its result objects.                       *)

PushOwn ==
    /\ ~Running /\ own < MaxOwn
    /\ stack' = Append(stack, Own) /\ own' = own + 1
    /\ UNCHANGED <<runs, res, packageVars>>

PopOwn ==
    /\ ~Running /\ own > 0 /\ stack # <<>> /\ Last(stack) = Own
    /\ stack' = Front(stack) /\ own' = own - 1
    /\ UNCHANGED <<runs, res, packageVars>>

\* C++ scopes end in the reverse order, and unsafe results only pop.
InOrder(o) ==
    IF res[o].kind = "unsafe" THEN res[o].index + res[o].popcount - 1 = Len(stack)
    ELSE \A p \in Objects : Owns(p) => res[p].index <= res[o].index

Destroy(o) ==
    /\ ~Running /\ res[o] # Gone
    /\ Owns(o) => \/ InOrder(o)
                  \/ "out_of_order" \in Uses /\ res[o].kind # "unsafe"
    /\ stack' = IF res[o].kind = "unsafe" THEN Cut(stack, res[o].popcount)
                ELSE removed(stack, res[o].index, res[o].popcount)
    /\ res' = [res EXCEPT ![o] = Gone]
    /\ UNCHANGED <<runs, own, packageVars>>

abandoned(r) == [r EXCEPT !.index = 0, !.popcount = 0, !.ok = FALSE]

\* The move constructor, and the move assignment, which forgets what p owned.
Move(p, o) ==
    /\ ~Running /\ p # o /\ res[o] # Gone /\ res[o].kind = "load"
    /\ res[p] # Gone => res[p].kind = "load"
    /\ Owns(p) => "assign_over" \in Uses
    /\ res' = [res EXCEPT ![p] = res[o], ![o] = abandoned(res[o])]
    /\ UNCHANGED <<stack, runs, own, packageVars>>

Copy(p, o) ==
    /\ ~Running /\ p # o /\ res[o] # Gone /\ res[o].kind = "load" /\ res[p] = Gone
    /\ Owns(o) => "copy" \in Uses
    /\ res' = [res EXCEPT ![p] = res[o]]
    /\ UNCHANGED <<stack, runs, own, packageVars>>

-----------------------------------------------------------------------------
(* Loading, and setting environments.                                      *)

\* load, load_file, load_buffer: a function or an error message, and its
\* absolute index.
load(o, c, ok) ==
    /\ ~Running /\ res[o] = Gone
    /\ stack' = Append(stack, IF ok THEN Chunk(c, Globals) ELSE Val(c))
    /\ res' = [res EXCEPT ![o] = [kind |-> "load", index |-> Len(stack'),
                  popcount |-> 1, ok |-> ok, call |-> c, asked |-> Globals]]
    /\ UNCHANGED <<runs, own, packageVars>>

\* lua_setupvalue: every copy of a function on the stack is the same closure.
\* What is no function has no upvalue.
WithUpvalue(st, at, e) ==
    [i \in 1 .. Len(st) |->
        IF st[at][1] = "chunk" /\ st[i][1] = "chunk" /\ st[i][2] = st[at][2]
        THEN Chunk(st[i][2], e) ELSE st[i]]

\* Mutant: the target is not pushed.
setOnUnpushed(st, at, pushed, e) == WithUpvalue(st, Len(st), e)

\* set_on: a target that is a reference is pushed, one on the stack is taken
\* to be on the top; the environment above it becomes the upvalue.
set_on(st, at, pushed, e) ==
    LET target == IF pushed THEN Append(st, st[at]) ELSE st
    IN  SubSeq(WithUpvalue(target, Len(target), e), 1, Len(st))

SetEnvironment(o, pushed, e) ==
    /\ ~Running /\ Owns(o) /\ res[o].kind = "load" /\ res[o].ok
    /\ res[o].index \in 1 .. Len(stack)
    /\ ~pushed => res[o].index = Len(stack) \/ "env_below" \in Uses
    /\ stack' = set_on(stack, res[o].index, pushed, e)
    /\ res' = [res EXCEPT ![o].asked = e]
    /\ UNCHANGED <<runs, own, packageVars>>

-----------------------------------------------------------------------------
(* Running.                                                                *)

\* do_string(code, env), whose chunk is not loaded yet: the aligned function
\* puts the handler in its place and itself above.
safe_script(o, c, handler, e) ==
    /\ ~Running /\ res[o] = Gone
    /\ LET chunk == set_on(Append(stack, Chunk(c, Globals)), Len(stack) + 1, FALSE, e)
       IN  stack' = Front(chunk) \o <<H, Last(chunk)>>
    /\ runs' = <<[how |-> "protected", func |-> Len(stack) + 2, into |-> o,
                  call |-> c, handler |-> handler, asked |-> e]>>
    /\ UNCHANGED <<res, own, packageVars>>

\* load_result::operator(): a protected_function of the chunk, with handler
\* and function pushed.
CallLoaded(o, p, c) ==
    /\ ~Running /\ Owns(o) /\ res[o].kind = "load" /\ res[o].ok /\ res[p] = Gone
    /\ res[o].index \in 1 .. Len(stack)
    /\ stack' = stack \o <<H, stack[res[o].index]>>
    /\ runs' = <<[how |-> "protected", func |-> Len(stack) + 2, into |-> p,
                  call |-> c, handler |-> "pass", asked |-> res[o].asked]>>
    /\ UNCHANGED <<res, own, packageVars>>

unsafe_script(o, c, e) ==
    /\ ~Running /\ res[o] = Gone
    /\ stack' = set_on(Append(stack, Chunk(c, Globals)), Len(stack) + 1, FALSE, e)
    /\ runs' = <<[how |-> "unsafe", func |-> Len(stack) + 1, into |-> o,
                  call |-> c, handler |-> "pass", asked |-> e]>>
    /\ UNCHANGED <<res, own, packageVars>>

\* What a protected call left above its handler, as invoke counts it.
protectedResult(c, e, st, func, ok) ==
    LET firstreturn == func - 1
        poststacksize == Len(st) - 1
    IN  [kind |-> "protected", index |-> firstreturn, asked |-> e,
         popcount |-> poststacksize - (firstreturn - 1), ok |-> ok, call |-> c]

\* Mutant: the error is pushed without the result's own value going first.
thrownOnTop(st, r) == removed(Append(st, Val(r.call)), r.index, r.popcount)

\* script_throw_on_error: the message replaces the result's values, is rotated
\* towards their place, and the destructor of the result removes it.
thrown(st, r) ==
    LET pushed  == Append(removed(st, r.index, r.popcount), Val(r.call))
        towards == Len(pushed) - r.index
        rotated == IF towards > 0 THEN rotatedTop(pushed, towards) ELSE pushed
    IN  removed(rotated, r.index, r.popcount)

\* default_at_panic empties the stack before it throws.
Panic ==
    /\ \A o \in Objects : Owns(o) => "panic" \in Uses
    /\ stack' = <<>> /\ own' = 0

\* The call of the outermost script ends: its result, or the error handler's
\* exception.
EndProtected(r, values, ok) ==
    LET st     == SubSeq(stack, 1, r.func - 1) \o values
        result == protectedResult(r.call, r.asked, st, r.func, ok)
        bare   == removed(st, r.func - 1, 1)
    IN  /\ IF ok \/ r.handler = "pass"
           THEN stack' = bare /\ res' = [res EXCEPT ![r.into] = result]
           ELSE stack' = thrown(bare, result) /\ UNCHANGED res
        /\ UNCHANGED own

\* How many values lie above where the stack ended before.
returnsOf(postindex, index) == postindex - index

EndUnsafe(r, values) ==
    LET index     == r.func - 1
        st        == SubSeq(stack, 1, index) \o values
        returns   == returnsOf(Len(st), index)
        at        == Len(st) - (returns - 1)
    IN  /\ stack' = st
        /\ res' = [res EXCEPT ![r.into] =
                     [kind |-> "unsafe", index |-> IF at < 1 THEN 1 ELSE at,
                      popcount |-> returns, ok |-> TRUE, call |-> r.call,
                      asked |-> r.asked]]
        /\ UNCHANGED own

\* The script the program started returns k values.
Finish(k) ==
    /\ Len(runs) = 1 /\ runs[1].how # "require"
    /\ LET r == runs[1]
           values == [i \in 1 .. k |-> Val(r.call)]
       IN  IF r.how = "protected" THEN EndProtected(r, values, TRUE)
           ELSE EndUnsafe(r, values)
    /\ runs' = <<>>
    /\ UNCHANGED packageVars

\* A script fails.  Inside others, stack::script passes the error on with
\* lua_error to the call of the script that required it.
Fail ==
    /\ Running
    /\ IF runs[1].how = "protected"
       THEN EndProtected(runs[1], <<Val(runs[1].call)>>, FALSE)
       ELSE Panic /\ UNCHANGED res
    /\ runs' = <<>>
    /\ UNCHANGED packageVars

\* The chunk of a safe script does not compile: the error is the result.
LoadFails(o, c, handler) ==
    /\ ~Running /\ res[o] = Gone
    /\ LET st     == Append(stack, Val(c))
           result == [kind |-> "protected", index |-> Len(st), popcount |-> 1,
                      ok |-> FALSE, call |-> c, asked |-> Globals]
       IN  IF handler = "pass"
           THEN stack' = st /\ res' = [res EXCEPT ![o] = result]
           ELSE stack' = thrown(st, result) /\ UNCHANGED res
    /\ UNCHANGED <<runs, own, packageVars>>

\* script_throw_on_error of a result the program kept.
ThrowLate(o) ==
    /\ ~Running /\ Owns(o) /\ res[o].kind = "protected" /\ ~res[o].ok
    /\ res[o].index + res[o].popcount - 1 # Len(stack) => "late_throw" \in Uses
    /\ stack' = thrown(stack, res[o])
    /\ res' = [res EXCEPT ![o] = Gone]
    /\ UNCHANGED <<runs, own, packageVars>>

-----------------------------------------------------------------------------
(* Packages.                                                               *)

\* require_core returns what is registered, unless it is false or nil.
is_loaded_package(p) == loaded[p] \notin {Nil, False}

InProgress(p) == \E i \in 1 .. Len(runs) : runs[i].how = "require" /\ runs[i].key = p

\* luaL_requiref: the module is built unless it is registered, and linked in
\* any case if that is asked for.  Its one value is popped by the caller.
requiref(p, create) ==
    /\ InProgress(p) => "cycle" \in Uses
    /\ is_loaded_package(p) \/ ran[p] < MaxRuns
    /\ LET value == IF is_loaded_package(p) THEN loaded[p] ELSE Module(p, ran[p] + 1)
       IN  /\ loaded' = [loaded EXCEPT ![p] = value]
           /\ global' = IF create THEN [global EXCEPT ![p] = value] ELSE global
           /\ handed' = [handed EXCEPT ![p] = @ \cup {value}]
    /\ ran' = IF is_loaded_package(p) THEN ran ELSE [ran EXCEPT ![p] = @ + 1]
    /\ wanted' = IF create THEN wanted \cup {p} ELSE wanted
    /\ UNCHANGED <<stack, runs, res, own>>

require(p, create) == requiref(p, create)

\* A library is a module whose name is always linked.
open_libraries(p) == ~Running /\ requiref(p, TRUE)

\* require_script, of the program or of a function a running script called
\* with the package's name.
require_loaded(p, create) ==
    /\ is_loaded_package(p)
    /\ create /\ p \notin wanted => "global_later" \in Uses
    /\ wanted' = IF create THEN wanted \cup {p} ELSE wanted
    /\ handed' = [handed EXCEPT ![p] = @ \cup {loaded[p]}]
    /\ UNCHANGED <<stack, runs, res, own, loaded, global, ran>>

require_script(p, create) ==
    /\ ~is_loaded_package(p) /\ Len(runs) < MaxDepth /\ ran[p] < MaxRuns
    /\ InProgress(p) => "cycle" \in Uses
    /\ LET st == IF Running THEN Append(stack, Arg) ELSE stack
       IN  /\ stack' = Append(st, Script(p))
           /\ runs' = Append(runs, [how |-> "require", func |-> Len(st) + 1,
                        base |-> IF Running THEN Len(stack) ELSE 0, key |-> p,
                        create |-> create, n |-> ran[p] + 1])
    /\ ran' = [ran EXCEPT ![p] = @ + 1]
    /\ UNCHANGED <<res, own, loaded, global, handed, wanted>>

\* What a table keeps of the value: other calls' values are alike to it.
Kept(p, v) == IF v \in Registered(p) THEN v ELSE Foreign

\* Mutant: the package is registered only where it also becomes a global.
ensure_if_global(table, p, create, v) == IF create THEN [table EXCEPT ![p] = v] ELSE table

\* ensure_package sets _LOADED, whether or not a global was asked for.
ensure_package(table, p, create, v) == [table EXCEPT ![p] = v]

\* The script of the innermost require returns k values, the first of which is
\* the package.  The value on the top is registered, popped and returned.
EndRequire(k, first) ==
    /\ Running
    /\ LET r == Last(runs)
       IN  /\ r.how = "require"
           /\ k # 1 => "many_values" \in Uses
           /\ first # Module(r.key, r.n) => first \in {Nil, False} /\ "falsy" \in Uses
           /\ LET st  == SubSeq(stack, 1, r.func - 1)
                         \o (IF k = 0 THEN <<>> ELSE <<first>>)
                         \o (IF k < 2 THEN <<>> ELSE <<Foreign>>)
                  top == Kept(r.key, Last(st))
              IN  /\ Len(st) > r.base
                  /\ global' = IF r.create THEN [global EXCEPT ![r.key] = top] ELSE global
                  /\ loaded' = ensure_package(loaded, r.key, r.create, top)
                  /\ handed' = [handed EXCEPT ![r.key] = @ \cup {top}]
                  /\ wanted' = IF r.create THEN wanted \cup {r.key} ELSE wanted
                  /\ stack' = IF Len(runs) > 1 THEN SubSeq(st, 1, r.base) ELSE Front(st)
           /\ runs' = Front(runs)
    /\ UNCHANGED <<res, own, ran>>

-----------------------------------------------------------------------------
Init ==
    /\ stack = <<>> /\ runs = <<>> /\ own = 0
    /\ res = [o \in Objects |-> Gone]
    /\ loaded = [p \in Packages |-> Nil] /\ global = [p \in Packages |-> Nil]
    /\ wanted = {} /\ ran = [p \in Packages |-> 0] /\ handed = [p \in Packages |-> {}]

Next ==
    \/ PushOwn \/ PopOwn \/ Fail
    \/ \E o \in Objects : Destroy(o) \/ ThrowLate(o)
    \/ \E o, p \in Objects : Move(p, o) \/ Copy(p, o)
    \/ \E o \in Objects, pushed \in BOOLEAN, e \in Envs : SetEnvironment(o, pushed, e)
    \/ \E c \in Fresh, o \in Objects :
          \/ \E ok \in BOOLEAN : load(o, c, ok)
          \/ \E e \in Envs, h \in {"pass", "throw"} : safe_script(o, c, h, e)
          \/ \E e \in Envs : unsafe_script(o, c, e)
          \/ \E h \in {"pass", "throw"} : LoadFails(o, c, h)
          \/ \E p \in Objects : CallLoaded(o, p, c)
    \/ \E k \in 0 .. 2 : Finish(k)
    \/ \E p \in Packages : open_libraries(p)
    \/ \E p \in Packages, create \in BOOLEAN :
          require_loaded(p, create) \/ require_script(p, create) \/ require(p, create)
    \/ \E k \in 0 .. 2, p \in Packages : \E first \in Registered(p) : EndRequire(k, first)

Spec == Init /\ [][Next]_vars

-----------------------------------------------------------------------------
(***************************************************************************)
(* The types of the variables.                                             *)
(***************************************************************************)
TypeOK ==
    /\ stack \in Seq(Item) /\ runs \in Seq(Run) /\ own \in 0 .. MaxOwn
    /\ res \in [Objects -> Result \cup {Gone}]
    /\ wanted \subseteq Packages
    /\ \A p \in Packages : /\ {loaded[p], global[p]} \subseteq Registered(p)
                           /\ ran[p] \in 0 .. MaxRuns
                           /\ handed[p] \subseteq Registered(p)

Span(o) == res[o].index .. res[o].index + res[o].popcount - 1

\* Slots of a script that runs: its handler, argument and function.
RunSlots == UNION {{runs[i].func} \cup (IF runs[i].how = "protected" \/ i > 1
                                        THEN {runs[i].func - 1} ELSE {})
                   : i \in 1 .. Len(runs)}

\* Values that belong to a result object.
OfObjects == UNION {Span(o) : o \in {p \in Objects : Owns(p)}}

(***************************************************************************)
(* However scripts end (values, an error, an exception of the error        *)
(* handler, a panic, at any depth of requires), each slot of the stack     *)
(* belongs to exactly one owner: a result object, whose values it names,   *)
(* the program, or a script still running.                                 *)
(***************************************************************************)
StackPartitioned ==
    /\ TypeOK
    /\ \A o \in Objects : Owns(o) =>
          /\ Span(o) \subseteq (1 .. Len(stack)) \ RunSlots
          /\ \A i \in Span(o) :
                stack[i] \in {Val(res[o].call)} \cup {Chunk(res[o].call, e) : e \in Envs}
          /\ \A p \in Objects \ {o} : Owns(p) => Span(o) \cap Span(p) = {}
    /\ {i \in 1 .. Len(stack) : stack[i] # Own} = OfObjects \cup RunSlots
    /\ Cardinality({i \in 1 .. Len(stack) : stack[i] = Own}) = own

(***************************************************************************)
(* A chunk, run at once or kept in a load_result and run later, sees the   *)
(* environment the program asked for on exactly that chunk, not one set on *)
(* another that was loaded above it.                                       *)
(***************************************************************************)
ChunksSeeTheirEnvironment ==
    /\ \A o \in Objects : Owns(o) /\ res[o].kind = "load" /\ res[o].ok =>
          stack[res[o].index] = Chunk(res[o].call, res[o].asked)
    /\ \A i \in 1 .. Len(runs) : runs[i].how # "require" =>
          stack[runs[i].func][3] = runs[i].asked

(***************************************************************************)
(* docs/source/api/state.rst: require_script checks whether the module was *)
(* already loaded, and links its name to it if asked to.  Everyone who     *)
(* requires a package gets the same value, the one that stays registered   *)
(* and linked, also when scripts failed or required others in between.     *)
(***************************************************************************)
OnePackageOneValue ==
    \A p \in Packages :
       /\ Cardinality(handed[p]) <= 1
       /\ handed[p] # {} => handed[p] = {loaded[p]}
       /\ p \in wanted => handed[p] = {global[p]}
=============================================================================

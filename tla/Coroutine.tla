------------------------------- MODULE Coroutine -------------------------------
(***************************************************************************)
(* sol::coroutine: C++ objects that resume a function on a Lua thread.     *)
(* Each object keeps the status of its last resume in a member of its own  *)
(* (stats); whether something is suspended, and what, is a fact about the  *)
(* thread.  A call leaves a protected_function_result that owns a range of *)
(* the thread's stack until it is destroyed.                               *)
(*                                                                         *)
(* Which Lua function an object refers to makes no difference here: while  *)
(* something is suspended, a call resumes that, whatever the function      *)
(* pushed for it is.                                                       *)
(*                                                                         *)
(* One thread.  While a function is suspended on it, stack indices are     *)
(* relative to the frame of coroutine.yield and the values below (hidden)  *)
(* cannot be reached; when it failed they are relative to the dead frame.  *)
(***************************************************************************)
EXTENDS Integers, Sequences, SequencesExt

CONSTANTS Objects,     \* C++ variables for coroutine objects
          Results,     \* C++ variables for results
          MaxRuns,     \* bound: runs of functions on the thread
          MaxCalls,    \* bound: resumes made
          MaxValues,   \* bound: values yielded or returned at once
          Uses         \* unusual uses of the API the program makes

(***************************************************************************)
(*   "keep_results"  keeping results over the next call                    *)
(*   "asks_more"     call<Ret...>() with more types than values come       *)
(*   "asks_less"     call<Ret...>() with fewer types than a function that  *)
(*                   returns leaves values, call<void>() among them        *)
(***************************************************************************)
AllUses == {"keep_results", "asks_more", "asks_less"}

ASSUME CoroutineAssumption ==
    /\ MaxRuns \in Nat \ {0} /\ MaxCalls \in Nat \ {0} /\ MaxValues \in Nat \ {0}
    /\ Uses \subseteq AllUses

VARIABLES mode,      \* the thread: idle, suspended or dead
          run,       \* the number of the current run, or of the last
          stack,     \* what the API sees of the thread's stack
          hidden,    \* what is below the frame that yielded or failed
          base,      \* values that were there when the run began
          object,    \* object[c]: a coroutine object or Gone
          result,    \* result[r]: a protected_function_result or Gone
          calls,     \* resumes made: the name of the last one
          corrupt    \* an index outside of the stack was used
vars == <<mode, run, stack, hidden, base, object, result, calls, corrupt>>
thread == <<mode, run, stack, hidden, base>>

Gone == [kind |-> "gone"]
\* A value on the stack names the call that produced it, if one did.
Foreign == 0
Item == {Foreign} \cup 1 .. MaxCalls

\* stats: yielded, ok or runtime; called: the last call the object made, 0
\* before the first, and joined: the run that call was part of.
Coroutine == [kind : {"coroutine"}, stats : {"yielded", "ok", "runtime"},
              called : 0 .. MaxCalls, joined : 0 .. MaxRuns]

Result == [kind : {"result"}, index : Nat, returncount : Nat, popcount : Nat,
           status : {"yielded", "ok", "runtime"}, call : 1 .. MaxCalls]

LiveObjects == {c \in Objects : object[c] # Gone}
LiveResults == {r \in Results : result[r] # Gone}

runnable(c) == object[c] # Gone /\ object[c].stats = "yielded"

Init ==
    /\ mode = "idle" /\ run = 0
    /\ stack = <<>> /\ hidden = <<>> /\ base = 0
    /\ object = [c \in Objects |-> Gone]
    /\ result = [r \in Results |-> Gone]
    /\ calls = 0 /\ corrupt = FALSE

-----------------------------------------------------------------------------
(* Objects. *)

\* basic_coroutine(L, index): a new object counts as suspended.
Construct(c) ==
    /\ object[c] = Gone
    /\ object' = [object EXCEPT ![c] = [kind |-> "coroutine", stats |-> "yielded",
                                        called |-> 0, joined |-> 0]]
    /\ UNCHANGED <<thread, result, calls, corrupt>>

\* The copy constructor takes over stats.
Copy(c, d) ==
    /\ object[c] # Gone /\ object[d] = Gone
    /\ object' = [object EXCEPT ![d] = object[c]]
    /\ UNCHANGED <<thread, result, calls, corrupt>>

Destroy(c) ==
    /\ object[c] # Gone
    /\ object' = [object EXCEPT ![c] = Gone]
    /\ UNCHANGED <<thread, result, calls, corrupt>>

-----------------------------------------------------------------------------
(* lua_resume, with the function just pushed. *)

Values(k) == [i \in 1 .. k |-> calls + 1]

\* A suspended run goes on and drops what its frame held; an idle thread
\* starts the function on top, above what it has.
RunNow  == IF mode = "suspended" THEN run ELSE run + 1
Beneath == IF mode = "suspended" THEN hidden ELSE stack

\* left: how many values of this resume are on the stack.
Outcome(m, st, h, s, k) ==
    [mode |-> m, stack |-> st, hidden |-> h, status |-> s, run |-> RunNow, left |-> k]

Yielded(k)  == Outcome("suspended", Values(k), Beneath, "yielded", k)
Returned(k) == Outcome("idle", Beneath \o Values(k), <<>>, "ok", k)

\* The message is on top of what the failing frame held.
Failed(k) ==
    Outcome("dead", [i \in 1 .. k |-> Foreign] \o Values(1), Beneath, "runtime", 1)

\* "cannot resume dead coroutine": nothing ran, and the function stays.
Refused ==
    [mode |-> "dead", stack |-> stack \o <<Foreign>> \o Values(1),
     hidden |-> hidden, status |-> "runtime", run |-> run, left |-> 1]

Outcomes(ks) ==
    IF mode = "dead" THEN {Refused}
    ELSE {Yielded(k) : k \in ks} \cup {Returned(k) : k \in ks}
             \cup {Failed(k) : k \in 0 .. 1}

ThreadBecomes(out) ==
    /\ mode' = out.mode /\ run' = out.run /\ hidden' = out.hidden
    /\ base' = IF out.run = run THEN base ELSE Len(stack)

-----------------------------------------------------------------------------
(* Calls. *)

\* The program calls what says it is runnable, and destroys the results of a
\* call before it makes the next one: the frame they are in goes then.
Callable(c) ==
    /\ runnable(c)
    /\ calls < MaxCalls
    /\ mode = "idle" => run < MaxRuns
    /\ LiveResults # {} => "keep_results" \in Uses

\* Mutant: the status of the resume is not stored.
luacall_unstored(o, out) == [o EXCEPT !.joined = out.run, !.called = calls + 1]

\* luacall stores what lua_resume returned.
luacall(o, out) ==
    [o EXCEPT !.stats = out.status, !.joined = out.run, !.called = calls + 1]

\* Mutant: the first value is taken for the function.
result_of_rest(out) ==
    [kind |-> "result", index |-> 2, returncount |-> Len(out.stack),
     popcount |-> Len(out.stack), status |-> out.status, call |-> calls + 1]

\* firstreturn is 1: all on the stack is taken for the results of the call.
result_of(out) ==
    [kind |-> "result", index |-> 1, returncount |-> Len(out.stack),
     popcount |-> Len(out.stack), status |-> out.status, call |-> calls + 1]

\* Mutant: the values are counted after the handler ran.
error_result_late(out, handled) ==
    [kind |-> "result", index |-> Len(out.stack), returncount |-> 1,
     popcount |-> Len(out.stack) + 1, status |-> "runtime",
     call |-> calls + 1]

\* The result of a failure is the top value, the message or what the handler
\* made of it; the values popped were counted before the handler ran.
error_result(out, handled) ==
    LET top == Len(out.stack) + (IF handled THEN 1 ELSE 0)
    IN [kind |-> "result", index |-> top, returncount |-> 1,
        popcount |-> Len(out.stack), status |-> "runtime",
        call |-> calls + 1]

\* co(args...), with an error_handler or without one.
Call(c, r, handled) ==
    /\ Callable(c) /\ result[r] = Gone
    /\ \E out \in Outcomes(0 .. MaxValues) :
          LET failed == out.status = "runtime" IN
          /\ ThreadBecomes(out)
          /\ stack' = IF failed /\ handled THEN Append(out.stack, Last(out.stack))
                      ELSE out.stack
          /\ object' = [object EXCEPT ![c] = luacall(@, out)]
          /\ result' = [result EXCEPT ![r] =
                 IF failed THEN error_result(out, handled)
                 ELSE result_of(out)]
    /\ calls' = calls + 1
    /\ UNCHANGED corrupt

\* Mutant: one value is left.
popped_less(st, n) == IF n = 0 THEN st ELSE SubSeq(st, 1, Len(st) - n + 1)

\* stack::pop of n values.
popped(st, n) == SubSeq(st, 1, Len(st) - n)

\* co.call<Ret...>(args...) with n types: n values are popped, whatever the
\* status is and however many the resume left; none for call<void>.
CallTyped(c, n) ==
    /\ Callable(c)
    /\ \E out \in Outcomes(0 .. MaxValues) :
          /\ out.left < n => "asks_more" \in Uses
          /\ out.status = "ok" /\ out.left > n => "asks_less" \in Uses
          /\ ThreadBecomes(out)
          /\ stack' = popped(out.stack, n)
          /\ object' = [object EXCEPT ![c] = luacall(@, out)]
          /\ corrupt' = (corrupt \/ n > Len(out.stack))
    /\ calls' = calls + 1
    /\ UNCHANGED result

\* stack::remove, called by ~protected_function_result.
remove(st, index, count) ==
    IF Len(st) = index THEN SubSeq(st, 1, index - count)
    ELSE SubSeq(st, 1, index - 1) \o SubSeq(st, index + count, Len(st))

DestroyResult(r) ==
    LET res == result[r]
        nothing == res.popcount = 0 \/ stack = <<>>
        outside == \/ Len(stack) = res.index /\ res.popcount > res.index
                   \/ Len(stack) # res.index
                         /\ res.index + res.popcount - 1 > Len(stack)
    IN /\ res # Gone
       /\ stack' = IF nothing \/ outside THEN stack
                   ELSE remove(stack, res.index, res.popcount)
       /\ corrupt' = (corrupt \/ (~nothing /\ outside))
       /\ result' = [result EXCEPT ![r] = Gone]
       /\ UNCHANGED <<mode, run, hidden, base, object, calls>>

-----------------------------------------------------------------------------
(* The rest of the program. *)

\* coroutine.resume(thread) in a script; the values go to the caller.
ScriptResumes ==
    /\ mode = "suspended" /\ LiveResults = {} /\ calls < MaxCalls
    /\ \E out \in {Yielded(0), Returned(0)} :
          ThreadBecomes(out) /\ stack' = out.stack
    /\ calls' = calls + 1
    /\ UNCHANGED <<object, result, corrupt>>

PushValue ==
    /\ mode = "idle" /\ stack = <<>>
    /\ stack' = <<Foreign>>
    /\ UNCHANGED <<mode, run, hidden, base, object, result, calls, corrupt>>

Next ==
    \/ \E c \in Objects :
          \/ Construct(c) \/ Destroy(c)
          \/ \E d \in Objects : Copy(c, d)
          \/ \E r \in Results, handled \in BOOLEAN : Call(c, r, handled)
          \/ \E n \in 0 .. MaxValues : CallTyped(c, n)
    \/ \E r \in Results : DestroyResult(r)
    \/ ScriptResumes \/ PushValue

Spec == Init /\ [][Next]_vars

-----------------------------------------------------------------------------
(* Properties. *)

\* The objects and results are in states the program can give them, and the
\* values on the stacks come from calls that were made.
TypeOK ==
    /\ mode \in {"idle", "suspended", "dead"}
    /\ run \in 0 .. MaxRuns
    /\ stack \in Seq(Item) /\ hidden \in Seq(Item) /\ base \in Nat
    /\ object \in [Objects -> Coroutine \cup {Gone}]
    /\ result \in [Results -> Result \cup {Gone}]
    /\ calls \in 0 .. MaxCalls /\ corrupt \in BOOLEAN

\* A result names values the call it comes from left, as long as it lives;
\* that of a call the function returned from also names what was on the
\* thread before the function started.
ResultsAreTheirOwn ==
    \A r \in LiveResults :
        LET res == result[r] IN
        \A i \in res.index .. res.index + res.returncount - 1 :
            /\ i \in DOMAIN stack
            /\ stack[i] = res.call \/ (res.status = "ok" /\ i <= base)

\* An object that resumed the thread last says runnable() as long as its run
\* is suspended, and no longer; so does a copy made of it since.
RunnableMeansSuspended ==
    \A c \in LiveObjects :
        object[c].called # 0 /\ object[c].called = calls =>
            (runnable(c) <=> mode = "suspended" /\ run = object[c].joined)

\* No destructor and no typed call removes or pops what is not on the stack,
\* as long as typed calls ask for no more values than come.  (The types of
\* the state are part of it: ids of calls are on the stack, nothing else.)
StackStaysWhole == TypeOK /\ ~corrupt

\* thread.status(): what lua_status says, and for an idle thread whether
\* something is on its stack.
thread_status ==
    IF mode = "suspended" THEN "yielded"
    ELSE IF mode = "dead" THEN "runtime"
    ELSE IF stack = <<>> THEN "dead" ELSE "yielded"

\* Once the results of a finished run are destroyed, its thread counts as
\* dead, unless the program left a value of its own there: no call did that
\* asked for all the function returned.
FinishedThreadsAreDead ==
    mode = "idle" /\ LiveResults = {} /\ (\A i \in DOMAIN stack : stack[i] # Foreign)
        => thread_status = "dead"
=============================================================================

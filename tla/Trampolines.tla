----------------------------- MODULE Trampolines ----------------------------
(***************************************************************************)
(* Exceptions of C++ and errors of Lua on their way through a stack of     *)
(* calls: C++ functions bound through a trampoline, scripts, protected and *)
(* unsafe calls, message handlers, and default_at_panic.                   *)
(*                                                                         *)
(* What is left on the Lua stack is the matter of CallResults; here it is  *)
(* who gets the error, what he gets, which C++ objects are destroyed on    *)
(* the way, and whether Lua still knows which of its calls are under way.  *)
(***************************************************************************)
EXTENDS Integers, Sequences, FiniteSets, SequencesExt

CONSTANTS Builds,       \* how Lua and sol were compiled
          MaxFrames,    \* bound: calls under way, the program's own one too
          MaxHandlers,  \* bound: handlers called for errors of handlers, the
                        \* place of LUAI_MAXCCALLS
          Uses          \* unusual uses of the API the program makes

(***************************************************************************)
(*   "c"           Lua compiled as C: lua_error leaves by longjmp          *)
(*   "cxx"         Lua compiled as C++: lua_error throws, and              *)
(*                 SOL_EXCEPTIONS_SAFE_PROPAGATION is defined              *)
(*   "cxx_unsafe"  the same with SOL_EXCEPTIONS_ALWAYS_UNSAFE              *)
(***************************************************************************)
AllBuilds == {"c", "cxx", "cxx_unsafe"}

(***************************************************************************)
(*   "longjmp"      C++ functions that hold objects let Lua errors pass    *)
(*                  although Lua was compiled as C                         *)
(*   "raw"          functions without a trampoline that throw              *)
(*   "panic"        errors outside of every protected call                 *)
(*   "quiet_error"  noexcept functions do where Lua was compiled as C++    *)
(*   "catch"        bound functions that catch what comes from Lua         *)
(***************************************************************************)
AllUses == {"longjmp", "raw", "panic", "quiet_error", "catch"}

ASSUME TrampolinesAssumption ==
    /\ Builds \subseteq AllBuilds /\ MaxFrames \in Nat \ {0} /\ MaxHandlers \in Nat
    /\ Uses \subseteq AllUses

\* What a C++ function throws: const char*, std::string, std::exception, or
\* anything else.
Thrown == {"cstr", "string", "std", "other"}

\* Values of errors: those raised are numbered by the handlers that were being
\* called; the others take the place of one.
Generic == -1   \* "caught (...) exception"
ErrErr  == -2   \* "error in error handling"
Garbage == -3   \* what happened to be on the top of the stack
Values == -3 .. MaxHandlers

\* Those an error is shown to on its way.
Through == {"exception_handler", "handler"}

Due == [value : Values, via : Seq(Through), to : Nat]
Error == [how : {"lua", "exception", "caught", "terminated"}, kind : Thrown, inside : BOOLEAN,
          value : Values, via : Seq(Through), due : Due]
None == [how |-> "none"]
Nothing == [to |-> -1]

\* A call: what was called, by whom, with a message handler (of a protected
\* call), objects of its own, noexcept, and the error a handler is called for.
Call == [code : {"main", "script", "bound", "raw"},
         by : {"main", "lua", "pcall", "unsafe", "protected", "handler"},
         msgh : BOOLEAN, locals : 0 .. 1, quiet : BOOLEAN, cause : Error \cup {None}]

VARIABLES build,    \* one of Builds
          frames,   \* the calls under way
          alive,    \* objects of C++ frames that are not destroyed
          flight,   \* the error on its way, or None
          ci,       \* how many calls Lua believes are under way
          jumps,    \* the calls Lua believes an error would go to
          got       \* what the last protected call got, with what it should
                    \* have (history, for one state)

vars == <<build, frames, alive, flight, ci, jumps, got>>

-----------------------------------------------------------------------------
Top == Last(frames)
IsCpp(f) == f.code \in {"main", "bound", "raw"}
Protects(f) == f.by \in {"protected", "pcall"}
Pending == Cardinality({i \in DOMAIN frames : frames[i].by = "handler"})

\* A handler is called for the error: the innermost protected call has one.
HandlerDue ==
    /\ jumps # <<>> /\ Last(jumps) <= Len(frames)
    /\ frames[Last(jumps)].msgh

DueFor(value, via) ==
    [value |-> IF HandlerDue /\ Pending = MaxHandlers THEN ErrErr ELSE value,
     via   |-> via \o (IF HandlerDue /\ Pending < MaxHandlers THEN <<"handler">> ELSE <<>>),
     to    |-> IF jumps = <<>> THEN 0 ELSE Last(jumps)]

-----------------------------------------------------------------------------
(* Calls that go well.                                                     *)

NewCall(code, by, msgh, locals, quiet) ==
    [code |-> code, by |-> by, msgh |-> msgh, locals |-> locals, quiet |-> quiet,
     cause |-> None]

\* Functions: scripts, functions set through sol, and functions without a
\* trampoline.
Callees(by, msgh) ==
    {NewCall("script", by, msgh, 0, FALSE)}
    \cup {NewCall("bound", by, msgh, own[1], own[2]) : own \in (0 .. 1) \X BOOLEAN}
    \cup (IF "raw" \in Uses THEN {NewCall("raw", by, msgh, 0, FALSE)} ELSE {})

Enter(f) ==
    /\ flight = None /\ Len(frames) < MaxFrames + Pending
    /\ frames' = Append(frames, f) /\ ci' = ci + 1
    /\ jumps' = IF Protects(f) THEN Append(jumps, Len(frames) + 1) ELSE jumps
    /\ alive' = alive + f.locals
    /\ got' = Nothing /\ UNCHANGED <<build, flight>>

\* A C++ function raises errors of Lua, or makes calls that may.
MayRaise ==
    /\ Top.locals > 0 /\ build = "c" => "longjmp" \in Uses
    /\ Top.quiet /\ build # "c" => "quiet_error" \in Uses

\* basic_function: lua_call.
CallUnsafe ==
    /\ IsCpp(Top) /\ MayRaise
    /\ \E f \in Callees("unsafe", FALSE) : Enter(f)

\* basic_protected_function: lua_pcall, with or without a handler.
CallProtected ==
    /\ IsCpp(Top)
    /\ \E msgh \in BOOLEAN : \E f \in Callees("protected", msgh) : Enter(f)

\* A script calls, or calls pcall.
CallFromScript ==
    /\ Top.code = "script"
    /\ \E by \in {"lua", "pcall"} : \E f \in Callees(by, FALSE) : Enter(f)

\* A handler's result takes the place of the error it was called for.
Return ==
    /\ flight = None /\ Len(frames) > 1
    /\ frames' = Front(frames) /\ ci' = ci - 1
    /\ jumps' = IF Protects(Top) THEN Front(jumps) ELSE jumps
    /\ alive' = alive - Top.locals
    /\ flight' = IF Top.by # "handler" THEN None
                 ELSE [Top.cause EXCEPT !.how = "lua", !.via = Append(@, "handler")]
    /\ got' = Nothing /\ UNCHANGED build

-----------------------------------------------------------------------------
(* Raising.                                                                *)

\* default_at_panic throws what nobody protects against.
Panic(e) ==
    /\ "panic" \in Uses /\ jumps = <<>>
    /\ flight' = [e EXCEPT !.how = "exception", !.kind = "std"]
    /\ UNCHANGED <<frames, ci>>

\* The handler is called where the error was raised.
CallHandler(e) ==
    /\ HandlerDue /\ Pending < MaxHandlers
    /\ \E f \in {NewCall("script", "handler", FALSE, 0, FALSE),
                 NewCall("bound", "handler", FALSE, 0, FALSE)} :
          frames' = Append(frames, [f EXCEPT !.cause = e])
    /\ ci' = ci + 1 /\ flight' = None

TakeOff(e) ==
    /\ jumps # <<>>
    /\ HandlerDue => Pending = MaxHandlers
    /\ flight' = [e EXCEPT !.how = "lua", !.value = IF HandlerDue THEN ErrErr ELSE @]
    /\ UNCHANGED <<frames, ci>>

\* lua_error.
lua_error(e) == Panic(e) \/ CallHandler(e) \/ TakeOff(e)

Handled == jumps # <<>> \/ "panic" \in Uses

\* A script or a C++ function raises an error of Lua: luaL_error, an argument
\* of the wrong type, no matching overload.
RaiseError ==
    /\ flight = None /\ Handled
    /\ Top.code \in {"script", "bound"} /\ MayRaise
    /\ lua_error([how |-> "lua", kind |-> "other", inside |-> TRUE,
                  value |-> Pending, via |-> <<>>,
                  due |-> DueFor(Pending, <<>>)])
    /\ got' = Nothing /\ UNCHANGED <<build, alive, jumps>>

\* A C++ function throws.  Whatever Lua was compiled as, the exception
\* handler is to see it, and its message to go where an error would.
Throw(kind) ==
    /\ flight = None /\ Handled
    /\ Top.code \in {"bound", "raw"} /\ ~Top.quiet
    /\ flight' = [how |-> "exception", kind |-> kind, inside |-> TRUE,
                  value |-> Pending, via |-> <<>>,
                  due |-> DueFor(IF kind = "other" THEN Generic ELSE Pending,
                                 <<"exception_handler">>)]
    /\ got' = Nothing /\ UNCHANGED <<build, frames, alive, ci, jumps>>

-----------------------------------------------------------------------------
(* On the way.                                                             *)

Deliver(to, value, via) ==
    /\ got' = [value |-> value, via |-> via, to |-> to, due |-> flight.due]
    /\ flight' = None

\* Lua compiled as C: longjmp to the innermost protected call.
Longjmp ==
    /\ flight.how = "lua" /\ build = "c"
    /\ LET to == Last(jumps)
       IN  /\ to <= Len(frames)
           /\ frames' = SubSeq(frames, 1, to - 1) /\ ci' = to - 1
           /\ jumps' = Front(jumps)
           /\ Deliver(to, flight.value, flight.via)
    /\ UNCHANGED <<build, alive>>

InTheAir ==
    \/ flight.how = "exception"
    \/ flight.how = "lua" /\ build # "c"

\* Functions through which nothing may be thrown.
Terminate ==
    /\ InTheAir /\ flight.inside /\ Top.quiet
    /\ flight' = [flight EXCEPT !.how = "terminated"]
    /\ got' = Nothing /\ UNCHANGED <<build, frames, alive, ci, jumps>>

\* Mutant: catch (...) is left out.
CatchesTyped ==
    build \in {"c", "cxx_unsafe"} /\ flight.kind # "other"

\* With SOL_EXCEPTIONS_SAFE_PROPAGATION a trampoline catches nothing.
Catches == build \in {"c", "cxx_unsafe"}

Trampolined == InTheAir /\ flight.inside /\ Top.code = "bound" /\ Catches

\* Mutant: catch (...) stands before the other clauses.
MessageOfLast == Generic

\* What the clause that catches passes on; an error of Lua is no exception
\* any clause but the last one knows.
Message ==
    IF flight.how = "lua" \/ flight.kind = "other" THEN Generic ELSE flight.value

\* Mutant: lua_error is called where the function threw.
TrampolineInside ==
    /\ Trampolined /\ ~Top.quiet
    /\ flight' = [flight EXCEPT !.how = "caught", !.inside = FALSE, !.value = Message,
                                !.via = Append(@, "exception_handler")]
    /\ got' = Nothing /\ UNCHANGED <<build, frames, alive, ci, jumps>>

\* static_trampoline, trampoline: the exception handler is called, and its
\* value raised.
Trampoline ==
    /\ Trampolined /\ ~Top.quiet
    /\ frames' = [frames EXCEPT ![Len(frames)].locals = 0]
    /\ alive' = alive - Top.locals
    /\ flight' = [flight EXCEPT !.how = "caught", !.inside = FALSE, !.value = Message,
                                !.via = Append(@, "exception_handler")]
    /\ got' = Nothing /\ UNCHANGED <<build, ci, jumps>>

Rethrow ==
    /\ flight.how = "caught"
    /\ lua_error(flight)
    /\ got' = Nothing /\ UNCHANGED <<build, alive, jumps>>

\* An exception leaves the top call, and goes on in the one below.
Leave ==
    /\ InTheAir /\ Len(frames) > 1
    /\ ~Trampolined /\ ~(flight.inside /\ Top.quiet)
    /\ Protects(Top) => build = "c" /\ Top.by = "pcall"
    /\ LET below == frames[Len(frames) - 1]
       IN  flight' = [flight EXCEPT !.inside =
                        IF Top.by = "handler" THEN Top.cause.inside ELSE IsCpp(below)]
    /\ frames' = Front(frames) /\ alive' = alive - Top.locals
    /\ got' = Nothing /\ UNCHANGED <<build, ci, jumps>>

\* lua_pcall of a Lua that was compiled as C++ catches everything, and what it
\* takes for the message of an exception is chance.
CatchInLua ==
    /\ InTheAir /\ build # "c" /\ Protects(Top)
    /\ ~Trampolined /\ ~(flight.inside /\ Top.quiet)
    /\ frames' = Front(frames) /\ alive' = alive - Top.locals
    /\ ci' = Len(frames) - 1 /\ jumps' = Front(jumps)
    /\ Deliver(Len(frames), IF flight.how = "lua" THEN flight.value ELSE Garbage, flight.via)
    /\ UNCHANGED build

\* protected_function catches what came through a Lua compiled as C, and
\* calls its handler itself: handle_protected_exception.
CatchInSol ==
    /\ InTheAir /\ build = "c" /\ Top.by = "protected"
    /\ ~Trampolined
    /\ frames' = Front(frames) /\ alive' = alive - Top.locals
    /\ Deliver(Len(frames), Message,
               flight.via \o <<"exception_handler">>
                          \o (IF Top.msgh THEN <<"handler">> ELSE <<>>))
    /\ UNCHANGED <<build, ci, jumps>>

\* The program catches what reaches it.
CatchInProgram ==
    /\ InTheAir /\ IsCpp(Top) /\ flight.inside
    /\ Len(frames) > 1 => "catch" \in Uses
    /\ flight' = None
    /\ got' = Nothing /\ UNCHANGED <<build, frames, alive, ci, jumps>>

-----------------------------------------------------------------------------
Init ==
    /\ build \in Builds
    /\ frames = <<NewCall("main", "main", FALSE, 0, FALSE)>>
    /\ alive = 0 /\ flight = None /\ got = Nothing
    /\ ci = 1 /\ jumps = <<>>

Next ==
    \/ CallUnsafe \/ CallProtected \/ CallFromScript \/ Return
    \/ RaiseError \/ \E kind \in Thrown : Throw(kind)
    \/ /\ flight # None
       /\ \/ Longjmp \/ Terminate \/ Trampoline \/ Rethrow \/ Leave
          \/ CatchInLua \/ CatchInSol \/ CatchInProgram

Spec == Init /\ [][Next]_vars

-----------------------------------------------------------------------------
(***************************************************************************)
(* The types of the variables.                                             *)
(***************************************************************************)
TypeOK ==
    /\ build \in Builds
    /\ frames \in Seq(Call) /\ Len(frames) <= MaxFrames + MaxHandlers
    /\ alive \in 0 .. MaxFrames + MaxHandlers
    /\ ci \in 1 .. MaxFrames + MaxHandlers /\ jumps \in Seq(Nat)
    /\ flight \in Error \cup {None}
    /\ got = Nothing \/ got \in [value : Values, via : Seq(Through), to : Nat, due : Due]

(***************************************************************************)
(* The objects of a C++ function are destroyed with its call, however it   *)
(* ends and whatever the Lua it runs under does with errors: none is       *)
(* forgotten in a frame longjmp jumped over, none is destroyed while its   *)
(* function runs.                                                          *)
(***************************************************************************)
LocalsDestroyed ==
    alive = Cardinality({i \in DOMAIN frames : frames[i].locals = 1})

\* What was due is due for an exception, no error of Lua.
OfException(due) == due.via # <<>> /\ due.via[1] = "exception_handler"

ArrivedWhole(g) == g.value = g.due.value /\ g.via = g.due.via

(***************************************************************************)
(* An error arrives at the protected call that was innermost when it was   *)
(* raised, and none ends the program.  An error of Lua arrives with its    *)
(* value, having been shown once to that call's message handler; so does   *)
(* an exception, after the exception handler, where trampolines catch it:  *)
(* errors of handlers take their place.  Of an exception that sol lets     *)
(* through a Lua compiled as C++ only the first is claimed: lua_pcall      *)
(* takes it for an error without a message, and what it was is lost.       *)
(***************************************************************************)
ErrorsArriveWhole ==
    /\ flight.how # "terminated"
    /\ got # Nothing =>
          /\ got.to = got.due.to
          /\ build # "cxx" \/ ~OfException(got.due) => ArrivedWhole(got)

(***************************************************************************)
(* The error handler of a protected function is called with the .what() of *)
(* an exception, whatever Lua was compiled as                              *)
(* (docs/source/api/protected_function.rst:110).  The code does not keep   *)
(* to it: see the README.                                                  *)
(***************************************************************************)
HandlersSeeExceptions ==
    got # Nothing /\ OfException(got.due) /\ Last(got.due.via) = "handler"
        /\ got.due.value \in 0 .. MaxHandlers
    => ArrivedWhole(got)

(***************************************************************************)
(* Whenever no error is on its way Lua believes exactly the calls to be    *)
(* under way that are, and would let an error go to the innermost          *)
(* protected one: no exception left Lua behind its back.                   *)
(***************************************************************************)
LuaKnowsItsCalls ==
    flight = None =>
       /\ ci = Len(frames)
       /\ ToSet(jumps) = {i \in DOMAIN frames : Protects(frames[i])}
       /\ \A i, j \in DOMAIN jumps : i < j => jumps[i] < jumps[j]
=============================================================================

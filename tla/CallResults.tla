---------------------------- MODULE CallResults ----------------------------
(***************************************************************************)
(* The Lua stack under sol's function calls: basic_protected_function,     *)
(* its protected_handler, basic_function, and the result objects that own  *)
(* what a call left on the stack (protected_function_result, which removes *)
(* its values by index, and unsafe_function_result, which pops).           *)
(*                                                                         *)
(* One Lua thread runs nested calls: C++ code calls into Lua, which calls  *)
(* a bound C++ function, which calls into Lua again.  A frame is one C     *)
(* function on Lua's call stack; indices of the API are relative to it.    *)
(* What a stack slot holds matters only as far as who put it there.        *)
(***************************************************************************)
EXTENDS Integers, Sequences, FiniteSets

CONSTANTS Objects,    \* result objects of the C++ program
          Calls,      \* names for calls, to tell their values apart
          MaxDepth,   \* bound: frames on the call stack
          MaxUsers,   \* bound: values a C++ function keeps on its frame
          MaxArgs, MaxRets,   \* bounds: arguments and results of a call
          Uses        \* unusual uses of the API the program makes

(***************************************************************************)
(*   "copy"           copying a result object                              *)
(*   "assign_over"    moving a result into one that still owns values      *)
(*   "typed_error"    call<Ret...>() of a function that fails              *)
(*   "throw"          a C++ exception thrown through the frames of a Lua   *)
(*                    compiled as C, and caught by the protected call      *)
(*   "other_thread"   an error_handler whose lua_State is another thread   *)
(*   "out_of_order"   destroying a result below one that still owns        *)
(*                    values, or an unsafe result that is not on top       *)
(***************************************************************************)
AllUses == {"copy", "assign_over", "typed_error", "throw", "other_thread",
            "out_of_order"}

ASSUME CallAssumption ==
    /\ MaxDepth \in Nat \ {0} /\ MaxUsers \in Nat
    /\ MaxArgs \in Nat /\ MaxRets \in Nat
    /\ Uses \subseteq AllUses /\ Objects # {}

MULTRET == -1

User == <<"user">>       \* a value the running C++ function pushed itself
H    == <<"handler">>
F    == <<"function">>
Arg  == <<"argument">>
Val(c) == <<"value", c>> \* something call c left

Item == {User, H, F, Arg} \cup {Val(c) : c \in Calls}

Kinds    == {"protected", "unsafe"}
Handlers == {"none", "here", "elsewhere"}

\* A call in progress, kept in the frame of the function it calls.
Call == [kind : Kinds, handler : Handlers, rets : {MULTRET} \cup 0 .. MaxRets,
         into : Objects, first : Nat, stackindex : Nat, args : 0 .. MaxArgs]

\* The frame of the program itself was entered by no call.
NoCall(o) == [kind |-> "unsafe", handler |-> "none", rets |-> MULTRET,
              into |-> o, first |-> 0, stackindex |-> 0, args |-> 0]

Gone == [kind |-> "gone"]
Result == [kind : Kinds, frame : 1 .. MaxDepth, index : Nat, returncount : Nat,
           popcount : Nat, err : {"ok", "runtime"}, call : Calls]

VARIABLES stack,      \* the thread's stack, all frames of it
          elsewhere,  \* the stack of the other thread
          frames,     \* [base, users, call], the running function last
          res         \* the result objects

vars == <<stack, elsewhere, frames, res>>

-----------------------------------------------------------------------------
Depth  == Len(frames)
Base   == frames[Depth].base
gettop == Len(stack) - Base

Owns(o) == res[o] # Gone /\ res[o].popcount > 0

\* Result objects of the running function.
Local(o) == res[o] # Gone /\ res[o].frame = Depth

Fresh == {c \in Calls : /\ \A i \in 1 .. Len(stack) : stack[i] # Val(c)
                        /\ \A o \in Objects : res[o] # Gone => res[o].call # c}

Cut(st, n) == SubSeq(st, 1, Len(st) - n)

Repeat(x, n) == [i \in 1 .. n |-> x]

\* Mutant: what is removed is taken to lie on top.
removedTop(st, b, index, count) ==
    IF count < 1 \/ Len(st) - b < 1 THEN st ELSE Cut(st, count)

\* stack::remove(L, index, count) in a frame that starts after b.  lua_remove
\* beyond the top finds nothing to shift and pops all the same.
removed(st, b, index, count) ==
    IF count < 1 \/ Len(st) - b < 1 THEN st
    ELSE IF index = Len(st) - b \/ b + index + count - 1 > Len(st)
    THEN Cut(st, count)
    ELSE SubSeq(st, 1, b + index - 1) \o SubSeq(st, b + index + count, Len(st))

-----------------------------------------------------------------------------
(* The program pushes and pops values of its own.                          *)

PushUser ==
    /\ frames[Depth].users < MaxUsers
    /\ stack' = Append(stack, User)
    /\ frames' = [frames EXCEPT ![Depth].users = @ + 1]
    /\ UNCHANGED <<elsewhere, res>>

PopUser ==
    /\ frames[Depth].users > 0 /\ stack[Len(stack)] = User
    /\ stack' = Cut(stack, 1)
    /\ frames' = [frames EXCEPT ![Depth].users = @ - 1]
    /\ UNCHANGED <<elsewhere, res>>

-----------------------------------------------------------------------------
(* Calls.                                                                  *)

\* Mutant: the handler's index is read after it was pushed elsewhere.
HandlerIndexBelow(handler) == CASE handler = "none" -> 0
                                [] handler = "here" -> gettop
                                [] handler = "elsewhere" -> Len(elsewhere)

\* The slot ~protected_handler removes, and lua_pcall is given.
HandlerIndex(handler) == CASE handler = "none" -> 0
                           [] handler = "here" -> gettop + 1
                           [] handler = "elsewhere" -> Len(elsewhere) + 1

\* Where invoke expects the first result, of a stack of that size.
FirstReturn(stacksize, n, handler) ==
    LET at == stacksize - n - (IF handler = "none" THEN 0 ELSE 1)
    IN  IF at < 1 THEN 1 ELSE at

\* call<Ret...>(args...): handler, function and n arguments are pushed, then
\* lua_pcall or lua_call enters a bound C++ function.
BeginCall(o, kind, handler, rets, n) ==
    /\ Depth < MaxDepth /\ res[o] = Gone
    /\ \A f \in 2 .. Depth : frames[f].call.into # o
    /\ kind = "unsafe" => handler = "none"
    /\ handler = "elsewhere" => "other_thread" \in Uses
    /\ LET below  == IF handler = "here" THEN Append(stack, H) ELSE stack
           pushed == Append(below, F) \o Repeat(Arg, n)
           call   == [kind |-> kind, handler |-> handler, rets |-> rets,
                      into |-> o, args |-> n,
                      first |-> FirstReturn(Len(pushed) - Base, n, handler),
                      stackindex |-> HandlerIndex(handler)]
       IN  /\ stack' = pushed
           /\ frames' = Append(frames, [base |-> Len(below) + 1, users |-> 0,
                                        call |-> call])
    /\ elsewhere' = IF handler = "elsewhere" THEN Append(elsewhere, H)
                    ELSE elsewhere
    /\ UNCHANGED res

\* The values between firstreturn and the top.
ReturnCount(poststacksize, firstreturn) == poststacksize - (firstreturn - 1)

\* The rest of call() in frame f - 1, with pcall's outcome on stack st: a result
\* object, or the typed results popped; then ~protected_handler.
Deliver(f, st, c, code) ==
    LET call  == frames[f].call
        b     == frames[f - 1].base
        hv    == IF call.handler = "none" THEN 0 ELSE 1
        count == ReturnCount(Len(st) - b - hv, call.first)
        left  == IF call.rets = MULTRET THEN st ELSE Cut(st, call.rets)
    IN  /\ res' = [o \in Objects |->
                     IF o = call.into /\ call.rets = MULTRET
                     THEN [kind |-> call.kind, frame |-> f - 1,
                           index |-> call.first, returncount |-> count,
                           popcount |-> count, err |-> code, call |-> c]
                     ELSE IF res[o] # Gone /\ res[o].frame >= f THEN Gone
                     ELSE res[o]]
        /\ stack' = IF call.handler = "here"
                    THEN removed(left, b, call.stackindex, 1) ELSE left
        /\ elsewhere' = IF call.handler = "elsewhere"
                        THEN removed(elsewhere, 0, call.stackindex, 1)
                        ELSE elsewhere
        /\ frames' = SubSeq(frames, 1, f - 1)

\* The bound function returns k values; its own result objects are out of
\* scope by then.  Lua adjusts their number to what was asked for.
Return(c, k) ==
    /\ Depth > 1 /\ ~\E o \in Objects : Local(o)
    /\ LET call == frames[Depth].call
           got  == IF call.rets = MULTRET THEN k ELSE call.rets
       IN  Deliver(Depth, SubSeq(stack, 1, Base - 1) \o Repeat(Val(c), got),
                   c, "ok")

ProtectedFrames == {f \in 2 .. Depth : frames[f].call.kind = "protected"}

\* The frame an error unwinds to the caller of.
Innermost == CHOOSE f \in ProtectedFrames : \A g \in ProtectedFrames : g <= f

\* lua_error: everything above the innermost protected call is cut off, with
\* no destructor run, and one error value is left.
Error(c) ==
    /\ ProtectedFrames # {}
    /\ LET f == Innermost
       IN  /\ frames[f].call.rets # MULTRET => "typed_error" \in Uses
           /\ Deliver(f, Append(SubSeq(stack, 1, frames[f].base - 1), Val(c)),
                      c, "runtime")

\* A C++ exception reaches invoke's catch: Lua still takes the function that
\* threw for the running one, so no value is cut off and indices count from
\* there.  The handler is called and leaves one value; ~protected_handler
\* finds stackindex 0.
Throw(c) ==
    /\ "throw" \in Uses /\ ProtectedFrames # {}
    /\ LET f == Innermost
           call == frames[f].call
       IN  /\ call.rets = MULTRET /\ call.handler # "elsewhere"
           /\ \A o \in Objects : res[o] # Gone => res[o].frame < f
           /\ stack' = Append(stack, Val(c))
           /\ frames' = [SubSeq(frames, 1, f - 1) EXCEPT ![f - 1].base = Base]
           /\ res' = [res EXCEPT ![call.into] =
                        [kind |-> "protected", frame |-> f - 1,
                         index |-> Len(stack) + 1 - Base, returncount |-> 0,
                         popcount |-> 1, err |-> "runtime", call |-> c]]
    /\ UNCHANGED elsewhere

-----------------------------------------------------------------------------
(* Result objects.                                                         *)

Topmost(o) == \A p \in Objects : Owns(p) /\ Local(p) => res[p].index <= res[o].index

AtTop(o) == gettop = res[o].index + res[o].returncount - 1

\* The destructors look at nothing but the object's own members.  The order
\* is the program's: the documentation asks that nothing below a protected
\* result is removed before its destructor ran, and that an unsafe result is
\* not stored, as its values are taken to be on top.
InOrder(o) == IF res[o].kind = "unsafe" THEN AtTop(o) ELSE Topmost(o)

Destroy(o) ==
    /\ Local(o)
    /\ Owns(o) /\ ~InOrder(o) => "out_of_order" \in Uses
    /\ LET r == res[o]
       IN  stack' = IF r.kind = "unsafe" THEN Cut(stack, r.returncount)
                    ELSE removed(stack, Base, r.index, r.popcount)
    /\ res' = [res EXCEPT ![o] = Gone]
    /\ UNCHANGED <<elsewhere, frames>>

abandoned(r) == [r EXCEPT !.index = 0, !.returncount = 0, !.popcount = 0,
                          !.err = IF r.kind = "protected" THEN "runtime" ELSE @]

\* Mutant: a converted result has nothing to pop.
takenNoPop(r, kind) ==
    IF r.kind = kind THEN r
    ELSE [r EXCEPT !.kind = kind, !.popcount = 0]

\* What a result object of that kind takes over from r.  Between the kinds
\* the number of values to pop is the number returned.
taken(r, kind) ==
    IF r.kind = kind THEN r
    ELSE [r EXCEPT !.kind = kind, !.popcount = r.returncount]

MoveConstruct(p, o, kind) ==
    /\ Local(o) /\ res[p] = Gone
    /\ \A f \in 2 .. Depth : frames[f].call.into # p
    /\ res' = [res EXCEPT ![p] = taken(res[o], kind), ![o] = abandoned(res[o])]
    /\ UNCHANGED <<stack, elsewhere, frames>>

MoveAssign(p, o) ==
    /\ Local(o) /\ Local(p) /\ p # o
    /\ Owns(p) => "assign_over" \in Uses
    /\ res' = [res EXCEPT ![p] = taken(res[o], res[p].kind),
                          ![o] = abandoned(res[o])]
    /\ UNCHANGED <<stack, elsewhere, frames>>

\* The copy operations are the compiler's, member by member.
Copy(p, o) ==
    /\ Local(o) /\ p # o
    /\ Owns(o) => "copy" \in Uses
    /\ \/ res[p] = Gone /\ \A f \in 2 .. Depth : frames[f].call.into # p
       \/ Local(p) /\ res[p].kind = res[o].kind /\ ~Owns(p)
    /\ res' = [res EXCEPT ![p] = res[o]]
    /\ UNCHANGED <<stack, elsewhere, frames>>

-----------------------------------------------------------------------------
Init ==
    /\ stack = <<>> /\ elsewhere = <<>>
    /\ frames = <<[base |-> 0, users |-> 0,
                   call |-> NoCall(CHOOSE o \in Objects : TRUE)]>>
    /\ res = [o \in Objects |-> Gone]

Next ==
    \/ PushUser \/ PopUser
    \/ \E o \in Objects, kind \in Kinds, handler \in Handlers,
          rets \in {MULTRET} \cup 0 .. MaxRets, n \in 0 .. MaxArgs :
          BeginCall(o, kind, handler, rets, n)
    \/ \E c \in Fresh : Error(c) \/ Throw(c) \/ \E k \in 0 .. MaxRets : Return(c, k)
    \/ \E o \in Objects : Destroy(o)
    \/ \E p, o \in Objects :
          \/ MoveAssign(p, o) \/ Copy(p, o)
          \/ \E kind \in Kinds : MoveConstruct(p, o, kind)

Spec == Init /\ [][Next]_vars

-----------------------------------------------------------------------------
(***************************************************************************)
(* The types of the variables; above all no result object ever counts a    *)
(* negative number of values.                                              *)
(***************************************************************************)
TypeOK ==
    /\ stack \in Seq(Item) /\ elsewhere \in Seq({H})
    /\ frames \in Seq([base : Nat, users : 0 .. MaxUsers, call : Call])
    /\ Depth \in 1 .. MaxDepth
    /\ res \in [Objects -> Result \cup {Gone}]

\* Positions on the stack a result object will remove.
Span(o) == LET at == frames[res[o].frame].base + res[o].index
           IN  at .. at + res[o].popcount - 1

(***************************************************************************)
(* A result object names the values of its own call, however results are   *)
(* moved and cut off by errors, and however many handlers, functions and   *)
(* arguments came and went above and below them; as long as results are    *)
(* destroyed from the top down, as the documentation asks.                 *)
(***************************************************************************)
ResultsNameTheirValues ==
    \A o \in Objects : Owns(o) =>
       \A i \in Span(o) : i \in 1 .. Len(stack) /\ stack[i] = Val(res[o].call)

\* The slot the handler of a call in progress was pushed to.
HandlerSlots == {frames[f - 1].base + frames[f].call.stackindex :
                    f \in {g \in 2 .. Depth : frames[g].call.handler = "here"}}

(***************************************************************************)
(* Every operation leaves the stack as it found it, but for what it        *)
(* announces: a result on the stack belongs to a result object that will   *)
(* remove it, a handler to a call in progress.                             *)
(***************************************************************************)
NothingLeaked ==
    /\ \A i \in 1 .. Len(stack) :
          /\ stack[i] = H => i \in HandlerSlots
          /\ (\E c \in Calls : stack[i] = Val(c)) =>
                \E o \in Objects : Owns(o) /\ i \in Span(o)
    /\ Len(elsewhere) =
          Cardinality({f \in 2 .. Depth : frames[f].call.handler = "elsewhere"})

\* What frame f has on the stack, up to the function it calls.
Extent(f) == frames[f].base + 1 ..
                (IF f = Depth THEN Len(stack) ELSE frames[f + 1].base - 1)

(***************************************************************************)
(* No operation removes a value the C++ code of any frame pushed itself.   *)
(***************************************************************************)
NothingTaken ==
    \A f \in 1 .. Depth :
       Cardinality({i \in Extent(f) : stack[i] = User}) = frames[f].users

(***************************************************************************)
(* The two together: the stack is what the program pushed and what live    *)
(* results and calls in progress own.  (The types of the state are part    *)
(* of it.)                                                                 *)
(***************************************************************************)
StackBalanced == TypeOK /\ NothingLeaked /\ NothingTaken

(***************************************************************************)
(* Should the called function fail, lua_pcall finds the error handler at   *)
(* the index it was given.                                                 *)
(***************************************************************************)
HandlersAreCalled ==
    \A f \in 2 .. Depth : frames[f].call.handler # "none" =>
       LET at == frames[f - 1].base + frames[f].call.stackindex
       IN  at \in 1 .. Len(stack) /\ stack[at] = H
=============================================================================

---------------------------- MODULE SolReference ----------------------------
(***************************************************************************)
(* basic_reference<main_only> of include/sol/reference.hpp: the handle     *)
(* every registry-backed type of sol derives from (object, table,          *)
(* function, coroutine, thread and their main_ versions).                  *)
(*                                                                         *)
(* A handle is an integer `ref', the registry slot it owns, and a pointer  *)
(* `luastate' to the Lua thread it works through.  Lua threads of one      *)
(* state share a registry and are collectable objects themselves; the main *)
(* thread of a state is not.  A step is one C++ operation on handles, one  *)
(* script step (Give, Unroot), or one collection.                          *)
(***************************************************************************)
EXTENDS LuaRegistry

CONSTANTS Handles,      \* C++ objects of type basic_reference
          MainOnly,     \* those with main_only = true (main_reference, ...)
          States,       \* independent Lua states (one registry each)
          Threads,      \* lua_State pointers: main threads and coroutines
          StateOf,      \* the state a thread belongs to
          MainThread,   \* the main thread of a state
          Home,         \* the state an object lives in
          Null,         \* the null lua_State pointer
          None, Dead,   \* denotations of an empty and of an unborn handle
          Uses          \* unusual uses of the API the program makes

(***************************************************************************)
(* Uses names what most programs never do and the source nevertheless      *)
(* accepts:                                                                *)
(*   "self_copy_assign"   r = r;                                           *)
(*   "cross_state_pin"    reference(L, r) with r from another state        *)
(*   "main_from_empty"    giving a main_reference an empty handle that     *)
(*                        carries a coroutine's lua_State                  *)
(***************************************************************************)
AllUses == {"self_copy_assign", "cross_state_pin", "main_from_empty"}

MainThreads == {MainThread[u] : u \in States}

ASSUME ReferenceAssumption ==
    /\ MainOnly \subseteq Handles
    /\ StateOf \in [Threads -> States]
    /\ MainThread \in [States -> Threads]
    /\ \A u \in States : StateOf[MainThread[u]] = u
    /\ Home \in [Values -> States]
    /\ Threads \ MainThreads \subseteq Values
    /\ \A t \in Threads \ MainThreads : Home[t] = StateOf[t]
    /\ MainThreads \cap Values = {}
    /\ Null \notin Threads
    /\ {Nil, None, Dead} \cap Values = {}
    /\ None # Nil /\ Dead # Nil /\ None # Dead
    /\ Uses \subseteq AllUses

VARIABLES objs,      \* handles constructed and not destroyed
          ref,       \* stateless_reference::ref
          luastate,  \* basic_reference::luastate
          regs,      \* the registry of each state
          roots,     \* objects the Lua side still reaches
          live       \* objects not collected

vars == <<objs, ref, luastate, regs, roots, live>>

-----------------------------------------------------------------------------
(* Reading a handle.                                                       *)

valid(h) == ref[h] \notin {LUA_NOREF, LUA_REFNIL}

LiveThread(t) == t \in MainThreads \/ t \in live

\* A handle whose lua_State was not collected under it: on any other, every
\* member function but lua_state() is undefined behaviour.
Touchable(h) == h \in objs /\ (luastate[h] = Null \/ LiveThread(luastate[h]))

\* deref() reads the lua_State only when there is a slot to give back.
Releasable(h) == h \in objs /\ (valid(h) => LiveThread(luastate[h]))

\* push(): what lands on the stack.  A registry has nothing at -1 and -2.
Pushed(rg, h) == IF luastate[h] = Null \/ ~valid(h) THEN Nil
                 ELSE rg[StateOf[luastate[h]]].cell[ref[h]]

\* Mutant: lua_xmove between threads of two unrelated states.
xmovableAnyState(t, s) == t # Null /\ s # Null /\ t # s

xmovable(t, s) == /\ t # Null /\ s # Null /\ t # s
                  /\ StateOf[t] = StateOf[s]

\* g works in another Lua state than thread t's.
CrossState(t, g) == IF luastate[g] = Null THEN FALSE
                    ELSE StateOf[luastate[g]] # StateOf[t]

main_thread(t) == IF t = Null THEN Null ELSE MainThread[StateOf[t]]

pick_main_thread(b, t) == IF b THEN main_thread(t) ELSE t

\* pick_main_thread<main_only>(t, t) in the members of handle h.
pinned(h, t) == pick_main_thread(h \in MainOnly, t)

-----------------------------------------------------------------------------
(* Building blocks on the registries.                                      *)

\* luaL_unref and luaL_ref in the registry of state u.
Freed(rg, u, s) == [rg EXCEPT ![u] = luaL_unref(@, s)]
Stored(rg, u, x) == [rg EXCEPT ![u] = luaL_ref(@, x)]

\* deref(): luaL_unref, which ignores the two negative references.
Derefed(h) == IF luastate[h] = Null \/ ~valid(h) THEN regs
              ELSE Freed(regs, StateOf[luastate[h]], ref[h])

\* h is given what luaL_ref of x returns in the registry of thread t.
Acquire(rg, t, x, h) ==
    IF x = Nil
    THEN /\ ref' = [ref EXCEPT ![h] = LUA_REFNIL]
         /\ regs' = rg
    ELSE /\ HasRoom(rg[StateOf[t]])
         /\ ref' = [ref EXCEPT ![h] = NextSlot(rg[StateOf[t]])]
         /\ regs' = Stored(rg, StateOf[t], x)

\* h is given reference value k; no slot is handed out.
SetRef(rg, h, k) == /\ ref' = [ref EXCEPT ![h] = k]
                    /\ regs' = rg

\* Mutant: r.ref = LUA_NOREF forgotten.
StealKeepsSource(rg, h, g, t) ==
    /\ ref' = [ref EXCEPT ![h] = ref[g]]
    /\ luastate' = [luastate EXCEPT ![h] = t]
    /\ regs' = rg

\* h takes over g's slot, g is left empty.
Steal(rg, h, g, t) ==
    /\ ref' = [ref EXCEPT ![h] = ref[g], ![g] = LUA_NOREF]
    /\ luastate' = [luastate EXCEPT ![h] = t, ![g] = Null]
    /\ regs' = rg

Born(h) == objs' = objs \cup {h}

LuaUnchanged == UNCHANGED <<roots, live>>

-----------------------------------------------------------------------------
(* Constructors.                                                           *)

\* reference(), reference(lua_nil)
CtorDefault(h) ==
    /\ h \notin objs
    /\ Born(h)
    /\ SetRef(regs, h, LUA_NOREF)
    /\ luastate' = [luastate EXCEPT ![h] = Null]
    /\ LuaUnchanged

\* reference(L, lua_nil): empty, but with a thread to pin to.
CtorNilOn(h, t) ==
    /\ h \notin objs /\ LiveThread(t)
    /\ Born(h)
    /\ SetRef(regs, h, LUA_NOREF)
    /\ luastate' = [luastate EXCEPT ![h] = pinned(h, t)]
    /\ LuaUnchanged

\* reference(L, index): what lies on L's stack, an object or nil.
CtorIndex(h, t) ==
    /\ h \notin objs /\ LiveThread(t)
    /\ \E x \in {v \in roots : Home[v] = StateOf[t]} \cup {Nil} :
          Acquire(regs, t, x, h)
    /\ Born(h)
    /\ luastate' = [luastate EXCEPT ![h] = pinned(h, t)]
    /\ LuaUnchanged

\* reference(L, ref_index(g.registry_index())): a second slot for the object
\* in the slot of that number.
CtorRefIndex(h, t, g) ==
    /\ h \notin objs /\ LiveThread(t) /\ Touchable(g)
    /\ valid(g) /\ StateOf[luastate[g]] = StateOf[t]
    /\ LET L == pinned(h, t)
       IN  /\ Acquire(regs, L, Pushed(regs, g), h)
           /\ luastate' = [luastate EXCEPT ![h] = L]
    /\ Born(h)
    /\ LuaUnchanged

\* Mutant: the copy shares the number of the original.
CtorCopyShares(h, g) ==
    /\ h \notin objs /\ Touchable(g)
    /\ SetRef(regs, h, ref[g])
    /\ luastate' = [luastate EXCEPT ![h] = luastate[g]]
    /\ Born(h)
    /\ LuaUnchanged

\* reference(const reference&), main_reference(const reference&), ...
CtorCopy(h, g) ==
    /\ h \notin objs /\ Touchable(g)
    /\ LET cross == (h \in MainOnly) # (g \in MainOnly)
           L == IF cross THEN pinned(h, luastate[g])
                ELSE luastate[g]
       IN  /\ luastate' = [luastate EXCEPT ![h] = L]
           /\ \/ ref[g] = LUA_NOREF /\ SetRef(regs, h, LUA_NOREF)
              \/ ref[g] # LUA_NOREF /\ Acquire(regs, L, Pushed(regs, g), h)
    /\ Born(h)
    /\ LuaUnchanged

\* reference(reference&&), main_reference(reference&&), ...
CtorMove(h, g) ==
    /\ h \notin objs /\ Touchable(g)
    /\ LET cross == (h \in MainOnly) # (g \in MainOnly)
       IN  Steal(regs, h, g,
                 IF cross THEN pinned(h, luastate[g])
                 ELSE luastate[g])
    /\ Born(h)
    /\ LuaUnchanged

\* reference(L, const reference&): h is pinned to L.  When the two threads
\* cannot exchange values the copy is made where g is.
CtorPinCopy(h, t, g) ==
    /\ h \notin objs /\ LiveThread(t) /\ Touchable(g)
    /\ CrossState(t, g) => "cross_state_pin" \in Uses
    /\ LET L == pinned(h, t)
           at == IF xmovable(L, luastate[g]) THEN L ELSE luastate[g]
       IN  /\ luastate' = [luastate EXCEPT ![h] = L]
           /\ \/ ~valid(g) /\ SetRef(regs, h, ref[g])
              \/ valid(g) /\ Acquire(regs, at, Pushed(regs, g), h)
    /\ Born(h)
    /\ LuaUnchanged

\* reference(L, reference&&): g keeps its own slot when the value is xmoved.
CtorPinMove(h, t, g) ==
    /\ h \notin objs /\ LiveThread(t) /\ Touchable(g)
    /\ CrossState(t, g) => "cross_state_pin" \in Uses
    /\ LET L == pinned(h, t)
       IN  \/ /\ ~valid(g)
              /\ SetRef(regs, h, ref[g])
              /\ luastate' = [luastate EXCEPT ![h] = L]
           \/ /\ valid(g) /\ xmovable(L, luastate[g])
              /\ Acquire(regs, L, Pushed(regs, g), h)
              /\ luastate' = [luastate EXCEPT ![h] = L]
           \/ /\ valid(g) /\ ~xmovable(L, luastate[g])
              /\ Steal(regs, h, g, L)
    /\ Born(h)
    /\ LuaUnchanged

-----------------------------------------------------------------------------
(* Assignments.  The slot h owns is released first, always.                *)

\* A main handle never gets to see an empty handle on a coroutine.
MainFromEmpty(h, g) == /\ h \in MainOnly /\ ref[g] = LUA_NOREF
                       /\ luastate[g] \in Threads \ MainThreads

\* Mutant: the assignments take over the other handle's thread as it is.
AssignedThreadUnpinned(h, g) == luastate[g]

\* pick_main_thread<main_only && !r_main_only>(r.lua_state(), r.lua_state())
AssignedThread(h, g) ==
    pick_main_thread(h \in MainOnly /\ g \notin MainOnly, luastate[g])

CopyAssign(h, g) ==
    /\ Touchable(h) /\ Touchable(g)
    /\ h = g => "self_copy_assign" \in Uses
    /\ MainFromEmpty(h, g) => "main_from_empty" \in Uses
    /\ LET rg == Derefed(h)
       IN  \/ /\ ref[g] = LUA_REFNIL
              /\ SetRef(rg, h, LUA_REFNIL)
              /\ luastate' = [luastate EXCEPT ![h] = AssignedThread(h, g)]
           \/ /\ ref[g] = LUA_NOREF
              /\ SetRef(rg, h, LUA_NOREF)
              /\ luastate' = [luastate EXCEPT ![h] = luastate[g]]
           \/ /\ valid(g) /\ xmovable(luastate[h], luastate[g])
              /\ Acquire(rg, luastate[h], Pushed(rg, g), h)
              /\ UNCHANGED luastate
           \/ /\ valid(g) /\ ~xmovable(luastate[h], luastate[g])
              /\ Acquire(rg, AssignedThread(h, g), Pushed(rg, g), h)
              /\ luastate' = [luastate EXCEPT ![h] = AssignedThread(h, g)]
    /\ UNCHANGED objs
    /\ LuaUnchanged

MoveAssign(h, g) ==
    /\ Touchable(h) /\ Touchable(g)
    /\ MainFromEmpty(h, g) => "main_from_empty" \in Uses
    /\ LET rg == Derefed(h)
       IN  \/ /\ ref[g] = LUA_REFNIL
              /\ SetRef(rg, h, LUA_REFNIL)
              /\ luastate' = [luastate EXCEPT ![h] = AssignedThread(h, g)]
           \/ /\ ref[g] = LUA_NOREF
              /\ SetRef(rg, h, LUA_NOREF)
              /\ luastate' = [luastate EXCEPT ![h] = luastate[g]]
           \/ /\ valid(g) /\ xmovable(luastate[h], luastate[g])
              /\ Acquire(rg, luastate[h], Pushed(rg, g), h)
              /\ UNCHANGED luastate
           \/ /\ valid(g) /\ ~xmovable(luastate[h], luastate[g])
              /\ Steal(rg, h, g, AssignedThread(h, g))
    /\ UNCHANGED objs
    /\ LuaUnchanged

\* operator=(lua_nil_t)
AssignNil(h) ==
    /\ Releasable(h)
    /\ SetRef(Derefed(h), h, LUA_NOREF)
    /\ luastate' = [luastate EXCEPT ![h] = Null]
    /\ UNCHANGED objs
    /\ LuaUnchanged

\* ~basic_reference()
Destroy(h) ==
    /\ Releasable(h)
    /\ objs' = objs \ {h}
    /\ SetRef(Derefed(h), h, LUA_NOREF)
    /\ luastate' = [luastate EXCEPT ![h] = Null]
    /\ LuaUnchanged

-----------------------------------------------------------------------------
(* Lua's side.                                                             *)

\* push(L) hands the object to a script, which keeps it.
Give(h) ==
    /\ Touchable(h) /\ valid(h)
    /\ Pushed(regs, h) \in Values
    /\ roots' = roots \cup {Pushed(regs, h)}
    /\ UNCHANGED <<objs, ref, luastate, regs, live>>

\* The script drops its last path to v, or the coroutine v stops running.
Unroot(v) ==
    /\ v \in roots
    /\ roots' = roots \ {v}
    /\ UNCHANGED <<objs, ref, luastate, regs, live>>

\* The registry is a root of the collector; a lua_State pointer in a C++
\* object is not.
Collect(v) ==
    /\ v \in live \ roots
    /\ \A s \in Slots : regs[Home[v]].cell[s] # v
    /\ live' = live \ {v}
    /\ UNCHANGED <<objs, ref, luastate, regs, roots>>

-----------------------------------------------------------------------------
Init ==
    /\ objs = {}
    /\ ref = [h \in Handles |-> LUA_NOREF]
    /\ luastate = [h \in Handles |-> Null]
    /\ regs = [u \in States |-> EmptyRegistry]
    /\ roots = Values
    /\ live = Values

Construct(h) ==
    \/ CtorDefault(h)
    \/ \E t \in Threads : CtorNilOn(h, t) \/ CtorIndex(h, t)
    \/ \E g \in Handles : CtorCopy(h, g) \/ CtorMove(h, g)
    \/ \E t \in Threads, g \in Handles :
          CtorRefIndex(h, t, g) \/ CtorPinCopy(h, t, g) \/ CtorPinMove(h, t, g)

Assign(h) ==
    \/ AssignNil(h)
    \/ \E g \in Handles : CopyAssign(h, g) \/ MoveAssign(h, g)

Next ==
    \/ \E h \in Handles : Construct(h) \/ Assign(h) \/ Destroy(h) \/ Give(h)
    \/ \E v \in Values : Unroot(v) \/ Collect(v)

Spec == Init /\ [][Next]_vars

-----------------------------------------------------------------------------
(***************************************************************************)
(* The types of the variables; above all every ref is a slot number within *)
(* the registry's bound or one of the two negative references.             *)
(***************************************************************************)
TypeOK ==
    /\ objs \subseteq Handles
    /\ ref \in [Handles -> Refs]
    /\ luastate \in [Handles -> Threads \cup {Null}]
    /\ regs \in [States -> Registry]
    /\ roots \subseteq Values
    /\ live \subseteq Values

\* The slot h owns, with the registry it is in.
SlotOf(h) == <<StateOf[luastate[h]], ref[h]>>

Owners == {h \in objs : valid(h)}

(***************************************************************************)
(* No slot is owned by two handles: whichever of the two is destroyed      *)
(* first would free it under the other, and free it again later.           *)
(***************************************************************************)
OneOwnerPerSlot ==
    \A h, g \in Owners : h # g => SlotOf(h) # SlotOf(g)

(***************************************************************************)
(* An owned slot holds a live object of the handle's own state, never a    *)
(* link of the free list and never an object of another state.             *)
(***************************************************************************)
KeptAlive ==
    \A h \in Owners :
       /\ luastate[h] # Null
       /\ LET x == Pushed(regs, h)
          IN  x \in live /\ Home[x] = StateOf[luastate[h]]

(***************************************************************************)
(* Nothing is pinned for ever: every object in a registry is there for a   *)
(* handle that still exists, whose destructor will release it.             *)
(***************************************************************************)
NoSlotLeak ==
    \A u \in States : \A s \in Occupied(regs[u]) :
       \E h \in Owners : SlotOf(h) = <<u, s>>

\* The registry's own free list survives whatever the handles do.
FreeListsSound == \A u \in States : FreeListSound(regs[u])

(***************************************************************************)
(* Slots are held the way memory is by an allocator's callers: each one in *)
(* use has one owner, and the free list, which lies in the slots that are  *)
(* not in use, is never written through a handle.                          *)
(***************************************************************************)
SlotsOwned == OneOwnerPerSlot /\ NoSlotLeak /\ FreeListsSound

(***************************************************************************)
(* A main_ handle never works through a coroutine's lua_State, so no       *)
(* collection of a coroutine can leave it dangling.                        *)
(***************************************************************************)
MainHandlesUseMainThread ==
    \A h \in objs \cap MainOnly : luastate[h] \in MainThreads \cup {Null}

(***************************************************************************)
(* operator==(basic_reference, basic_reference): each operand is pushed on *)
(* its own thread, and the two topmost values of the LEFT operand's thread *)
(* are compared; `below' is what lay on top of that thread before.         *)
(***************************************************************************)
operatorEq(l, r, below) ==
    LET onLeft == IF luastate[l] = luastate[r]
                  THEN <<Pushed(regs, l), Pushed(regs, r)>>
                  ELSE <<below, Pushed(regs, l)>>
    IN  onLeft[1] = onLeft[2]

\* Equality compares the two references, whatever lies on the stacks.  The
\* code does not satisfy this for handles of different threads.
EqualityComparesReferences ==
    \A l, r \in {h \in Owners : Touchable(h)} : \A below \in live \cup {Nil} :
       StateOf[luastate[l]] = StateOf[luastate[r]] =>
          (operatorEq(l, r, below) <=> Pushed(regs, l) = Pushed(regs, r))

(***************************************************************************)
(* The abstraction: a handle denotes what its slot holds.                  *)
(***************************************************************************)
denotes ==
    [h \in Handles |-> IF h \notin objs THEN Dead
                       ELSE IF ref[h] = LUA_NOREF THEN None
                       ELSE Pushed(regs, h)]

Abs == INSTANCE ValueHandles WITH val <- denotes

(***************************************************************************)
(* Every operation of basic_reference on slots, threads and numbers is an  *)
(* operation of ValueHandles on plain values, or changes nothing there.    *)
(***************************************************************************)
HandlesAreValues == Abs!Spec
=============================================================================

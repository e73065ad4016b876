--------------------------- MODULE ObjectLifecycle ---------------------------
(***************************************************************************)
(* C++ objects inside Lua: how sol allocates a userdata, gives it its      *)
(* metatable and constructs the object in it, how Lua's collector hands it *)
(* back to the destructor, and what registering the class, unregistering   *)
(* it and closing the state do to objects that exist.                      *)
(*                                                                         *)
(* Objects of one class, held by value or as a unique usertype, which both *)
(* own what they hold, or by a pointer to an object of the program, whose  *)
(* metatable has no __gc.  A custom __gc is a closure over a binding that  *)
(* lives in the class's storage, itself a userdata with a finaliser.       *)
(*                                                                         *)
(* Lua finalises a userdata if its metatable had a __gc when it was set,   *)
(* calls the __gc the metatable has when the time comes, and takes what    *)
(* can be finalised in the opposite order of that marking (5.2 and later). *)
(***************************************************************************)
EXTENDS Naturals, Sequences, SequencesExt

CONSTANTS Objects,
          Storages,   \* bound: registrations of the class, in order of use
          Uses        \* what the program does that the objects may not survive

(***************************************************************************)
(*   "fail"         a constructor throws, or is called with arguments that *)
(*                  match none of its overloads                            *)
(*   "unregister"   unregister() is called while there are objects, or     *)
(*                  objects are made of a class that is unregistered       *)
(*   "bind_late"    a custom __gc is bound by a storage younger than some  *)
(*                  object                                                 *)
(***************************************************************************)
AllUses == {"fail", "unregister", "bind_late"}

None    == "none"
Default == "default"     \* a __gc that is a C function needs no binding

ASSUME LifecycleAssumption == /\ Uses \subseteq AllUses
                              /\ Objects \cap Storages = {}
                              /\ {None, Default} \cap Storages = {}

Owning   == {"value", "unique"}
Holdings == Owning \cup {"reference"}

\* The memory of a userdata: none yet, raw bytes, bytes whose constructor
\* failed, a constructed object, a destroyed one, a pointer, memory that was
\* released; "ruined" when a destructor ran on what is no object, or not
\* Lua's, "lost" when the memory of an object was released without one.
Contents ==
    {"none", "bytes", "failed", "object", "destroyed", "pointer", "freed",
     "ruined", "lost"}

VARIABLES held,       \* held[o]: how o is held
          content,    \* content[o]: what its memory is
          table,      \* the userdata that have got their metatable
          reachable,  \* the userdata Lua can still reach
          finalise,   \* the userdata marked for finalisation, oldest first
          gc,         \* gc[h]: the __gc of the metatable for h
          exists,     \* the metatables that exist in the registry
          storage,    \* storage[s]: unused, live, cleared or gone
          stale,      \* a __gc ran that needed a binding no more there
          phase       \* the state: open, closing, closed
vars == <<held, content, table, reachable, finalise, gc, exists, storage,
          stale, phase>>
tables == <<gc, exists, storage>>

Live == {s \in Storages : storage[s] = "live"}

Init ==
    /\ held = [o \in Objects |-> "value"]
    /\ content = [o \in Objects |-> "none"]
    /\ table = {} /\ reachable = {} /\ finalise = <<>>
    /\ gc = [h \in Holdings |-> None] /\ exists = {}
    /\ storage = [s \in Storages |-> "unused"]
    /\ stale = FALSE /\ phase = "open"

-----------------------------------------------------------------------------
(* Making an object: usertype_allocate, undefined_metatable, construct. *)

\* Unregistering leaves metatables without __gc.
Finalisable(h) ==
    h \in Owning /\ h \in exists /\ gc[h] = None => "unregister" \in Uses

\* Mutant: the new userdata is not kept on the stack.
AllocateUnanchored(o, h) ==
    /\ phase = "open" /\ content[o] = "none"
    /\ Finalisable(h)
    /\ held' = [held EXCEPT ![o] = h]
    /\ content' = [content EXCEPT ![o] = "bytes"]
    /\ UNCHANGED <<table, reachable, finalise, tables, stale, phase>>

Allocate(o, h) ==
    /\ phase = "open" /\ content[o] = "none"
    /\ Finalisable(h)
    /\ held' = [held EXCEPT ![o] = h]
    /\ content' = [content EXCEPT ![o] = "bytes"]
    /\ reachable' = reachable \cup {o}
    /\ UNCHANGED <<table, finalise, tables, stale, phase>>

\* Mutant: the methods of an undefined class lack the destructor.
set_undefined_methods_none(h) == None

\* What a metatable made for a class that is not registered has for __gc.
set_undefined_methods_on(h) == IF h \in Owning THEN Default ELSE None

\* luaL_newmetatable finds the metatable or makes it.
SetMetatable(o) ==
    LET h == held[o]
        found == IF h \in exists THEN gc[h] ELSE set_undefined_methods_on(h)
    IN /\ phase = "open" /\ content[o] = "bytes" /\ o \notin table
       /\ table' = table \cup {o}
       /\ exists' = exists \cup {h}
       /\ gc' = [gc EXCEPT ![h] = found]
       /\ finalise' = IF found = None THEN finalise ELSE Append(finalise, o)
       /\ UNCHANGED <<held, content, reachable, storage, stale, phase>>

Construct(o) ==
    /\ phase = "open" /\ content[o] = "bytes" /\ o \in table
    /\ o \in reachable
    /\ content' = [content EXCEPT ![o] =
                       IF held[o] \in Owning THEN "object" ELSE "pointer"]
    /\ UNCHANGED <<held, table, reachable, finalise, tables, stale, phase>>

\* The userdata exists and has its __gc when the constructor fails.  An
\* exception unwinds the reference call.hpp holds to it; the longjmp of a
\* Lua compiled as C skips its destructor, and the registry keeps it.
ConstructFails(o) ==
    /\ phase = "open" /\ content[o] = "bytes" /\ o \in table
    /\ o \in reachable
    /\ content' = [content EXCEPT ![o] = "failed"]
    /\ reachable' \in {reachable, reachable \ {o}}
    /\ UNCHANGED <<held, table, finalise, tables, stale, phase>>

\* Constructors only fail in a program that makes use of it.
Failing == {o \in Objects : /\ "fail" \in Uses
                            /\ content[o] = "bytes" /\ held[o] \in Owning}

Drop(o) ==
    /\ phase = "open" /\ content[o] \in {"object", "pointer"} /\ o \in reachable
    /\ reachable' = reachable \ {o}
    /\ UNCHANGED <<held, content, table, finalise, tables, stale, phase>>

-----------------------------------------------------------------------------
(* The class. *)

\* create_usertype_storage keeps the storage in the global named gc_table.
pinned(set, s) == set \cup {s}

\* clear(): bindings destroyed, metatables emptied.
Cleared == [s \in Storages |-> IF s \in Live THEN "cleared" ELSE storage[s]]

\* register_usertype: a storage that is still there is deleted first, and
\* the same metatables are filled again.
Register(s) ==
    /\ phase = "open" /\ storage[s] = "unused"
    /\ storage' = [Cleared EXCEPT ![s] = "live"]
    /\ exists' = Holdings
    /\ gc' = [h \in Holdings |-> IF h \in Owning THEN Default ELSE None]
    /\ reachable' = pinned(reachable \ Live, s)
    /\ finalise' = Append(finalise, s)
    /\ UNCHANGED <<held, content, table, stale, phase>>

\* set("__gc", destructor(f)): a closure over a binding of storage s, in
\* the tables of values; a unique usertype has a destruction of its own.
BindDestructor(s) ==
    /\ phase = "open" /\ storage[s] = "live"
    /\ \/ "bind_late" \in Uses
       \/ \A i \in DOMAIN finalise : finalise[i] \in Objects =>
              \E j \in 1 .. i : finalise[j] = s
    /\ gc' = [gc EXCEPT !["value"] = s]
    /\ UNCHANGED <<held, content, table, reachable, finalise, exists, storage,
                   stale, phase>>

\* Pointers need nothing of the class when they go.
Unneeded ==
    \/ "unregister" \in Uses
    \/ \A o \in Objects :
          held[o] \in Owning => content[o] \in {"none", "destroyed"}

\* Mutant: clear() leaves the metatables of objects as they are.
UnregisterNotEmptied(s) ==
    /\ Unneeded
    /\ phase = "open" /\ storage[s] = "live"
    /\ storage' = Cleared
    /\ reachable' = reachable \ {s}
    /\ UNCHANGED <<held, content, table, finalise, gc, exists, stale, phase>>

\* delete_usertype_storage: clear() takes __gc out of the metatables, and
\* the global that kept the storage becomes nil.
Unregister(s) ==
    /\ Unneeded
    /\ phase = "open" /\ storage[s] = "live"
    /\ storage' = Cleared
    /\ gc' = [h \in Holdings |-> None]
    /\ reachable' = reachable \ {s}
    /\ UNCHANGED <<held, content, table, finalise, exists, stale, phase>>

-----------------------------------------------------------------------------
(* The collector, and lua_close. *)

Unreached(u) == u \notin reachable \/ phase = "closing"

\* The youngest of the unreachable userdata is finalised next, and is marked
\* no more.
TakeYoungest(u) ==
    \E i \in DOMAIN finalise :
        /\ finalise[i] = u /\ Unreached(u)
        /\ \A j \in i + 1 .. Len(finalise) : ~Unreached(finalise[j])
        /\ finalise' = RemoveAt(finalise, i)

\* usertype_alloc_destruct, unique_destruct or the bound destructor.
Finalise(o) ==
    LET call == gc[held[o]]
    IN /\ TakeYoungest(o)
       /\ content' = [content EXCEPT ![o] =
              IF call = None THEN IF @ = "object" THEN "lost" ELSE @
              ELSE IF @ = "object" THEN "destroyed" ELSE "ruined"]
       /\ stale' = (stale \/ (call \in Storages /\ storage[call] # "live"))
       /\ table' = table \ {o} /\ reachable' = reachable \ {o}
       /\ UNCHANGED <<held, tables, phase>>

\* destruct_usertype_storage.
FinaliseStorage(s) ==
    /\ TakeYoungest(s)
    /\ storage' = [storage EXCEPT ![s] = "gone"]
    /\ reachable' = reachable \ {s}
    /\ UNCHANGED <<held, content, table, gc, exists, stale, phase>>

\* A userdata that was not marked is just freed.
Free(o) ==
    /\ Unreached(o) /\ content[o] \in {"object", "pointer"}
    /\ \A i \in DOMAIN finalise : finalise[i] # o
    /\ content' = [content EXCEPT ![o] = IF @ = "object" THEN "lost" ELSE "freed"]
    /\ table' = table \ {o} /\ reachable' = reachable \ {o}
    /\ UNCHANGED <<held, finalise, tables, stale, phase>>

\* lua_close, called outside of any call into Lua: no object is half made.
Close ==
    /\ phase = "open"
    /\ \A o \in Objects : content[o] # "bytes"
    /\ phase' = "closing"
    /\ UNCHANGED <<held, content, table, reachable, finalise, tables, stale>>

Closed ==
    /\ phase = "closing" /\ finalise = <<>>
    /\ \A o \in Objects : content[o] \notin {"object", "pointer"}
    /\ phase' = "closed"
    /\ UNCHANGED <<held, content, table, reachable, finalise, tables, stale>>

Next ==
    \/ \E o \in Objects :
          \/ \E h \in Holdings : Allocate(o, h)
          \/ SetMetatable(o) \/ Construct(o)
          \/ Drop(o) \/ Finalise(o) \/ Free(o)
    \/ \E o \in Failing : ConstructFails(o)
    \/ \E s \in Storages :
          \/ Register(s) \/ BindDestructor(s) \/ Unregister(s)
          \/ FinaliseStorage(s)
    \/ Close \/ Closed

Spec == Init /\ [][Next]_vars

\* lua_close runs every finaliser before it returns.
ClosingSpec ==
    /\ Spec
    /\ WF_vars(phase = "closing" /\ Next)

-----------------------------------------------------------------------------
(* Properties. *)

\* A userdata is marked or reachable only when it exists, and the custom
\* __gc belongs to some registration.
TypeOK ==
    /\ held \in [Objects -> Holdings] /\ content \in [Objects -> Contents]
    /\ table \subseteq Objects /\ reachable \subseteq Objects \cup Storages
    /\ finalise \in Seq(Objects \cup Storages)
    /\ gc \in [Holdings -> {None, Default} \cup Storages]
    /\ exists \subseteq Holdings
    /\ storage \in [Storages -> {"unused", "live", "cleared", "gone"}]
    /\ stale \in BOOLEAN /\ phase \in {"open", "closing", "closed"}

\* A destructor only ever runs on an object that was constructed and not
\* destroyed before, whatever the collector and the program do meanwhile, and
\* never on one the program only lent by a pointer.
\* (The types of the state are part of it.)
OnlyObjectsDestroyed == TypeOK /\ \A o \in Objects : content[o] # "ruined"

\* No object's memory is released without its destructor having run.
NoObjectLost == \A o \in Objects : content[o] # "lost"

\* No __gc runs after the storage that owns its function has gone.
FinalisersHaveTheirBindings == ~stale

\* Once lua_close was called every object Lua owns is destroyed, also those a
\* registration came after, and every pointer it was lent is given up.
AllDestroyedInTheEnd ==
    [](phase = "closing" =>
         <>(\A o \in Objects : content[o] \in {"none", "destroyed", "freed"}))
=============================================================================

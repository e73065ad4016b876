---------------------------- MODULE LuaRegistry ----------------------------
(***************************************************************************)
(* The part of a Lua state that sol's references rest on: the registry     *)
(* table with the integer keys luaL_ref hands out and luaL_unref takes     *)
(* back.  It is code of Lua 5.3's lauxlib, outside src/, modelled from how *)
(* reference.hpp uses it.                                                  *)
(*                                                                         *)
(* A registry is a record: `size' slots were ever handed out, `head' is    *)
(* the first free slot (Nil when there is none) and cell[s] is what slot s *)
(* holds.  A FREED slot does not keep the object it held: it holds the     *)
(* number of the next free slot, an ordinary Lua integer for whoever still *)
(* reads it, or Nil at the end of the list.                                *)
(***************************************************************************)
EXTENDS Integers

CONSTANTS Values,    \* collectable Lua objects
          Nil,       \* Lua's nil
          MaxSlots   \* bound: slots a registry may grow to

ASSUME RegistryAssumption ==
    /\ MaxSlots \in Nat \ {0}
    /\ Nil \notin Values
    /\ Nil \notin Int
    /\ Values \cap Int = {}

LUA_NOREF  == -2
LUA_REFNIL == -1

Slots   == 1 .. MaxSlots
Content == Values \cup Slots \cup {Nil}
Refs    == Slots \cup {LUA_NOREF, LUA_REFNIL}

Registry == [size : 0 .. MaxSlots,
             head : Slots \cup {Nil},
             cell : [Slots -> Content]]

EmptyRegistry == [size |-> 0, head |-> Nil, cell |-> [s \in Slots |-> Nil]]

\* The slots whose content is an object rather than a free-list link.
Occupied(r) == {s \in Slots : r.cell[s] \in Values}

\* luaL_ref can hand out a slot without growing past the bound.
HasRoom(r) == r.head # Nil \/ r.size < MaxSlots

\* luaL_ref of a non-nil v: the slot it uses, and the registry afterwards.
NextSlot(r) == IF r.head # Nil THEN r.head ELSE r.size + 1

luaL_ref(r, v) ==
    [size |-> IF r.head # Nil THEN r.size ELSE r.size + 1,
     head |-> IF r.head # Nil THEN r.cell[r.head] ELSE Nil,
     cell |-> [r.cell EXCEPT ![NextSlot(r)] = v]]

\* luaL_unref of slot s: s becomes the head of the free list.
luaL_unref(r, s) ==
    [size |-> r.size, head |-> s, cell |-> [r.cell EXCEPT ![s] = r.head]]

(***************************************************************************)
(* The free list is sound: it stays within the slots handed out that hold  *)
(* no object, no two slots link to the same one, and nothing links to the  *)
(* head.  Following the links therefore never meets a slot twice.          *)
(***************************************************************************)
FreeSlots(r) == {s \in 1 .. r.size : r.cell[s] \notin Values}

FreeListSound(r) ==
    /\ r.head \in FreeSlots(r) \cup {Nil}
    /\ \A s \in FreeSlots(r) :
          /\ r.cell[s] \in FreeSlots(r) \cup {Nil}
          /\ r.cell[s] # Nil => r.cell[s] # r.head
    /\ \A s, t \in FreeSlots(r) :
          s # t /\ r.cell[s] # Nil => r.cell[s] # r.cell[t]
    /\ \A s \in Slots : s > r.size => r.cell[s] = Nil
============================================================================

------------------------- MODULE SolReferenceProof -------------------------
(***************************************************************************)
(* Proofs about SolReference, for any number of handles, threads, states   *)
(* and objects, and for programs that make no unusual use of the API       *)
(* (Uses = {}).                                                            *)
(*                                                                         *)
(* The argument: the handles that own a slot and the registries they own   *)
(* slots in are related by Sound, a predicate on explicit values.  Each    *)
(* building block of the code (release a slot, acquire one, steal one)     *)
(* preserves it with one owner less, more or replaced; every operation is  *)
(* a sequence of these blocks.                                             *)
(***************************************************************************)
EXTENDS SolReference, TLAPS

-----------------------------------------------------------------------------
(* The registry.                                                           *)

(***************************************************************************)
(* luaL_ref hands out a slot that held no object, stores the object in it  *)
(* and touches no other slot.                                              *)
(***************************************************************************)
LEMMA RefLemma ==
    ASSUME NEW r \in Registry, FreeListSound(r), HasRoom(r),
           NEW v \in Values
    PROVE  /\ NextSlot(r) \in Slots
           /\ NextSlot(r) \notin Occupied(r)
           /\ luaL_ref(r, v) \in Registry
           /\ FreeListSound(luaL_ref(r, v))
           /\ luaL_ref(r, v).cell[NextSlot(r)] = v
           /\ \A s \in Slots : s # NextSlot(r) =>
                 luaL_ref(r, v).cell[s] = r.cell[s]
<1>1. /\ r.size \in 0 .. MaxSlots
      /\ r.head \in Slots \cup {Nil}
      /\ r.cell \in [Slots -> Content]
  BY DEF Registry
<1>2. FreeSlots(r) \subseteq Slots
  BY <1>1, RegistryAssumption DEF FreeSlots, Slots
<1>a. MaxSlots \in Nat /\ Nil \notin Int /\ Nil \notin Values
      /\ Values \cap Int = {}
  BY RegistryAssumption
<1>3. CASE r.head # Nil
  <2>1. r.head \in FreeSlots(r)
    BY <1>3 DEF FreeListSound
  <2>2. NextSlot(r) = r.head /\ r.head \in Slots
    BY <1>2, <1>3, <2>1 DEF NextSlot
  <2>3. r.cell[r.head] \in FreeSlots(r) \cup {Nil} /\ r.cell[r.head] \notin Values
    BY <2>1 DEF FreeListSound, FreeSlots
  <2>4. /\ luaL_ref(r, v).size = r.size
        /\ luaL_ref(r, v).head = r.cell[r.head]
        /\ luaL_ref(r, v).cell = [r.cell EXCEPT ![r.head] = v]
    BY <1>3, <2>2 DEF luaL_ref
  <2>5. luaL_ref(r, v) \in Registry
    BY <1>1, <1>2, <2>2, <2>3, <2>4 DEF Registry, luaL_ref, Content
  <2>6. FreeSlots(luaL_ref(r, v)) = FreeSlots(r) \ {r.head}
    <3>1. FreeSlots(luaL_ref(r, v)) =
             {s \in 1 .. r.size : [r.cell EXCEPT ![r.head] = v][s] \notin Values}
      BY <2>4 DEF FreeSlots
    <3>2. 1 .. r.size \subseteq Slots
      BY <1>1, <1>a DEF Slots
    <3> QED BY <1>1, <2>2, <3>1, <3>2 DEF FreeSlots
  <2>7. r.cell[r.head] # r.head
    BY <1>3, <2>1 DEF FreeListSound
  <2>a. \A s \in FreeSlots(r) \ {r.head} : luaL_ref(r, v).cell[s] = r.cell[s]
    BY <1>1, <1>2, <2>2, <2>4
  <2>b. \A s \in FreeSlots(r) :
           /\ r.cell[s] \in FreeSlots(r) \cup {Nil}
           /\ r.cell[s] # Nil => r.cell[s] # r.head
    BY DEF FreeListSound
  <2>c. \A s, t \in FreeSlots(r) :
           s # t /\ r.cell[s] # Nil => r.cell[s] # r.cell[t]
    BY DEF FreeListSound
  <2>d. \A s \in Slots : s > r.size => luaL_ref(r, v).cell[s] = Nil
    <3> SUFFICES ASSUME NEW s \in Slots, s > r.size
                 PROVE  luaL_ref(r, v).cell[s] = Nil
      OBVIOUS
    <3>1. r.head \in 1 .. r.size
      BY <2>1 DEF FreeSlots
    <3>2. s # r.head
      BY <1>1, <1>a, <3>1 DEF Slots
    <3>3. r.cell[s] = Nil
      BY DEF FreeListSound
    <3> QED BY <1>1, <2>4, <3>2, <3>3
  <2>8. FreeListSound(luaL_ref(r, v))
    <3>1. r.cell[r.head] \in (FreeSlots(r) \ {r.head}) \cup {Nil}
      BY <2>3, <2>7
    <3>2. \A s \in FreeSlots(r) \ {r.head} :
             r.cell[s] # Nil => r.cell[s] # r.cell[r.head]
      BY <2>1, <2>c
    <3> QED BY <2>4, <2>6, <2>a, <2>b, <2>c, <2>d, <3>1, <3>2 DEF FreeListSound
  <2> QED
    BY <1>1, <2>1, <2>2, <2>3, <2>4, <2>5, <2>8 DEF Occupied, FreeSlots
<1>4. CASE r.head = Nil
  <2>1. NextSlot(r) = r.size + 1 /\ NextSlot(r) \in Slots
    BY <1>1, <1>4, <1>a DEF NextSlot, HasRoom, Slots
  <2>2. r.cell[NextSlot(r)] = Nil
    BY <1>1, <2>1, <1>a DEF FreeListSound, Slots
  <2>3. /\ luaL_ref(r, v).size = r.size + 1
        /\ luaL_ref(r, v).head = Nil
        /\ luaL_ref(r, v).cell = [r.cell EXCEPT ![r.size + 1] = v]
    BY <1>4, <2>1 DEF luaL_ref
  <2>4. luaL_ref(r, v) \in Registry
    BY <1>1, <1>4, <1>a, <2>1, <2>3 DEF Registry, luaL_ref, Content, Slots
  <2>5. FreeSlots(luaL_ref(r, v)) = FreeSlots(r)
    BY <1>1, <1>2, <1>a, <2>1, <2>3 DEF FreeSlots, Slots
  <2>a. NextSlot(r) \notin FreeSlots(r)
    BY <1>1, <2>1 DEF FreeSlots
  <2>b. \A s \in FreeSlots(r) : luaL_ref(r, v).cell[s] = r.cell[s]
    BY <1>1, <1>2, <2>1, <2>3, <2>a
  <2>c. \A s \in Slots : s > r.size + 1 => luaL_ref(r, v).cell[s] = Nil
    <3> SUFFICES ASSUME NEW s \in Slots, s > r.size + 1
                 PROVE  luaL_ref(r, v).cell[s] = Nil
      OBVIOUS
    <3>1. s > r.size /\ s # r.size + 1
      BY <1>1, <1>a DEF Slots
    <3>2. r.cell[s] = Nil
      BY <3>1 DEF FreeListSound
    <3> QED BY <1>1, <2>3, <3>1, <3>2
  <2>6. FreeListSound(luaL_ref(r, v))
    <3>1. \A s \in FreeSlots(r) : r.cell[s] \in FreeSlots(r) \cup {Nil}
      BY DEF FreeListSound
    <3>2. \A s, t \in FreeSlots(r) :
             s # t /\ r.cell[s] # Nil => r.cell[s] # r.cell[t]
      BY DEF FreeListSound
    <3>3. Nil \notin FreeSlots(r)
      BY <1>2, <1>a DEF Slots
    <3> QED BY <2>3, <2>5, <2>b, <2>c, <3>1, <3>2, <3>3 DEF FreeListSound
  <2> QED
    BY <1>1, <1>a, <2>1, <2>2, <2>3, <2>4, <2>6 DEF Occupied
<1> QED BY <1>3, <1>4

(***************************************************************************)
(* luaL_unref of a slot that holds an object frees that slot and touches   *)
(* no other.                                                               *)
(***************************************************************************)
LEMMA UnrefLemma ==
    ASSUME NEW r \in Registry, FreeListSound(r), NEW s \in Occupied(r)
    PROVE  /\ luaL_unref(r, s) \in Registry
           /\ FreeListSound(luaL_unref(r, s))
           /\ luaL_unref(r, s).cell[s] \notin Values
           /\ \A q \in Slots : q # s => luaL_unref(r, s).cell[q] = r.cell[q]
<1>1. /\ r.size \in 0 .. MaxSlots
      /\ r.head \in Slots \cup {Nil}
      /\ r.cell \in [Slots -> Content]
      /\ s \in Slots /\ r.cell[s] \in Values
  BY DEF Registry, Occupied
<1>a. MaxSlots \in Nat /\ Nil \notin Int /\ Nil \notin Values
      /\ Values \cap Int = {}
  BY RegistryAssumption
<1>2. s \in 1 .. r.size /\ s \notin FreeSlots(r)
  BY <1>1, <1>a DEF FreeListSound, FreeSlots, Slots
<1>3. /\ luaL_unref(r, s) = [size |-> r.size, head |-> s,
                              cell |-> [r.cell EXCEPT ![s] = r.head]]
  BY DEF luaL_unref
<1>4. r.head \notin Values /\ r.head # s
  BY <1>1, <1>2, <1>a DEF FreeListSound, Slots
<1>5. luaL_unref(r, s) \in Registry
  BY <1>1, <1>3 DEF Registry, Content
<1>6. FreeSlots(luaL_unref(r, s)) = FreeSlots(r) \cup {s}
  BY <1>1, <1>2, <1>3, <1>4, <1>a DEF FreeSlots, Slots
<1>7. FreeListSound(luaL_unref(r, s))
  BY <1>1, <1>2, <1>3, <1>4, <1>6, <1>a DEF FreeListSound, FreeSlots, Slots
<1>8. luaL_unref(r, s).cell = [r.cell EXCEPT ![s] = r.head]
  BY <1>3
<1>9. /\ luaL_unref(r, s).cell[s] \notin Values
      /\ \A q \in Slots : q # s => luaL_unref(r, s).cell[q] = r.cell[q]
  BY <1>1, <1>4, <1>8
<1> QED BY <1>5, <1>7, <1>9

-----------------------------------------------------------------------------
(* Owners and registries.                                                  *)

Held(rf, ls, rg, h) == rg[StateOf[ls[h]]].cell[rf[h]]

(***************************************************************************)
(* O are the handles that own a slot, rf and ls their ref and luastate, rg *)
(* the registries and lv the live objects.                                 *)
(***************************************************************************)
Sound(O, rf, ls, rg, lv) ==
    /\ rg \in [States -> Registry]
    /\ \A u \in States : FreeListSound(rg[u])
    /\ \A h \in O : /\ rf[h] \in Slots
                    /\ ls[h] \in Threads
                    /\ Held(rf, ls, rg, h) \in Values
                    /\ Held(rf, ls, rg, h) \in lv
                    /\ Home[Held(rf, ls, rg, h)] = StateOf[ls[h]]
    /\ \A h, g \in O : h # g /\ rf[h] = rf[g] => StateOf[ls[h]] # StateOf[ls[g]]
    /\ \A u \in States : \A s \in Occupied(rg[u]) :
          \E h \in O : StateOf[ls[h]] = u /\ rf[h] = s

\* h holds x.
Holds(rf, ls, rg, h, x) == Held(rf, ls, rg, h) = x

\* The handles of O hold what they held before.
SameHeld(O, rf, ls, rg, rf2, ls2, rg2) ==
    \A h \in O : Held(rf2, ls2, rg2, h) = Held(rf, ls, rg, h)

(***************************************************************************)
(* deref(): without its slot the handle is no longer an owner, and the     *)
(* other owners still hold what they held.                                 *)
(***************************************************************************)
LEMMA ReleaseLemma ==
    ASSUME NEW O, NEW rf, NEW ls, NEW rg, NEW lv, NEW h \in O,
           Sound(O, rf, ls, rg, lv)
    PROVE  /\ Sound(O \ {h}, rf, ls, Freed(rg, StateOf[ls[h]], rf[h]), lv)
           /\ SameHeld(O \ {h}, rf, ls, rg,
                       rf, ls, Freed(rg, StateOf[ls[h]], rf[h]))
<1> DEFINE u == StateOf[ls[h]]
           rg2 == Freed(rg, u, rf[h])
<1>1. /\ rf[h] \in Slots /\ ls[h] \in Threads
      /\ rg \in [States -> Registry]
      /\ rg[u].cell[rf[h]] \in Values
  BY DEF Sound, Held
<1>2. u \in States
  BY <1>1, ReferenceAssumption
<1>3. rg[u] \in Registry /\ FreeListSound(rg[u]) /\ rf[h] \in Occupied(rg[u])
  BY <1>1, <1>2 DEF Sound, Occupied
<1> DEFINE r2 == luaL_unref(rg[u], rf[h])
<1>4. /\ r2 \in Registry
      /\ FreeListSound(r2)
      /\ r2.cell[rf[h]] \notin Values
      /\ \A q \in Slots : q # rf[h] => r2.cell[q] = rg[u].cell[q]
  BY <1>3, UnrefLemma
<1>5. rg2 = [rg EXCEPT ![u] = r2]
  BY DEF Freed
<1> HIDE DEF r2, rg2
<1>6. /\ rg2 \in [States -> Registry]
      /\ rg2[u] = r2
      /\ \A w \in States : w # u => rg2[w] = rg[w]
  BY <1>1, <1>2, <1>4, <1>5
<1>7. \A g \in O \ {h} : Held(rf, ls, rg2, g) = Held(rf, ls, rg, g)
  <2> SUFFICES ASSUME NEW g \in O \ {h}
               PROVE  Held(rf, ls, rg2, g) = Held(rf, ls, rg, g)
    OBVIOUS
  <2>1. rf[g] \in Slots /\ ls[g] \in Threads /\ StateOf[ls[g]] \in States
    BY ReferenceAssumption DEF Sound
  <2>2. CASE StateOf[ls[g]] = u
    <3>1. rf[g] # rf[h]
      BY <2>2 DEF Sound
    <3> QED BY <1>4, <1>6, <2>1, <2>2, <3>1 DEF Held
  <2>3. CASE StateOf[ls[g]] # u
    BY <1>6, <2>1, <2>3 DEF Held
  <2> QED BY <2>2, <2>3
<1>8. \A w \in States : \A s \in Occupied(rg2[w]) :
         \E g \in O \ {h} : StateOf[ls[g]] = w /\ rf[g] = s
  <2> SUFFICES ASSUME NEW w \in States, NEW s \in Occupied(rg2[w])
               PROVE  \E g \in O \ {h} : StateOf[ls[g]] = w /\ rf[g] = s
    OBVIOUS
  <2>1. s \in Occupied(rg[w]) /\ ~(w = u /\ s = rf[h])
    BY <1>4, <1>6 DEF Occupied
  <2> QED BY <2>1 DEF Sound
<1>9. \A w \in States : FreeListSound(rg2[w])
  BY <1>4, <1>6 DEF Sound
<1>10. Sound(O \ {h}, rf, ls, rg2, lv)
  <2> HIDE DEF u
  <2> QED BY <1>6, <1>7, <1>8, <1>9 DEF Sound
<1>11. SameHeld(O \ {h}, rf, ls, rg, rf, ls, rg2)
  BY <1>7 DEF SameHeld
<1> QED BY <1>10, <1>11 DEF rg2

\* h, no owner among O, goes from rf and ls to rf2 and ls2 by taking the next
\* slot of state u for x.
Takes(O, rf, ls, rg, lv, h, u, x, rf2, ls2) ==
    /\ Sound(O, rf, ls, rg, lv)
    /\ h \notin O
    /\ u \in States
    /\ x \in Values /\ x \in lv /\ Home[x] = u
    /\ HasRoom(rg[u])
    /\ rf2[h] = NextSlot(rg[u])
    /\ ls2[h] \in Threads /\ StateOf[ls2[h]] = u
    /\ \A g \in O : rf2[g] = rf[g] /\ ls2[g] = ls[g]

(***************************************************************************)
(* luaL_ref for a handle that owns nothing: it becomes the one owner of    *)
(* the slot, and the others still hold what they held.                     *)
(***************************************************************************)
LEMMA AcquireLemma ==
    ASSUME NEW O, NEW rf, NEW ls, NEW rg, NEW lv, NEW h, NEW u, NEW x,
           NEW rf2, NEW ls2,
           Takes(O, rf, ls, rg, lv, h, u, x, rf2, ls2)
    PROVE  /\ Sound(O \cup {h}, rf2, ls2, Stored(rg, u, x), lv)
           /\ Holds(rf2, ls2, Stored(rg, u, x), h, x)
           /\ SameHeld(O, rf, ls, rg, rf2, ls2, Stored(rg, u, x))
<1> DEFINE k == NextSlot(rg[u])
           r2 == luaL_ref(rg[u], x)
           rg2 == Stored(rg, u, x)
<1>a. /\ Sound(O, rf, ls, rg, lv)
      /\ h \notin O
      /\ u \in States
      /\ x \in Values /\ x \in lv /\ Home[x] = u
      /\ HasRoom(rg[u])
      /\ rf2[h] = NextSlot(rg[u])
      /\ ls2[h] \in Threads /\ StateOf[ls2[h]] = u
      /\ \A g \in O : rf2[g] = rf[g] /\ ls2[g] = ls[g]
  BY DEF Takes
<1>1. rg \in [States -> Registry] /\ rg[u] \in Registry /\ FreeListSound(rg[u])
  BY <1>a DEF Sound
<1>2. /\ k \in Slots
      /\ k \notin Occupied(rg[u])
      /\ r2 \in Registry
      /\ FreeListSound(r2)
      /\ r2.cell[k] = x
      /\ \A s \in Slots : s # k => r2.cell[s] = rg[u].cell[s]
  BY <1>a, <1>1, RefLemma
<1>3. rf2[h] = k /\ rg2 = [rg EXCEPT ![u] = r2]
  BY <1>a DEF Stored
<1> HIDE DEF k, r2, rg2
<1>4. /\ rg2 \in [States -> Registry]
      /\ rg2[u] = r2
      /\ \A w \in States : w # u => rg2[w] = rg[w]
  BY <1>a, <1>1, <1>2, <1>3
<1>5. \A g \in O : /\ rf[g] \in Slots /\ ls[g] \in Threads
                   /\ StateOf[ls[g]] \in States
                   /\ StateOf[ls[g]] = u => rf[g] # k
  BY <1>a, <1>2, ReferenceAssumption DEF Sound, Held, Occupied
<1>6. \A g \in O : Held(rf2, ls2, rg2, g) = Held(rf, ls, rg, g)
  <2> SUFFICES ASSUME NEW g \in O
               PROVE  Held(rf2, ls2, rg2, g) = Held(rf, ls, rg, g)
    OBVIOUS
  <2>1. CASE StateOf[ls[g]] = u
    BY <1>a, <1>2, <1>4, <1>5, <2>1 DEF Held
  <2>2. CASE StateOf[ls[g]] # u
    BY <1>a, <1>4, <1>5, <2>2 DEF Held
  <2> QED BY <2>1, <2>2
<1>7. Held(rf2, ls2, rg2, h) = x
  BY <1>a, <1>2, <1>3, <1>4 DEF Held
<1>8. \A w \in States : \A s \in Occupied(rg2[w]) :
         \E g \in O \cup {h} : StateOf[ls2[g]] = w /\ rf2[g] = s
  <2> SUFFICES ASSUME NEW w \in States, NEW s \in Occupied(rg2[w])
               PROVE  \E g \in O \cup {h} : StateOf[ls2[g]] = w /\ rf2[g] = s
    OBVIOUS
  <2>1. CASE w = u /\ s = k
    BY <1>a, <1>3, <2>1
  <2>2. CASE ~(w = u /\ s = k)
    <3>1. s \in Occupied(rg[w])
      BY <1>a, <1>2, <1>4, <2>2 DEF Occupied
    <3> QED BY <1>a, <3>1 DEF Sound
  <2> QED BY <2>1, <2>2
<1>9. \A w \in States : FreeListSound(rg2[w])
  BY <1>a, <1>2, <1>4 DEF Sound
<1>10. \A g \in O \cup {h} : /\ rf2[g] \in Slots
                             /\ ls2[g] \in Threads
                             /\ Held(rf2, ls2, rg2, g) \in Values
                             /\ Held(rf2, ls2, rg2, g) \in lv
                             /\ Home[Held(rf2, ls2, rg2, g)] = StateOf[ls2[g]]
  <2> SUFFICES ASSUME NEW g \in O \cup {h}
               PROVE  /\ rf2[g] \in Slots
                      /\ ls2[g] \in Threads
                      /\ Held(rf2, ls2, rg2, g) \in Values
                      /\ Held(rf2, ls2, rg2, g) \in lv
                      /\ Home[Held(rf2, ls2, rg2, g)] = StateOf[ls2[g]]
    OBVIOUS
  <2>1. CASE g = h
    BY <1>a, <1>2, <1>3, <1>7, <2>1
  <2>2. CASE g \in O
    <3>1. Held(rf2, ls2, rg2, g) = Held(rf, ls, rg, g)
      BY <1>a, <1>6, <2>2
    <3> QED BY <1>a, <2>2, <3>1 DEF Sound
  <2> QED BY <2>1, <2>2
<1>11. \A f, g \in O \cup {h} :
          f # g /\ rf2[f] = rf2[g] => StateOf[ls2[f]] # StateOf[ls2[g]]
  BY <1>a, <1>3, <1>5 DEF Sound
<1>12. Sound(O \cup {h}, rf2, ls2, rg2, lv)
  BY <1>a, <1>4, <1>8, <1>9, <1>10, <1>11 DEF Sound
<1>13. Holds(rf2, ls2, rg2, h, x) /\ SameHeld(O, rf, ls, rg, rf2, ls2, rg2)
  BY <1>a, <1>6, <1>7 DEF Holds, SameHeld
<1> QED BY <1>12, <1>13 DEF rg2

(***************************************************************************)
(* A move: h takes the slot of g over, within the same Lua state.          *)
(***************************************************************************)
LEMMA StealLemma ==
    ASSUME NEW O, NEW rf, NEW ls, NEW rg, NEW lv, NEW h, NEW g \in O,
           h = g \/ h \notin O,
           Sound(O, rf, ls, rg, lv),
           NEW rf2, NEW ls2,
           rf2[h] = rf[g], ls2[h] \in Threads, StateOf[ls2[h]] = StateOf[ls[g]],
           \A f \in O \ {g} : rf2[f] = rf[f] /\ ls2[f] = ls[f]
    PROVE  /\ Sound((O \ {g}) \cup {h}, rf2, ls2, rg, lv)
           /\ Holds(rf2, ls2, rg, h, Held(rf, ls, rg, g))
           /\ SameHeld(O \ {g}, rf, ls, rg, rf2, ls2, rg)
<1> DEFINE O2 == (O \ {g}) \cup {h}
<1>1. /\ Held(rf2, ls2, rg, h) = Held(rf, ls, rg, g)
      /\ \A f \in O \ {g} : Held(rf2, ls2, rg, f) = Held(rf, ls, rg, f)
  BY DEF Held
<1>2. \A f \in O2 : /\ rf2[f] \in Slots
                    /\ ls2[f] \in Threads
                    /\ Held(rf2, ls2, rg, f) \in Values
                    /\ Held(rf2, ls2, rg, f) \in lv
                    /\ Home[Held(rf2, ls2, rg, f)] = StateOf[ls2[f]]
  BY <1>1 DEF Sound
<1>3. \A f, e \in O2 :
         f # e /\ rf2[f] = rf2[e] => StateOf[ls2[f]] # StateOf[ls2[e]]
  BY DEF Sound
<1>4. \A u \in States : \A s \in Occupied(rg[u]) :
         \E f \in O2 : StateOf[ls2[f]] = u /\ rf2[f] = s
  <2> SUFFICES ASSUME NEW u \in States, NEW s \in Occupied(rg[u])
               PROVE  \E f \in O2 : StateOf[ls2[f]] = u /\ rf2[f] = s
    OBVIOUS
  <2>1. PICK f \in O : StateOf[ls[f]] = u /\ rf[f] = s
    BY DEF Sound
  <2> QED BY <2>1
<1>5. rg \in [States -> Registry] /\ \A u \in States : FreeListSound(rg[u])
  BY DEF Sound
<1> HIDE DEF O2
<1>6. Sound(O2, rf2, ls2, rg, lv)
  BY <1>2, <1>3, <1>4, <1>5 DEF Sound
<1>7. /\ Holds(rf2, ls2, rg, h, Held(rf, ls, rg, g))
      /\ SameHeld(O \ {g}, rf, ls, rg, rf2, ls2, rg)
  BY <1>1 DEF Holds, SameHeld
<1> QED BY <1>6, <1>7 DEF O2

(***************************************************************************)
(* Only the owners' own fields matter.                                     *)
(***************************************************************************)
LEMMA FrameLemma ==
    ASSUME NEW O, NEW rf, NEW ls, NEW rg, NEW lv, Sound(O, rf, ls, rg, lv),
           NEW rf2, NEW ls2,
           \A g \in O : rf2[g] = rf[g] /\ ls2[g] = ls[g]
    PROVE  /\ Sound(O, rf2, ls2, rg, lv)
           /\ SameHeld(O, rf, ls, rg, rf2, ls2, rg)
<1>1. \A g \in O : Held(rf2, ls2, rg, g) = Held(rf, ls, rg, g)
  BY DEF Held
<1>2. SameHeld(O, rf, ls, rg, rf2, ls2, rg)
  BY <1>1 DEF SameHeld
<1> QED BY <1>1, <1>2 DEF Sound

-----------------------------------------------------------------------------
(* The inductive invariant.                                                *)

IInv ==
    /\ TypeOK
    /\ roots \subseteq live
    /\ \A h \in Handles \ objs : ref[h] = LUA_NOREF /\ luastate[h] = Null
    /\ Sound(Owners, ref, luastate, regs, live)
    /\ MainHandlesUseMainThread

(***************************************************************************)
(* What ReferenceAssumption and RegistryAssumption say of threads, states  *)
(* and registries, in the form the lemmas below use it.                    *)
(***************************************************************************)
LEMMA RefConstants ==
    /\ LUA_NOREF # LUA_REFNIL
    /\ LUA_NOREF \notin Slots /\ LUA_REFNIL \notin Slots
    /\ Nil \notin Values /\ None \notin Values /\ Dead \notin Values
    /\ None # Nil /\ Dead # Nil /\ None # Dead
    /\ MainThreads \subseteq Threads
    /\ Null \notin Threads
BY RegistryAssumption, ReferenceAssumption
   DEF LUA_NOREF, LUA_REFNIL, Slots, MainThreads

(***************************************************************************)
(* What a constructed handle pushes and denotes.                           *)
(***************************************************************************)
LEMMA PushedLemma ==
    ASSUME IInv, NEW g \in objs
    PROVE  /\ g \in Handles
           /\ valid(g) => /\ g \in Owners
                          /\ luastate[g] \in Threads
                          /\ StateOf[luastate[g]] \in States
                          /\ Pushed(regs, g) = Held(ref, luastate, regs, g)
                          /\ Pushed(regs, g) \in Values
                          /\ Pushed(regs, g) \in live
                          /\ Home[Pushed(regs, g)] = StateOf[luastate[g]]
           /\ ~valid(g) => Pushed(regs, g) = Nil
           /\ denotes[g] = IF ref[g] = LUA_NOREF THEN None
                           ELSE Pushed(regs, g)
           /\ denotes[g] # Dead
<1>1. g \in Handles
  BY DEF IInv, TypeOK
<1>2. ASSUME valid(g)
      PROVE  /\ g \in Owners
             /\ luastate[g] \in Threads
             /\ StateOf[luastate[g]] \in States
             /\ Pushed(regs, g) = Held(ref, luastate, regs, g)
             /\ Pushed(regs, g) \in Values
             /\ Pushed(regs, g) \in live
             /\ Home[Pushed(regs, g)] = StateOf[luastate[g]]
  <2>1. g \in Owners
    BY <1>2 DEF Owners
  <2>2. luastate[g] \in Threads /\ luastate[g] # Null
    BY <2>1, RefConstants DEF IInv, Sound
  <2>3. Pushed(regs, g) = Held(ref, luastate, regs, g)
    BY <1>2, <2>2 DEF Pushed, Held
  <2> QED BY <2>1, <2>2, <2>3, ReferenceAssumption DEF IInv, Sound
<1>3. ~valid(g) => Pushed(regs, g) = Nil
  BY DEF Pushed
<1>4. denotes[g] = IF ref[g] = LUA_NOREF THEN None ELSE Pushed(regs, g)
  BY <1>1 DEF denotes
<1>5. denotes[g] # Dead
  BY <1>2, <1>3, <1>4, RefConstants
<1> QED BY <1>1, <1>2, <1>3, <1>4, <1>5

(***************************************************************************)
(* Releasing h's slot leaves the other handles as they were; a handle not  *)
(* yet constructed has none to release.                                    *)
(***************************************************************************)
LEMMA DerefLemma ==
    ASSUME IInv, NEW h \in Handles
    PROVE  /\ Sound(Owners \ {h}, ref, luastate, Derefed(h), live)
           /\ SameHeld(Owners \ {h}, ref, luastate, regs,
                       ref, luastate, Derefed(h))
           /\ h \notin objs => Derefed(h) = regs
           /\ \A g \in objs \ {h} : Pushed(Derefed(h), g) = Pushed(regs, g)
<1>1. CASE h \in Owners
  <2>1. valid(h) /\ luastate[h] # Null /\ h \in objs
    BY <1>1, RefConstants DEF Owners, IInv, Sound
  <2>2. Derefed(h) = Freed(regs, StateOf[luastate[h]], ref[h])
    BY <2>1 DEF Derefed
  <2>3. /\ Sound(Owners \ {h}, ref, luastate, Derefed(h), live)
        /\ SameHeld(Owners \ {h}, ref, luastate, regs,
                    ref, luastate, Derefed(h))
    <3>1. Sound(Owners, ref, luastate, regs, live)
      BY DEF IInv
    <3> QED BY <1>1, <2>2, <3>1, ReleaseLemma
  <2>4. \A g \in objs \ {h} : Pushed(Derefed(h), g) = Pushed(regs, g)
    <3> SUFFICES ASSUME NEW g \in objs \ {h}
                 PROVE  Pushed(Derefed(h), g) = Pushed(regs, g)
      OBVIOUS
    <3>1. CASE valid(g)
      <4>1. g \in Owners \ {h}
        BY <3>1 DEF Owners
      <4>2. Held(ref, luastate, Derefed(h), g) = Held(ref, luastate, regs, g)
        BY <2>3, <4>1 DEF SameHeld
      <4> QED BY <4>2 DEF Pushed, Held
    <3>2. CASE ~valid(g)
      BY <3>2 DEF Pushed
    <3> QED BY <3>1, <3>2
  <2> QED BY <2>1, <2>3, <2>4
<1>2. CASE h \notin Owners
  <2>1. Derefed(h) = regs
    <3>1. CASE h \in objs
      BY <1>2, <3>1 DEF Derefed, Owners
    <3>2. CASE h \notin objs
      BY <3>2 DEF Derefed, IInv
    <3> QED BY <3>1, <3>2
  <2>2. Owners \ {h} = Owners
    BY <1>2
  <2>3. Sound(Owners \ {h}, ref, luastate, Derefed(h), live)
    BY <2>1, <2>2 DEF IInv
  <2>4. SameHeld(Owners \ {h}, ref, luastate, regs,
                 ref, luastate, Derefed(h))
    BY <2>1 DEF SameHeld
  <2> QED BY <2>1, <2>3, <2>4
<1> QED BY <1>1, <1>2

(***************************************************************************)
(* A handle that neither the step nor its lua_State change keeps its       *)
(* denotation.                                                             *)
(***************************************************************************)
LEMMA SameDenotation ==
    ASSUME NEW g \in Handles,
           g \in objs' <=> g \in objs,
           ref'[g] = ref[g], luastate'[g] = luastate[g],
           g \in Owners => Held(ref', luastate', regs', g)
                              = Held(ref, luastate, regs, g)
    PROVE  denotes'[g] = denotes[g]
<1>1. denotes'[g] = IF g \notin objs' THEN Dead
                    ELSE IF ref'[g] = LUA_NOREF THEN None
                    ELSE IF luastate'[g] = Null \/ ref'[g] \in {LUA_NOREF, LUA_REFNIL}
                         THEN Nil ELSE Held(ref', luastate', regs', g)
  BY DEF denotes, Pushed, valid, Held
<1>2. denotes[g] = IF g \notin objs THEN Dead
                   ELSE IF ref[g] = LUA_NOREF THEN None
                   ELSE IF luastate[g] = Null \/ ref[g] \in {LUA_NOREF, LUA_REFNIL}
                        THEN Nil ELSE Held(ref, luastate, regs, g)
  BY DEF denotes, Pushed, valid, Held
<1>3. CASE g \in Owners
  BY <1>1, <1>2, <1>3
<1>4. CASE g \notin Owners
  BY <1>1, <1>2, <1>4 DEF Owners, valid
<1> QED BY <1>3, <1>4

-----------------------------------------------------------------------------
(* Operations, by the building block they end with.  In each, `denotes'    *)
(* changes as the abstract specification says.                             *)

(***************************************************************************)
(* The part of the invariant a C++ operation can disturb: when slots,      *)
(* owners and main_ handles are in order afterwards, all of it holds.      *)
(***************************************************************************)
LEMMA InvStep ==
    ASSUME IInv,
           objs' \subseteq Handles,
           ref' \in [Handles -> Refs],
           luastate' \in [Handles -> Threads \cup {Null}],
           \A h \in Handles \ objs' : ref'[h] = LUA_NOREF /\ luastate'[h] = Null,
           Sound(Owners', ref', luastate', regs', live),
           \A h \in objs' \cap MainOnly : luastate'[h] \in MainThreads \cup {Null},
           UNCHANGED <<roots, live>>
    PROVE  IInv'
<1>1. regs' \in [States -> Registry]
  BY DEF Sound
<1>2. TypeOK'
  BY <1>1 DEF IInv, TypeOK
<1>3. MainHandlesUseMainThread'
  BY DEF MainHandlesUseMainThread
<1>4. Sound(Owners, ref, luastate, regs, live)'
  OBVIOUS
<1>5. (\A h \in Handles \ objs : ref[h] = LUA_NOREF /\ luastate[h] = Null)'
  OBVIOUS
<1>6. (roots \subseteq live)'
  BY DEF IInv
<1> QED BY <1>2, <1>3, <1>4, <1>5, <1>6 DEF IInv

(***************************************************************************)
(* h ends up with a slot of its own for x, or with none when x is nil.     *)
(***************************************************************************)
LEMMA AcquireStep ==
    ASSUME IInv, NEW h \in Handles, NEW x, NEW t, NEW L \in Threads \cup {Null},
           Acquire(Derefed(h), t, x, h),
           \/ x = Nil
           \/ /\ x \in Values /\ x \in live
              /\ t \in Threads /\ Home[x] = StateOf[t]
              /\ L \in Threads /\ StateOf[L] = StateOf[t],
           h \in MainOnly => L \in MainThreads \cup {Null},
           luastate' = [luastate EXCEPT ![h] = L],
           objs' = objs \cup {h},
           UNCHANGED <<roots, live>>
    PROVE  /\ IInv'
           /\ denotes' = [denotes EXCEPT ![h] = x]
<1> DEFINE O == Owners \ {h}
           rg == Derefed(h)
<1>1. /\ ref \in [Handles -> Refs]
      /\ luastate \in [Handles -> Threads \cup {Null}]
      /\ objs \subseteq Handles
  BY DEF IInv, TypeOK
<1>2. /\ Sound(O, ref, luastate, rg, live)
      /\ SameHeld(O, ref, luastate, regs, ref, luastate, rg)
  BY DerefLemma
<1>3. luastate' \in [Handles -> Threads \cup {Null}] /\ luastate'[h] = L
  BY <1>1
<1>4. h \notin O /\ \A g \in O : g \in Handles /\ g # h
  BY <1>1 DEF Owners
<1>5. \A g \in Handles : g # h => /\ luastate'[g] = luastate[g]
                                  /\ g \in objs' <=> g \in objs
  BY <1>1
<1>6. \A g \in Handles \ objs' : luastate'[g] = Null
  BY <1>5 DEF IInv
<1>7. \A g \in objs' \cap MainOnly : luastate'[g] \in MainThreads \cup {Null}
  BY <1>1, <1>3, <1>5 DEF IInv, MainHandlesUseMainThread
<1>8. CASE x = Nil
  <2>1. ref' = [ref EXCEPT ![h] = LUA_REFNIL] /\ regs' = rg
    BY <1>8 DEF Acquire
  <2>2. /\ ref' \in [Handles -> Refs]
        /\ ref'[h] = LUA_REFNIL
        /\ \A g \in Handles : g # h => ref'[g] = ref[g]
    BY <1>1, <2>1 DEF Refs
  <2>3. Owners' = O
    BY <1>1, <1>5, <2>2 DEF Owners, valid
  <2>4. \A g \in O : ref'[g] = ref[g] /\ luastate'[g] = luastate[g]
    BY <1>4, <1>5, <2>2
  <2>5. /\ Sound(O, ref', luastate', rg, live)
        /\ SameHeld(O, ref, luastate, rg, ref', luastate', rg)
    BY <1>2, <2>4, FrameLemma
  <2>6. \A g \in Handles \ objs' : ref'[g] = LUA_NOREF
    BY <1>5, <2>2 DEF IInv
  <2>7. IInv'
    BY <1>1, <1>3, <1>6, <1>7, <2>1, <2>2, <2>3, <2>5, <2>6, InvStep
  <2>8. \A g \in Handles : g # h => denotes'[g] = denotes[g]
    <3> SUFFICES ASSUME NEW g \in Handles, g # h
                 PROVE  denotes'[g] = denotes[g]
      OBVIOUS
    <3>1. g \in Owners => Held(ref', luastate', regs', g)
                             = Held(ref, luastate, regs, g)
      BY <1>2, <2>1, <2>5 DEF SameHeld
    <3> QED BY <1>5, <2>2, <3>1, SameDenotation
  <2>9. denotes'[h] = Nil
    BY <2>2, RefConstants DEF denotes, Pushed, valid
  <2> QED BY <1>8, <2>7, <2>8, <2>9 DEF denotes
<1>9. CASE x # Nil
  <2> DEFINE u == StateOf[t]
  <2>1. /\ HasRoom(rg[u])
        /\ ref' = [ref EXCEPT ![h] = NextSlot(rg[u])]
        /\ regs' = Stored(rg, u, x)
    BY <1>9 DEF Acquire
  <2>2. /\ x \in Values /\ x \in live /\ u \in States /\ Home[x] = u
        /\ L \in Threads /\ StateOf[L] = u
    BY <1>9, ReferenceAssumption
  <2> HIDE DEF u
  <2>3. /\ ref'[h] = NextSlot(rg[u])
        /\ \A g \in Handles : g # h => ref'[g] = ref[g]
    BY <1>1, <2>1
  <2>4. \A g \in O : ref'[g] = ref[g] /\ luastate'[g] = luastate[g]
    BY <1>4, <1>5, <2>3
  <2>5. /\ Sound(O \cup {h}, ref', luastate', regs', live)
        /\ Holds(ref', luastate', regs', h, x)
        /\ SameHeld(O, ref, luastate, rg, ref', luastate', regs')
    <3> HIDE DEF O, rg
    <3>1. Takes(O, ref, luastate, rg, live, h, u, x, ref', luastate')
      BY <1>2, <1>3, <1>4, <2>1, <2>2, <2>3, <2>4 DEF Takes
    <3>2. /\ Sound(O \cup {h}, ref', luastate', Stored(rg, u, x), live)
          /\ Holds(ref', luastate', Stored(rg, u, x), h, x)
          /\ SameHeld(O, ref, luastate, rg, ref', luastate', Stored(rg, u, x))
      BY <3>1, AcquireLemma
    <3> QED BY <2>1, <3>2
  <2>6. ref'[h] \in Slots
    BY <2>5 DEF Sound
  <2>7. ref' \in [Handles -> Refs]
    BY <1>1, <2>1, <2>3, <2>6 DEF Refs
  <2>8. Owners' = O \cup {h}
    BY <1>1, <1>5, <2>3, <2>6, RefConstants DEF Owners, valid
  <2>9. \A g \in Handles \ objs' : ref'[g] = LUA_NOREF
    BY <1>5, <2>3 DEF IInv
  <2>10. IInv'
    BY <1>1, <1>3, <1>6, <1>7, <2>5, <2>7, <2>8, <2>9, InvStep
  <2>11. \A g \in Handles : g # h => denotes'[g] = denotes[g]
    <3> SUFFICES ASSUME NEW g \in Handles, g # h
                 PROVE  denotes'[g] = denotes[g]
      OBVIOUS
    <3>1. g \in Owners => Held(ref', luastate', regs', g)
                             = Held(ref, luastate, regs, g)
      BY <1>2, <2>5 DEF SameHeld
    <3> QED BY <1>5, <2>3, <3>1, SameDenotation
  <2>12. denotes'[h] = x
    BY <1>3, <2>2, <2>5, <2>6, RefConstants
       DEF denotes, Pushed, valid, Holds, Held
  <2> QED BY <2>10, <2>11, <2>12 DEF denotes
<1> QED BY <1>8, <1>9

(***************************************************************************)
(* h ends up without a slot: empty, nil or destroyed.                      *)
(***************************************************************************)
LEMMA SetRefStep ==
    ASSUME IInv, NEW h \in Handles, NEW k \in {LUA_NOREF, LUA_REFNIL},
           NEW L \in Threads \cup {Null},
           SetRef(Derefed(h), h, k),
           h \in MainOnly => L \in MainThreads \cup {Null},
           luastate' = [luastate EXCEPT ![h] = L],
           \/ objs' = objs \cup {h}
           \/ objs' = objs \ {h} /\ k = LUA_NOREF /\ L = Null,
           UNCHANGED <<roots, live>>
    PROVE  /\ IInv'
           /\ denotes' = [denotes EXCEPT ![h] =
                            IF h \notin objs' THEN Dead
                            ELSE IF k = LUA_NOREF THEN None ELSE Nil]
<1> DEFINE O == Owners \ {h}
           rg == Derefed(h)
<1>1. /\ ref \in [Handles -> Refs]
      /\ luastate \in [Handles -> Threads \cup {Null}]
      /\ objs \subseteq Handles
  BY DEF IInv, TypeOK
<1>2. /\ Sound(O, ref, luastate, rg, live)
      /\ SameHeld(O, ref, luastate, regs, ref, luastate, rg)
  BY DerefLemma
<1>3. luastate' \in [Handles -> Threads \cup {Null}] /\ luastate'[h] = L
  BY <1>1
<1>4. \A g \in O : g \in Handles /\ g # h
  BY <1>1 DEF Owners
<1>5. \A g \in Handles : g # h => /\ luastate'[g] = luastate[g]
                                  /\ g \in objs' <=> g \in objs
  BY <1>1
<1>6. ref' = [ref EXCEPT ![h] = k] /\ regs' = rg
  BY DEF SetRef
<1>7. /\ ref' \in [Handles -> Refs]
      /\ ref'[h] = k
      /\ \A g \in Handles : g # h => ref'[g] = ref[g]
  BY <1>1, <1>6 DEF Refs
<1>8. Owners' = O
  BY <1>1, <1>5, <1>7 DEF Owners, valid
<1>9. \A g \in O : ref'[g] = ref[g] /\ luastate'[g] = luastate[g]
  BY <1>4, <1>5, <1>7
<1>10. /\ Sound(O, ref', luastate', rg, live)
       /\ SameHeld(O, ref, luastate, rg, ref', luastate', rg)
  BY <1>2, <1>9, FrameLemma
<1>11. \A g \in Handles \ objs' : ref'[g] = LUA_NOREF /\ luastate'[g] = Null
  BY <1>3, <1>5, <1>7 DEF IInv
<1>12. \A g \in objs' \cap MainOnly : luastate'[g] \in MainThreads \cup {Null}
  BY <1>1, <1>3, <1>5 DEF IInv, MainHandlesUseMainThread
<1>13. objs' \subseteq Handles
  BY <1>1
<1>14. IInv'
  BY <1>3, <1>6, <1>7, <1>8, <1>10, <1>11, <1>12, <1>13, InvStep
<1>15. \A g \in Handles : g # h => denotes'[g] = denotes[g]
  <2> SUFFICES ASSUME NEW g \in Handles, g # h
               PROVE  denotes'[g] = denotes[g]
    OBVIOUS
  <2>1. g \in Owners => Held(ref', luastate', regs', g)
                           = Held(ref, luastate, regs, g)
    BY <1>2, <1>6, <1>10 DEF SameHeld
  <2> QED BY <1>5, <1>7, <2>1, SameDenotation
<1>16. denotes'[h] = IF h \notin objs' THEN Dead
                     ELSE IF k = LUA_NOREF THEN None ELSE Nil
  BY <1>7, RefConstants DEF denotes, Pushed, valid
<1> QED BY <1>14, <1>15, <1>16 DEF denotes

(***************************************************************************)
(* h takes over what g owned; g is left empty.                             *)
(***************************************************************************)
LEMMA StealStep ==
    ASSUME IInv, NEW h \in Handles, NEW g \in objs, h # g,
           NEW L \in Threads \cup {Null},
           Steal(Derefed(h), h, g, L),
           h \in MainOnly => L \in MainThreads \cup {Null},
           valid(g) => L \in Threads /\ StateOf[L] = StateOf[luastate[g]],
           objs' = objs \cup {h},
           UNCHANGED <<roots, live>>
    PROVE  /\ IInv'
           /\ denotes' = [denotes EXCEPT ![h] = denotes[g], ![g] = None]
<1> DEFINE O == Owners \ {h}
           rg == Derefed(h)
<1>1. /\ ref \in [Handles -> Refs]
      /\ luastate \in [Handles -> Threads \cup {Null}]
      /\ objs \subseteq Handles /\ g \in Handles
  BY DEF IInv, TypeOK
<1>2. /\ Sound(O, ref, luastate, rg, live)
      /\ SameHeld(O, ref, luastate, regs, ref, luastate, rg)
  BY DerefLemma
<1>3. /\ ref' = [ref EXCEPT ![h] = ref[g], ![g] = LUA_NOREF]
      /\ luastate' = [luastate EXCEPT ![h] = L, ![g] = Null]
      /\ regs' = rg
  BY DEF Steal
<1>4. /\ luastate' \in [Handles -> Threads \cup {Null}]
      /\ luastate'[h] = L /\ luastate'[g] = Null
      /\ ref' \in [Handles -> Refs]
      /\ ref'[h] = ref[g] /\ ref'[g] = LUA_NOREF
      /\ \A f \in Handles : f # h /\ f # g =>
            ref'[f] = ref[f] /\ luastate'[f] = luastate[f]
  BY <1>1, <1>3 DEF Refs
<1>5. \A f \in Handles : f # h => (f \in objs' <=> f \in objs)
  OBVIOUS
<1>6. \A f \in Handles \ objs' : ref'[f] = LUA_NOREF /\ luastate'[f] = Null
  BY <1>4, <1>5 DEF IInv
<1>7. \A f \in objs' \cap MainOnly : luastate'[f] \in MainThreads \cup {Null}
  BY <1>1, <1>4, <1>5 DEF IInv, MainHandlesUseMainThread
<1>8. \A f \in O \ {g} : f \in Handles /\ f # h /\ f # g
  BY <1>1 DEF Owners
<1>9. denotes'[g] = None
  BY <1>1, <1>4 DEF denotes
<1>10. denotes[g] = IF ref[g] = LUA_NOREF THEN None ELSE Pushed(regs, g)
  BY PushedLemma
<1>11. CASE valid(g)
  <2>1. /\ g \in O
        /\ luastate[g] \in Threads
        /\ Pushed(regs, g) = Held(ref, luastate, regs, g)
    BY <1>11, PushedLemma
  <2>2. L \in Threads /\ StateOf[L] = StateOf[luastate[g]]
    BY <1>11
  <2>3. \A f \in O \ {g} : ref'[f] = ref[f] /\ luastate'[f] = luastate[f]
    BY <1>4, <1>8
  <2>4. /\ Sound((O \ {g}) \cup {h}, ref', luastate', rg, live)
        /\ Holds(ref', luastate', rg, h, Held(ref, luastate, rg, g))
        /\ SameHeld(O \ {g}, ref, luastate, rg, ref', luastate', rg)
    <3>1. h \notin O
      OBVIOUS
    <3> HIDE DEF O, rg
    <3> QED BY <1>2, <1>4, <2>1, <2>2, <2>3, <3>1, StealLemma
  <2>5. Owners' = (O \ {g}) \cup {h}
    BY <1>1, <1>4, <1>5, <1>11 DEF Owners, valid
  <2>6. IInv'
    BY <1>1, <1>3, <1>4, <1>6, <1>7, <2>4, <2>5, InvStep
  <2>7. \A f \in Handles : f # h /\ f # g => denotes'[f] = denotes[f]
    <3> SUFFICES ASSUME NEW f \in Handles, f # h, f # g
                 PROVE  denotes'[f] = denotes[f]
      OBVIOUS
    <3>1. f \in Owners => Held(ref', luastate', regs', f)
                             = Held(ref, luastate, regs, f)
      BY <1>2, <1>3, <2>4 DEF SameHeld
    <3> QED BY <1>4, <1>5, <3>1, SameDenotation
  <2>8. denotes'[h] = denotes[g]
    <3>1. Held(ref', luastate', regs', h) = Held(ref, luastate, regs, g)
      BY <1>2, <1>3, <2>1, <2>4 DEF SameHeld, Holds
    <3>2. denotes'[h] = Held(ref', luastate', regs', h)
      BY <1>4, <1>11, <2>2, RefConstants DEF denotes, Pushed, valid, Held
    <3> QED BY <1>10, <1>11, <2>1, <3>1, <3>2 DEF valid
  <2> QED BY <1>1, <1>9, <2>6, <2>7, <2>8 DEF denotes
<1>12. CASE ~valid(g)
  <2>1. g \notin O
    BY <1>12 DEF Owners
  <2>2. \A f \in O : ref'[f] = ref[f] /\ luastate'[f] = luastate[f]
    BY <1>4, <1>8, <2>1
  <2>3. /\ Sound(O, ref', luastate', rg, live)
        /\ SameHeld(O, ref, luastate, rg, ref', luastate', rg)
    BY <1>2, <2>2, FrameLemma
  <2>4. Owners' = O
    BY <1>1, <1>4, <1>5, <1>12 DEF Owners, valid
  <2>5. IInv'
    BY <1>1, <1>3, <1>4, <1>6, <1>7, <2>3, <2>4, InvStep
  <2>6. \A f \in Handles : f # h /\ f # g => denotes'[f] = denotes[f]
    <3> SUFFICES ASSUME NEW f \in Handles, f # h, f # g
                 PROVE  denotes'[f] = denotes[f]
      OBVIOUS
    <3>1. f \in Owners => Held(ref', luastate', regs', f)
                             = Held(ref, luastate, regs, f)
      BY <1>2, <1>3, <2>3 DEF SameHeld
    <3> QED BY <1>4, <1>5, <3>1, SameDenotation
  <2>7. denotes'[h] = denotes[g]
    BY <1>4, <1>10, <1>12, PushedLemma DEF denotes, Pushed, valid
  <2> QED BY <1>1, <1>9, <2>5, <2>6, <2>7 DEF denotes
<1> QED BY <1>11, <1>12

-----------------------------------------------------------------------------
(* One lemma per operation: the invariant is preserved and the step is one *)
(* of the abstract specification.                                          *)

(***************************************************************************)
(* pick_main_thread<main_only> stays in the state of the thread it is given *)
(* and yields a main thread for a main_ handle.                            *)
(***************************************************************************)
LEMMA PinnedLemma ==
    ASSUME NEW h, NEW t \in Threads \cup {Null}
    PROVE  /\ pinned(h, t) \in Threads \cup {Null}
           /\ t \in Threads => /\ pinned(h, t) \in Threads
                               /\ StateOf[pinned(h, t)] = StateOf[t]
                               /\ StateOf[t] \in States
           /\ h \in MainOnly => pinned(h, t) \in MainThreads \cup {Null}
<1>1. CASE t = Null
  BY <1>1, RefConstants DEF pinned, pick_main_thread, main_thread
<1>2. CASE t # Null
  <2>1. t \in Threads /\ StateOf[t] \in States
    BY <1>2, ReferenceAssumption
  <2>2. /\ MainThread[StateOf[t]] \in Threads
        /\ StateOf[MainThread[StateOf[t]]] = StateOf[t]
        /\ MainThread[StateOf[t]] \in MainThreads
    BY <2>1, ReferenceAssumption DEF MainThreads
  <2> QED
    BY <1>2, <2>1, <2>2 DEF pinned, pick_main_thread, main_thread
<1> QED BY <1>1, <1>2

(***************************************************************************)
(* A main_ handle that is assigned a handle which is not empty gets a main *)
(* thread: from the other main_ handle, or by asking for it.               *)
(***************************************************************************)
LEMMA AssignedLemma ==
    ASSUME IInv, NEW h \in Handles, NEW g \in objs
    PROVE  /\ AssignedThread(h, g) \in Threads \cup {Null}
           /\ luastate[g] \in Threads =>
                 /\ AssignedThread(h, g) \in Threads
                 /\ StateOf[AssignedThread(h, g)] = StateOf[luastate[g]]
           /\ h \in MainOnly => AssignedThread(h, g) \in MainThreads \cup {Null}
<1>1. luastate[g] \in Threads \cup {Null}
  BY DEF IInv, TypeOK
<1>2. CASE h \in MainOnly /\ g \notin MainOnly
  <2>1. AssignedThread(h, g) = pinned(h, luastate[g])
    BY <1>2 DEF AssignedThread, pinned, pick_main_thread
  <2> QED BY <1>1, <2>1, PinnedLemma
<1>3. CASE ~(h \in MainOnly /\ g \notin MainOnly)
  <2>1. AssignedThread(h, g) = luastate[g]
    BY <1>3 DEF AssignedThread, pick_main_thread
  <2> QED BY <1>1, <1>3, <2>1 DEF IInv, MainHandlesUseMainThread
<1> QED BY <1>2, <1>3

AbsNext == [Abs!Next]_Abs!vars

(***************************************************************************)
(* A handle born with a value Lua still reaches is Bind of the abstract    *)
(* specification.                                                          *)
(***************************************************************************)
LEMMA BindStep ==
    ASSUME NEW h \in Handles, h \notin objs,
           NEW x \in roots \cup {Nil, None},
           denotes' = [denotes EXCEPT ![h] = x], UNCHANGED <<roots, live>>
    PROVE  AbsNext
<1>1. denotes[h] = Dead
  BY DEF denotes
<1> QED BY <1>1 DEF AbsNext, Abs!Next, Abs!Bind

(***************************************************************************)
(* A handle given what another denotes is Copy of the abstract specification. *)
(***************************************************************************)
LEMMA CopyStep ==
    ASSUME NEW h \in Handles, NEW g \in Handles, h # g, denotes[g] # Dead,
           denotes' = [denotes EXCEPT ![h] = denotes[g]],
           UNCHANGED <<roots, live>>
    PROVE  AbsNext
BY DEF AbsNext, Abs!Next, Abs!Copy

(***************************************************************************)
(* A handle given what another denoted, the other being emptied or left    *)
(* alone, is Move of the abstract specification.                           *)
(***************************************************************************)
LEMMA MoveStep ==
    ASSUME NEW h \in Handles, NEW g \in Handles, denotes[g] # Dead,
           denotes' = [denotes EXCEPT ![h] = denotes[g], ![g] = None],
           UNCHANGED <<roots, live>>
    PROVE  AbsNext
BY DEF AbsNext, Abs!Next, Abs!Move

(***************************************************************************)
(* reference() keeps the invariant and is a Bind to nothing.               *)
(***************************************************************************)
LEMMA CtorDefaultLemma ==
    ASSUME IInv, NEW h \in Handles, CtorDefault(h)
    PROVE  IInv' /\ AbsNext
<1>1. /\ h \notin objs /\ regs = Derefed(h)
      /\ SetRef(Derefed(h), h, LUA_NOREF)
      /\ luastate' = [luastate EXCEPT ![h] = Null]
      /\ objs' = objs \cup {h}
      /\ UNCHANGED <<roots, live>>
  BY DerefLemma DEF CtorDefault, Born, LuaUnchanged
<1>2. IInv' /\ denotes' = [denotes EXCEPT ![h] = None]
  BY <1>1, SetRefStep
<1> QED BY <1>1, <1>2, BindStep

(***************************************************************************)
(* reference(L, lua_nil) keeps the invariant and is a Bind to nothing.     *)
(***************************************************************************)
LEMMA CtorNilOnLemma ==
    ASSUME IInv, NEW h \in Handles, NEW t \in Threads, CtorNilOn(h, t)
    PROVE  IInv' /\ AbsNext
<1> DEFINE L == pinned(h, t)
<1>1. /\ h \notin objs /\ regs = Derefed(h)
      /\ SetRef(Derefed(h), h, LUA_NOREF)
      /\ luastate' = [luastate EXCEPT ![h] = L]
      /\ objs' = objs \cup {h}
      /\ UNCHANGED <<roots, live>>
  BY DerefLemma DEF CtorNilOn, Born, LuaUnchanged
<1>2. L \in Threads \cup {Null} /\ (h \in MainOnly => L \in MainThreads \cup {Null})
  BY PinnedLemma
<1> HIDE DEF L
<1>3. IInv' /\ denotes' = [denotes EXCEPT ![h] = None]
  BY <1>1, <1>2, SetRefStep
<1> QED BY <1>1, <1>3, BindStep

(***************************************************************************)
(* reference(L, index) keeps the invariant and is a Bind to a reachable    *)
(* object or nil.                                                          *)
(***************************************************************************)
LEMMA CtorIndexLemma ==
    ASSUME IInv, NEW h \in Handles, NEW t \in Threads, CtorIndex(h, t)
    PROVE  IInv' /\ AbsNext
<1> DEFINE L == pinned(h, t)
<1>1. /\ h \notin objs /\ regs = Derefed(h)
      /\ luastate' = [luastate EXCEPT ![h] = L]
      /\ objs' = objs \cup {h}
      /\ UNCHANGED <<roots, live>>
  BY DerefLemma DEF CtorIndex, Born, LuaUnchanged
<1>2. PICK x \in {v \in roots : Home[v] = StateOf[t]} \cup {Nil} :
         Acquire(Derefed(h), t, x, h)
  BY <1>1 DEF CtorIndex
<1>3. \/ x = Nil
      \/ /\ x \in Values /\ x \in live
         /\ t \in Threads /\ Home[x] = StateOf[t]
         /\ L \in Threads /\ StateOf[L] = StateOf[t]
  BY PinnedLemma DEF IInv, TypeOK
<1>4. L \in Threads \cup {Null} /\ (h \in MainOnly => L \in MainThreads \cup {Null})
  BY PinnedLemma
<1> HIDE DEF L
<1>5. IInv' /\ denotes' = [denotes EXCEPT ![h] = x]
  BY <1>1, <1>2, <1>3, <1>4, AcquireStep
<1> QED BY <1>1, <1>5, BindStep

(***************************************************************************)
(* reference(L, ref_index) keeps the invariant and is a Copy.              *)
(***************************************************************************)
LEMMA CtorRefIndexLemma ==
    ASSUME IInv, NEW h \in Handles, NEW t \in Threads, NEW g \in Handles,
           CtorRefIndex(h, t, g)
    PROVE  IInv' /\ AbsNext
<1> DEFINE L == pinned(h, t)
           x == Pushed(regs, g)
<1>1. /\ h \notin objs /\ regs = Derefed(h) /\ g \in objs /\ valid(g)
      /\ Acquire(Derefed(h), L, x, h)
      /\ StateOf[luastate[g]] = StateOf[t]
      /\ luastate' = [luastate EXCEPT ![h] = L]
      /\ objs' = objs \cup {h}
      /\ UNCHANGED <<roots, live>>
  BY DerefLemma DEF CtorRefIndex, Born, LuaUnchanged, Touchable
<1>2. /\ L \in Threads /\ StateOf[L] = StateOf[t]
      /\ h \in MainOnly => L \in MainThreads \cup {Null}
  BY PinnedLemma
<1>3. /\ x \in Values /\ x \in live /\ Home[x] = StateOf[L]
      /\ denotes[g] = x /\ denotes[g] # Dead
  BY <1>1, <1>2, PushedLemma DEF valid
<1> HIDE DEF L, x
<1>4. IInv' /\ denotes' = [denotes EXCEPT ![h] = x]
  BY <1>1, <1>2, <1>3, AcquireStep
<1> QED BY <1>1, <1>3, <1>4, CopyStep

(***************************************************************************)
(* The copy constructors keep the invariant and are a Copy.                *)
(***************************************************************************)
LEMMA CtorCopyLemma ==
    ASSUME IInv, NEW h \in Handles, NEW g \in Handles, CtorCopy(h, g)
    PROVE  IInv' /\ AbsNext
<1> DEFINE cross == (h \in MainOnly) # (g \in MainOnly)
           L == IF cross THEN pinned(h, luastate[g]) ELSE luastate[g]
<1>1. /\ h \notin objs /\ regs = Derefed(h) /\ g \in objs /\ h # g
      /\ luastate' = [luastate EXCEPT ![h] = L]
      /\ objs' = objs \cup {h}
      /\ UNCHANGED <<roots, live>>
      /\ \/ ref[g] = LUA_NOREF /\ SetRef(Derefed(h), h, LUA_NOREF)
         \/ ref[g] # LUA_NOREF /\ Acquire(Derefed(h), L, Pushed(regs, g), h)
  BY DerefLemma DEF CtorCopy, Born, LuaUnchanged, Touchable
<1>2. luastate[g] \in Threads \cup {Null}
  BY DEF IInv, TypeOK
<1>3. /\ L \in Threads \cup {Null}
      /\ h \in MainOnly => L \in MainThreads \cup {Null}
      /\ luastate[g] \in Threads =>
            L \in Threads /\ StateOf[L] = StateOf[luastate[g]]
  <2>1. CASE cross
    BY <1>2, <2>1, PinnedLemma
  <2>2. CASE ~cross
    BY <1>1, <1>2, <2>2 DEF IInv, MainHandlesUseMainThread
  <2> QED BY <2>1, <2>2
<1> HIDE DEF L
<1>4. denotes[g] # Dead
  BY <1>1, PushedLemma
<1>5. CASE ref[g] = LUA_NOREF
  <2>1. denotes[g] = None
    BY <1>1, <1>5, PushedLemma
  <2>2. SetRef(Derefed(h), h, LUA_NOREF)
    BY <1>1, <1>5
  <2>3. IInv' /\ denotes' = [denotes EXCEPT ![h] = None]
    BY <1>1, <1>3, <2>2, SetRefStep
  <2> QED BY <1>1, <1>4, <2>1, <2>3, CopyStep
<1>6. CASE ref[g] # LUA_NOREF
  <2> DEFINE x == Pushed(regs, g)
  <2>1. Acquire(Derefed(h), L, x, h) /\ denotes[g] = x
    BY <1>1, <1>6, PushedLemma
  <2>2. \/ x = Nil
        \/ /\ x \in Values /\ x \in live
           /\ L \in Threads /\ Home[x] = StateOf[L]
    BY <1>1, <1>3, PushedLemma
  <2> HIDE DEF x
  <2>3. IInv' /\ denotes' = [denotes EXCEPT ![h] = x]
    BY <1>1, <1>3, <2>1, <2>2, AcquireStep
  <2> QED BY <1>1, <1>4, <2>1, <2>3, CopyStep
<1> QED BY <1>5, <1>6

(***************************************************************************)
(* The move constructors keep the invariant and are a Move.                *)
(***************************************************************************)
LEMMA CtorMoveLemma ==
    ASSUME IInv, NEW h \in Handles, NEW g \in Handles, CtorMove(h, g)
    PROVE  IInv' /\ AbsNext
<1> DEFINE cross == (h \in MainOnly) # (g \in MainOnly)
           L == IF cross THEN pinned(h, luastate[g]) ELSE luastate[g]
<1>1. /\ regs = Derefed(h) /\ g \in objs /\ h # g
      /\ Steal(Derefed(h), h, g, L)
      /\ objs' = objs \cup {h}
      /\ UNCHANGED <<roots, live>>
  BY DerefLemma DEF CtorMove, Born, LuaUnchanged, Touchable
<1>2. luastate[g] \in Threads \cup {Null}
  BY DEF IInv, TypeOK
<1>3. /\ L \in Threads \cup {Null}
      /\ h \in MainOnly => L \in MainThreads \cup {Null}
      /\ luastate[g] \in Threads =>
            L \in Threads /\ StateOf[L] = StateOf[luastate[g]]
  <2>1. CASE cross
    BY <1>2, <2>1, PinnedLemma
  <2>2. CASE ~cross
    BY <1>1, <1>2, <2>2 DEF IInv, MainHandlesUseMainThread
  <2> QED BY <2>1, <2>2
<1>4. valid(g) => L \in Threads /\ StateOf[L] = StateOf[luastate[g]]
  BY <1>1, <1>3, PushedLemma
<1> HIDE DEF L
<1>5. /\ IInv'
      /\ denotes' = [denotes EXCEPT ![h] = denotes[g], ![g] = None]
  BY <1>1, <1>3, <1>4, StealStep
<1>6. denotes[g] # Dead
  BY <1>1, PushedLemma
<1> QED BY <1>1, <1>5, <1>6, MoveStep

(***************************************************************************)
(* Pinning within one Lua state.  That a program pins only within one      *)
(* state is where Uses = {} is needed.                                     *)
(***************************************************************************)
LEMMA PinLemma ==
    ASSUME IInv, NEW h \in Handles, NEW t \in Threads, NEW g \in objs,
           CrossState(t, g) => "cross_state_pin" \in Uses, Uses = {}
    PROVE  /\ pinned(h, t) \in Threads
           /\ h \in MainOnly => pinned(h, t) \in MainThreads \cup {Null}
           /\ valid(g) => StateOf[pinned(h, t)] = StateOf[luastate[g]]
<1>1. /\ pinned(h, t) \in Threads /\ StateOf[pinned(h, t)] = StateOf[t]
      /\ h \in MainOnly => pinned(h, t) \in MainThreads \cup {Null}
  BY PinnedLemma
<1>2. ~CrossState(t, g)
  OBVIOUS
<1>3. valid(g) => luastate[g] # Null
  BY PushedLemma, RefConstants
<1> QED BY <1>1, <1>2, <1>3 DEF CrossState

(***************************************************************************)
(* reference(L, const reference&) keeps the invariant and is a Copy.       *)
(***************************************************************************)
LEMMA CtorPinCopyLemma ==
    ASSUME IInv, NEW h \in Handles, NEW t \in Threads, NEW g \in Handles,
           CtorPinCopy(h, t, g), Uses = {}
    PROVE  IInv' /\ AbsNext
<1> DEFINE L == pinned(h, t)
           at == IF xmovable(L, luastate[g]) THEN L ELSE luastate[g]
           x == Pushed(regs, g)
<1>1. /\ h \notin objs /\ regs = Derefed(h) /\ g \in objs /\ h # g
      /\ CrossState(t, g) => "cross_state_pin" \in Uses
      /\ luastate' = [luastate EXCEPT ![h] = L]
      /\ objs' = objs \cup {h}
      /\ UNCHANGED <<roots, live>>
      /\ \/ ~valid(g) /\ SetRef(Derefed(h), h, ref[g])
         \/ valid(g) /\ Acquire(Derefed(h), at, x, h)
  BY DerefLemma DEF CtorPinCopy, Born, LuaUnchanged, Touchable
<1>2. /\ L \in Threads
      /\ h \in MainOnly => L \in MainThreads \cup {Null}
      /\ valid(g) => StateOf[L] = StateOf[luastate[g]]
  BY <1>1, PinLemma
<1>3. denotes[g] # Dead
  BY <1>1, PushedLemma
<1>4. CASE ~valid(g)
  <2>1. /\ SetRef(Derefed(h), h, ref[g]) /\ ref[g] \in {LUA_NOREF, LUA_REFNIL}
        /\ denotes[g] = IF ref[g] = LUA_NOREF THEN None ELSE Nil
    BY <1>1, <1>4, PushedLemma DEF valid
  <2> HIDE DEF L
  <2>2. IInv' /\ denotes' = [denotes EXCEPT ![h] = denotes[g]]
    BY <1>1, <1>2, <2>1, SetRefStep
  <2> QED BY <1>1, <1>3, <2>2, CopyStep
<1>5. CASE valid(g)
  <2>1. /\ x \in Values /\ x \in live /\ denotes[g] = x
        /\ at \in Threads /\ StateOf[at] = StateOf[L] /\ Home[x] = StateOf[at]
    BY <1>1, <1>2, <1>5, PushedLemma DEF valid
  <2>2. Acquire(Derefed(h), at, x, h)
    BY <1>1, <1>5
  <2> HIDE DEF at, x, L
  <2>3. IInv' /\ denotes' = [denotes EXCEPT ![h] = x]
    BY <1>1, <1>2, <2>1, <2>2, AcquireStep
  <2> QED BY <1>1, <1>3, <2>1, <2>3, CopyStep
<1> QED BY <1>4, <1>5

(***************************************************************************)
(* reference(L, reference&&) keeps the invariant and is a Copy or a Move.  *)
(***************************************************************************)
LEMMA CtorPinMoveLemma ==
    ASSUME IInv, NEW h \in Handles, NEW t \in Threads, NEW g \in Handles,
           CtorPinMove(h, t, g), Uses = {}
    PROVE  IInv' /\ AbsNext
<1> DEFINE L == pinned(h, t)
           x == Pushed(regs, g)
<1>1. /\ h \notin objs /\ regs = Derefed(h) /\ g \in objs /\ h # g
      /\ CrossState(t, g) => "cross_state_pin" \in Uses
      /\ objs' = objs \cup {h}
      /\ UNCHANGED <<roots, live>>
  BY DerefLemma DEF CtorPinMove, Born, LuaUnchanged, Touchable
<1>2. /\ L \in Threads
      /\ h \in MainOnly => L \in MainThreads \cup {Null}
      /\ valid(g) => StateOf[L] = StateOf[luastate[g]]
  BY <1>1, PinLemma
<1>3. denotes[g] # Dead
  BY <1>1, PushedLemma
<1>4. CASE /\ ~valid(g)
           /\ SetRef(regs, h, ref[g])
           /\ luastate' = [luastate EXCEPT ![h] = L]
  <2>1. /\ SetRef(Derefed(h), h, ref[g]) /\ ref[g] \in {LUA_NOREF, LUA_REFNIL}
        /\ denotes[g] = IF ref[g] = LUA_NOREF THEN None ELSE Nil
    BY <1>1, <1>4, PushedLemma DEF valid
  <2> HIDE DEF L
  <2>2. IInv' /\ denotes' = [denotes EXCEPT ![h] = denotes[g]]
    BY <1>1, <1>2, <1>4, <2>1, SetRefStep
  <2> QED BY <1>1, <1>3, <2>2, CopyStep
<1>5. CASE /\ valid(g) /\ xmovable(L, luastate[g])
           /\ Acquire(regs, L, x, h)
           /\ luastate' = [luastate EXCEPT ![h] = L]
  <2>1. /\ x \in Values /\ x \in live /\ denotes[g] = x
        /\ Home[x] = StateOf[L]
    BY <1>1, <1>2, <1>5, PushedLemma DEF valid
  <2>2. Acquire(Derefed(h), L, x, h)
    BY <1>1, <1>5
  <2> HIDE DEF x, L
  <2>3. IInv' /\ denotes' = [denotes EXCEPT ![h] = x]
    BY <1>1, <1>2, <1>5, <2>1, <2>2, AcquireStep
  <2> QED BY <1>1, <1>3, <2>1, <2>3, CopyStep
<1>6. CASE valid(g) /\ Steal(regs, h, g, L)
  <2>1. Steal(Derefed(h), h, g, L)
    BY <1>1, <1>6
  <2> HIDE DEF L
  <2>2. /\ IInv'
        /\ denotes' = [denotes EXCEPT ![h] = denotes[g], ![g] = None]
    BY <1>1, <1>2, <2>1, StealStep
  <2> QED BY <1>1, <1>3, <2>2, MoveStep
<1> QED BY <1>4, <1>5, <1>6 DEF CtorPinMove

(***************************************************************************)
(* Uses = {} also rules out r = r by copy, and a main_ handle taking the   *)
(* coroutine of an empty one.                                              *)
(***************************************************************************)
LEMMA EmptyAssignLemma ==
    ASSUME IInv, NEW h \in Handles, NEW g \in objs, ref[g] = LUA_NOREF,
           MainFromEmpty(h, g) => "main_from_empty" \in Uses, Uses = {}
    PROVE  /\ luastate[g] \in Threads \cup {Null}
           /\ h \in MainOnly => luastate[g] \in MainThreads \cup {Null}
<1>1. luastate[g] \in Threads \cup {Null}
  BY DEF IInv, TypeOK
<1>2. ~MainFromEmpty(h, g)
  OBVIOUS
<1> QED BY <1>1, <1>2 DEF MainFromEmpty

(***************************************************************************)
(* Copy assignment keeps the invariant and is a Copy.                      *)
(***************************************************************************)
LEMMA CopyAssignLemma ==
    ASSUME IInv, NEW h \in Handles, NEW g \in Handles, CopyAssign(h, g),
           Uses = {}
    PROVE  IInv' /\ AbsNext
<1> DEFINE T == AssignedThread(h, g)
           x == Pushed(regs, g)
<1>1. /\ h \in objs /\ g \in objs /\ h # g
      /\ MainFromEmpty(h, g) => "main_from_empty" \in Uses
      /\ objs' = objs \cup {h}
      /\ UNCHANGED <<roots, live>>
  BY DEF CopyAssign, LuaUnchanged, Touchable
<1>2. /\ T \in Threads \cup {Null}
      /\ h \in MainOnly => T \in MainThreads \cup {Null}
      /\ valid(g) => T \in Threads /\ StateOf[T] = StateOf[luastate[g]]
  BY <1>1, AssignedLemma, PushedLemma
<1>3. Pushed(Derefed(h), g) = x
  BY <1>1, DerefLemma
<1>4. denotes[g] # Dead
  BY <1>1, PushedLemma
<1>5. ASSUME valid(g)
      PROVE  /\ x \in Values /\ x \in live /\ denotes[g] = x
             /\ luastate[g] \in Threads /\ Home[x] = StateOf[luastate[g]]
  BY <1>1, <1>5, PushedLemma DEF valid
<1>6. CASE /\ ref[g] = LUA_REFNIL
           /\ SetRef(Derefed(h), h, LUA_REFNIL)
           /\ luastate' = [luastate EXCEPT ![h] = T]
  <2>1. denotes[g] = Nil
    BY <1>1, <1>6, PushedLemma, RefConstants DEF valid
  <2> HIDE DEF T
  <2>2. IInv' /\ denotes' = [denotes EXCEPT ![h] = Nil]
    BY <1>1, <1>2, <1>6, SetRefStep, RefConstants
  <2> QED BY <1>1, <1>4, <2>1, <2>2, CopyStep
<1>7. CASE /\ ref[g] = LUA_NOREF
           /\ SetRef(Derefed(h), h, LUA_NOREF)
           /\ luastate' = [luastate EXCEPT ![h] = luastate[g]]
  <2>1. denotes[g] = None
    BY <1>1, <1>7, PushedLemma
  <2>2. /\ luastate[g] \in Threads \cup {Null}
        /\ h \in MainOnly => luastate[g] \in MainThreads \cup {Null}
    BY <1>1, <1>7, EmptyAssignLemma
  <2>3. IInv' /\ denotes' = [denotes EXCEPT ![h] = None]
    BY <1>1, <1>7, <2>2, SetRefStep
  <2> QED BY <1>1, <1>4, <2>1, <2>3, CopyStep
<1>8. CASE /\ valid(g) /\ xmovable(luastate[h], luastate[g])
           /\ Acquire(Derefed(h), luastate[h], Pushed(Derefed(h), g), h)
           /\ UNCHANGED luastate
  <2> DEFINE L == luastate[h]
  <2>1. /\ L \in Threads /\ StateOf[L] = StateOf[luastate[g]]
        /\ h \in MainOnly => L \in MainThreads \cup {Null}
        /\ luastate' = [luastate EXCEPT ![h] = L]
    BY <1>1, <1>8 DEF xmovable, IInv, TypeOK, MainHandlesUseMainThread
  <2>2. Acquire(Derefed(h), L, x, h)
    BY <1>3, <1>8
  <2>3. x \in Values /\ x \in live /\ Home[x] = StateOf[L] /\ denotes[g] = x
    BY <1>5, <1>8, <2>1
  <2> HIDE DEF L, x
  <2>4. IInv' /\ denotes' = [denotes EXCEPT ![h] = x]
    BY <1>1, <2>1, <2>2, <2>3, AcquireStep
  <2> QED BY <1>1, <1>4, <2>3, <2>4, CopyStep
<1>9. CASE /\ valid(g)
           /\ Acquire(Derefed(h), T, Pushed(Derefed(h), g), h)
           /\ luastate' = [luastate EXCEPT ![h] = T]
  <2>1. Acquire(Derefed(h), T, x, h)
    BY <1>3, <1>9
  <2>2. /\ x \in Values /\ x \in live /\ Home[x] = StateOf[T] /\ denotes[g] = x
        /\ T \in Threads
    BY <1>2, <1>5, <1>9
  <2> HIDE DEF T, x
  <2>3. IInv' /\ denotes' = [denotes EXCEPT ![h] = x]
    BY <1>1, <1>2, <1>9, <2>1, <2>2, AcquireStep
  <2> QED BY <1>1, <1>4, <2>2, <2>3, CopyStep
<1> QED BY <1>6, <1>7, <1>8, <1>9 DEF CopyAssign

(***************************************************************************)
(* Move assignment keeps the invariant and is a Copy or a Move.            *)
(***************************************************************************)
LEMMA MoveAssignLemma ==
    ASSUME IInv, NEW h \in Handles, NEW g \in Handles, MoveAssign(h, g),
           Uses = {}
    PROVE  IInv' /\ AbsNext
<1> DEFINE T == AssignedThread(h, g)
           x == Pushed(regs, g)
<1>1. /\ h \in objs /\ g \in objs
      /\ MainFromEmpty(h, g) => "main_from_empty" \in Uses
      /\ objs' = objs \cup {h}
      /\ UNCHANGED <<roots, live>>
  BY DEF MoveAssign, LuaUnchanged, Touchable
<1>2. /\ T \in Threads \cup {Null}
      /\ h \in MainOnly => T \in MainThreads \cup {Null}
      /\ valid(g) => T \in Threads /\ StateOf[T] = StateOf[luastate[g]]
  BY <1>1, AssignedLemma, PushedLemma
<1>4. denotes[g] # Dead
  BY <1>1, PushedLemma
<1>5. ASSUME valid(g)
      PROVE  /\ x \in Values /\ x \in live /\ denotes[g] = x
             /\ luastate[g] \in Threads /\ Home[x] = StateOf[luastate[g]]
  BY <1>1, <1>5, PushedLemma DEF valid
<1>a. ASSUME denotes' = [denotes EXCEPT ![h] = denotes[g]]
      PROVE  AbsNext
  <2>1. denotes' = [denotes EXCEPT ![h] = denotes[g], ![g] = denotes[g]]
    BY <1>a DEF denotes
  <2> QED BY <1>1, <1>4, <2>1 DEF AbsNext, Abs!Next, Abs!Move
<1>6. CASE /\ ref[g] = LUA_REFNIL
           /\ SetRef(Derefed(h), h, LUA_REFNIL)
           /\ luastate' = [luastate EXCEPT ![h] = T]
  <2>1. denotes[g] = Nil
    BY <1>1, <1>6, PushedLemma, RefConstants DEF valid
  <2> HIDE DEF T
  <2>2. IInv' /\ denotes' = [denotes EXCEPT ![h] = Nil]
    BY <1>1, <1>2, <1>6, SetRefStep, RefConstants
  <2> QED BY <1>a, <2>1, <2>2
<1>7. CASE /\ ref[g] = LUA_NOREF
           /\ SetRef(Derefed(h), h, LUA_NOREF)
           /\ luastate' = [luastate EXCEPT ![h] = luastate[g]]
  <2>1. denotes[g] = None
    BY <1>1, <1>7, PushedLemma
  <2>2. /\ luastate[g] \in Threads \cup {Null}
        /\ h \in MainOnly => luastate[g] \in MainThreads \cup {Null}
    BY <1>1, <1>7, EmptyAssignLemma
  <2>3. IInv' /\ denotes' = [denotes EXCEPT ![h] = None]
    BY <1>1, <1>7, <2>2, SetRefStep
  <2> QED BY <1>a, <2>1, <2>3
<1>8. CASE /\ valid(g) /\ xmovable(luastate[h], luastate[g])
           /\ Acquire(Derefed(h), luastate[h], Pushed(Derefed(h), g), h)
           /\ UNCHANGED luastate
  <2> DEFINE L == luastate[h]
  <2>1. /\ L \in Threads /\ StateOf[L] = StateOf[luastate[g]]
        /\ h \in MainOnly => L \in MainThreads \cup {Null}
        /\ luastate' = [luastate EXCEPT ![h] = L]
        /\ h # g
    BY <1>1, <1>8 DEF xmovable, IInv, TypeOK, MainHandlesUseMainThread
  <2>2. Pushed(Derefed(h), g) = x
    BY <1>1, <2>1, DerefLemma
  <2>3. Acquire(Derefed(h), L, x, h)
    BY <1>8, <2>2
  <2>4. x \in Values /\ x \in live /\ Home[x] = StateOf[L] /\ denotes[g] = x
    BY <1>5, <1>8, <2>1
  <2> HIDE DEF L, x
  <2>5. IInv' /\ denotes' = [denotes EXCEPT ![h] = x]
    BY <1>1, <2>1, <2>3, <2>4, AcquireStep
  <2> QED BY <1>a, <2>4, <2>5
<1>9. CASE valid(g) /\ Steal(Derefed(h), h, g, T) /\ h # g
  <2> HIDE DEF T
  <2>1. /\ IInv'
        /\ denotes' = [denotes EXCEPT ![h] = denotes[g], ![g] = None]
    BY <1>1, <1>2, <1>9, StealStep
  <2> QED BY <1>1, <1>4, <2>1, MoveStep
<1>10. CASE valid(g) /\ Steal(Derefed(h), h, g, T) /\ h = g
  <2>1. /\ SetRef(Derefed(h), h, LUA_NOREF)
        /\ luastate' = [luastate EXCEPT ![h] = Null]
    BY <1>10 DEF Steal, SetRef, IInv, TypeOK
  <2>2. IInv' /\ denotes' = [denotes EXCEPT ![h] = None]
    BY <1>1, <2>1, SetRefStep
  <2>3. denotes' = [denotes EXCEPT ![h] = denotes[g], ![g] = None]
    BY <1>10, <2>2 DEF denotes
  <2> QED BY <1>1, <1>4, <2>2, <2>3, MoveStep
<1> QED BY <1>6, <1>7, <1>8, <1>9, <1>10 DEF MoveAssign

(***************************************************************************)
(* r = lua_nil keeps the invariant and is a Clear.                         *)
(***************************************************************************)
LEMMA AssignNilLemma ==
    ASSUME IInv, NEW h \in Handles, AssignNil(h)
    PROVE  IInv' /\ AbsNext
<1>1. /\ h \in objs
      /\ SetRef(Derefed(h), h, LUA_NOREF)
      /\ luastate' = [luastate EXCEPT ![h] = Null]
      /\ objs' = objs \cup {h}
      /\ UNCHANGED <<roots, live>>
  BY DEF AssignNil, LuaUnchanged, Releasable
<1>2. IInv' /\ denotes' = [denotes EXCEPT ![h] = None]
  BY <1>1, SetRefStep
<1>3. denotes[h] # Dead
  BY <1>1, PushedLemma
<1> QED BY <1>1, <1>2, <1>3 DEF AbsNext, Abs!Next, Abs!Clear

(***************************************************************************)
(* The destructor keeps the invariant and is a Destroy.                    *)
(***************************************************************************)
LEMMA DestroyLemma ==
    ASSUME IInv, NEW h \in Handles, Destroy(h)
    PROVE  IInv' /\ AbsNext
<1>1. /\ h \in objs
      /\ SetRef(Derefed(h), h, LUA_NOREF)
      /\ luastate' = [luastate EXCEPT ![h] = Null]
      /\ objs' = objs \ {h}
      /\ UNCHANGED <<roots, live>>
  BY DEF Destroy, LuaUnchanged, Releasable
<1>2. IInv' /\ denotes' = [denotes EXCEPT ![h] = Dead]
  BY <1>1, SetRefStep
<1>3. denotes[h] # Dead
  BY <1>1, PushedLemma
<1> QED BY <1>1, <1>2, <1>3 DEF AbsNext, Abs!Next, Abs!Destroy

(***************************************************************************)
(* Lua's own steps leave every handle alone.                               *)
(***************************************************************************)
LEMMA SameHandles ==
    ASSUME UNCHANGED <<objs, ref, luastate, regs>>
    PROVE  denotes' = denotes /\ Owners' = Owners
BY DEF denotes, Pushed, valid, Owners

(***************************************************************************)
(* Handing an object to a script keeps the invariant and is a Give.        *)
(***************************************************************************)
LEMMA GiveLemma ==
    ASSUME IInv, NEW h \in Handles, Give(h)
    PROVE  IInv' /\ AbsNext
<1>1. /\ h \in objs /\ valid(h)
      /\ roots' = roots \cup {Pushed(regs, h)}
      /\ UNCHANGED <<objs, ref, luastate, regs, live>>
  BY DEF Give, Touchable
<1>2. /\ Pushed(regs, h) \in Values /\ Pushed(regs, h) \in live
      /\ denotes[h] = Pushed(regs, h)
  BY <1>1, PushedLemma DEF valid
<1>3. denotes' = denotes /\ Owners' = Owners
  BY <1>1, SameHandles
<1>4. IInv'
  BY <1>1, <1>2, <1>3 DEF IInv, TypeOK, MainHandlesUseMainThread
<1>5. AbsNext
  BY <1>1, <1>2, <1>3 DEF AbsNext, Abs!Next, Abs!Give
<1> QED BY <1>4, <1>5

(***************************************************************************)
(* A script forgetting an object keeps the invariant and is an Unroot.     *)
(***************************************************************************)
LEMMA UnrootLemma ==
    ASSUME IInv, NEW v \in Values, Unroot(v)
    PROVE  IInv' /\ AbsNext
<1>1. /\ v \in roots /\ roots' = roots \ {v}
      /\ UNCHANGED <<objs, ref, luastate, regs, live>>
  BY DEF Unroot
<1>2. denotes' = denotes /\ Owners' = Owners
  BY <1>1, SameHandles
<1>3. IInv'
  BY <1>1, <1>2 DEF IInv, TypeOK, MainHandlesUseMainThread
<1>4. AbsNext
  BY <1>1, <1>2 DEF AbsNext, Abs!Next, Abs!Unroot
<1> QED BY <1>3, <1>4

(***************************************************************************)
(* The collector: an object some handle owns is in a registry, so it is    *)
(* not the one collected.                                                  *)
(***************************************************************************)
LEMMA CollectLemma ==
    ASSUME IInv, NEW v \in Values, Collect(v)
    PROVE  IInv' /\ AbsNext
<1>1. /\ v \in live \ roots /\ live' = live \ {v}
      /\ \A s \in Slots : regs[Home[v]].cell[s] # v
      /\ UNCHANGED <<objs, ref, luastate, regs, roots>>
  BY DEF Collect
<1>2. denotes' = denotes /\ Owners' = Owners
  BY <1>1, SameHandles
<1>3. \A h \in Owners : Held(ref, luastate, regs, h) # v
  BY <1>1 DEF IInv, Sound, Held
<1>4. Sound(Owners', ref', luastate', regs', live')
  BY <1>1, <1>2, <1>3 DEF IInv, Sound, Held
<1>5. IInv'
  BY <1>1, <1>4 DEF IInv, TypeOK, MainHandlesUseMainThread
<1>6. \A h \in Handles : denotes[h] # v
  <2> SUFFICES ASSUME NEW h \in Handles PROVE denotes[h] # v
    OBVIOUS
  <2>1. CASE h \notin objs
    BY <2>1, RefConstants DEF denotes
  <2>2. CASE h \in objs
    BY <1>3, <2>2, PushedLemma, RefConstants
  <2> QED BY <2>1, <2>2
<1>7. AbsNext
  BY <1>1, <1>2, <1>6 DEF AbsNext, Abs!Next, Abs!Collect
<1> QED BY <1>5, <1>7

-----------------------------------------------------------------------------
(***************************************************************************)
(* Before the first operation the invariant holds and nothing is denoted.  *)
(***************************************************************************)
LEMMA InitLemma == Init => IInv /\ Abs!Init
<1> SUFFICES ASSUME Init PROVE IInv /\ Abs!Init
  OBVIOUS
<1>1. EmptyRegistry \in Registry
  BY RegistryAssumption DEF EmptyRegistry, Registry, Content
<1>2. FreeListSound(EmptyRegistry) /\ Occupied(EmptyRegistry) = {}
  BY RegistryAssumption
     DEF EmptyRegistry, FreeListSound, FreeSlots, Occupied, Slots
<1>3. Owners = {}
  BY DEF Init, Owners
<1>4. Sound(Owners, ref, luastate, regs, live)
  BY <1>1, <1>2, <1>3 DEF Init, Sound
<1>5. TypeOK
  BY <1>1, RegistryAssumption DEF Init, TypeOK, Refs
<1>6. IInv
  BY <1>4, <1>5 DEF Init, IInv, MainHandlesUseMainThread
<1>7. Abs!Init
  BY DEF Init, Abs!Init, denotes
<1> QED BY <1>6, <1>7

(***************************************************************************)
(* Every step keeps the invariant and maps to a step or a stutter of the   *)
(* abstract specification.                                                 *)
(***************************************************************************)
LEMMA NextLemma ==
    ASSUME IInv, [Next]_vars, Uses = {}
    PROVE  IInv' /\ AbsNext
<1>1. CASE UNCHANGED vars
  <2>1. UNCHANGED <<objs, ref, luastate, regs, roots, live>>
    BY <1>1 DEF vars
  <2>2. denotes' = denotes /\ Owners' = Owners
    BY <2>1, SameHandles
  <2>3. IInv'
    BY <2>1, <2>2 DEF IInv, TypeOK, MainHandlesUseMainThread
  <2> QED BY <2>1, <2>2, <2>3 DEF AbsNext, Abs!vars
<1>2. ASSUME NEW h \in Handles, Construct(h) PROVE IInv' /\ AbsNext
  BY <1>2, CtorDefaultLemma, CtorNilOnLemma, CtorIndexLemma,
     CtorRefIndexLemma, CtorCopyLemma, CtorMoveLemma, CtorPinCopyLemma,
     CtorPinMoveLemma DEF Construct
<1>3. ASSUME NEW h \in Handles, Assign(h) PROVE IInv' /\ AbsNext
  BY <1>3, AssignNilLemma, CopyAssignLemma, MoveAssignLemma DEF Assign
<1>4. ASSUME NEW h \in Handles, Destroy(h) PROVE IInv' /\ AbsNext
  BY <1>4, DestroyLemma
<1>5. ASSUME NEW h \in Handles, Give(h) PROVE IInv' /\ AbsNext
  BY <1>5, GiveLemma
<1>6. ASSUME NEW v \in Values, Unroot(v) PROVE IInv' /\ AbsNext
  BY <1>6, UnrootLemma
<1>7. ASSUME NEW v \in Values, Collect(v) PROVE IInv' /\ AbsNext
  BY <1>7, CollectLemma
<1> QED
  BY <1>1, <1>2, <1>3, <1>4, <1>5, <1>6, <1>7 DEF Next

(***************************************************************************)
(* The inductive invariant holds of every execution: every construction,   *)
(* assignment and destruction keeps handles and registries sound.          *)
(***************************************************************************)
THEOREM Invariance == ASSUME Uses = {} PROVE Spec => []IInv
<1>1. Init => IInv
  BY InitLemma
<1>2. IInv /\ [Next]_vars => IInv'
  BY NextLemma
<1> QED BY <1>1, <1>2, PTL DEF Spec

(***************************************************************************)
(* The variables keep their types: no operation leaves a handle with       *)
(* anything but a registry slot, LUA_NOREF or LUA_REFNIL.                  *)
(***************************************************************************)
THEOREM TypeCorrect == ASSUME Uses = {} PROVE Spec => []TypeOK
<1>1. IInv => TypeOK
  BY DEF IInv
<1> QED BY <1>1, Invariance, PTL

(***************************************************************************)
(* No slot ever has two owners, so no destructor or assignment of          *)
(* basic_reference frees a slot twice or under another handle.             *)
(***************************************************************************)
THEOREM SlotsAreNotShared == ASSUME Uses = {} PROVE Spec => []OneOwnerPerSlot
<1>1. IInv => OneOwnerPerSlot
  <2> SUFFICES ASSUME IInv, NEW h \in Owners, NEW g \in Owners, h # g
               PROVE  SlotOf(h) # SlotOf(g)
    BY DEF OneOwnerPerSlot
  <2>1. ref[h] = ref[g] => StateOf[luastate[h]] # StateOf[luastate[g]]
    BY DEF IInv, Sound
  <2> QED BY <2>1 DEF SlotOf
<1> QED BY <1>1, Invariance, PTL

(***************************************************************************)
(* Whatever a basic_reference refers to is alive, in the handle's own Lua  *)
(* state, however often it was copied, moved or pinned to other threads.   *)
(***************************************************************************)
THEOREM ReferencesKeepAlive == ASSUME Uses = {} PROVE Spec => []KeptAlive
<1>1. IInv => KeptAlive
  <2> SUFFICES ASSUME IInv, NEW h \in Owners
               PROVE  /\ luastate[h] # Null
                      /\ Pushed(regs, h) \in live
                      /\ Home[Pushed(regs, h)] = StateOf[luastate[h]]
    BY DEF KeptAlive
  <2>1. h \in objs /\ valid(h)
    BY DEF Owners
  <2> QED BY <2>1, PushedLemma, RefConstants
<1> QED BY <1>1, Invariance, PTL

(***************************************************************************)
(* Every occupied slot belongs to a handle that still exists: no sequence  *)
(* of operations on basic_reference pins an object for ever.               *)
(***************************************************************************)
THEOREM SlotsDoNotLeak == ASSUME Uses = {} PROVE Spec => []NoSlotLeak
<1>1. IInv => NoSlotLeak
  <2> SUFFICES ASSUME IInv, NEW u \in States, NEW s \in Occupied(regs[u])
               PROVE  \E h \in Owners : SlotOf(h) = <<u, s>>
    BY DEF NoSlotLeak
  <2>1. \E h \in Owners : StateOf[luastate[h]] = u /\ ref[h] = s
    BY DEF IInv, Sound
  <2> QED BY <2>1 DEF SlotOf
<1> QED BY <1>1, Invariance, PTL

(***************************************************************************)
(* Lua's free list of registry slots is never corrupted by the handles.    *)
(***************************************************************************)
THEOREM FreeListsStaySound == ASSUME Uses = {} PROVE Spec => []FreeListsSound
<1>1. IInv => FreeListsSound
  BY DEF IInv, Sound, FreeListsSound
<1> QED BY <1>1, Invariance, PTL

(***************************************************************************)
(* The slots of a registry are owned like memory: one owner for each slot  *)
(* in use, none for the others, and a free list nobody writes to.          *)
(***************************************************************************)
THEOREM SlotsAreOwned == ASSUME Uses = {} PROVE Spec => []SlotsOwned
<1>1. OneOwnerPerSlot /\ NoSlotLeak /\ FreeListsSound => SlotsOwned
  BY DEF SlotsOwned
<1> QED BY <1>1, SlotsAreNotShared, SlotsDoNotLeak, FreeListsStaySound, PTL

(***************************************************************************)
(* main_ handles work through main threads only: they survive the          *)
(* collection of every coroutine they ever met.                            *)
(***************************************************************************)
THEOREM MainHandlesAreImmune ==
    ASSUME Uses = {} PROVE Spec => []MainHandlesUseMainThread
<1>1. IInv => MainHandlesUseMainThread
  BY DEF IInv
<1> QED BY <1>1, Invariance, PTL

(***************************************************************************)
(* basic_reference implements handles that are values: the registry, its   *)
(* free list, the threads and the pinning of reference.hpp are invisible   *)
(* to a program that reads its handles.                                    *)
(***************************************************************************)
THEOREM Refinement == ASSUME Uses = {} PROVE Spec => HandlesAreValues
<1>1. Init => IInv /\ Abs!Init
  BY InitLemma
<1>2. IInv /\ [Next]_vars => IInv' /\ [Abs!Next]_Abs!vars
  BY NextLemma DEF AbsNext
<1> QED BY <1>1, <1>2, PTL DEF Spec, HandlesAreValues, Abs!Spec
=============================================================================

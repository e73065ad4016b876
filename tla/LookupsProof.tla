--------------------------- MODULE LookupsProof ---------------------------
(***************************************************************************)
(* What the modules of lookups promise: UsertypeStorage for any classes,   *)
(* names, values and declared bases, Tables for any tables, keys, paths and *)
(* walks.                                                                  *)
(***************************************************************************)
EXTENDS UsertypeStorage, Tables, SequenceTheorems, FiniteSetTheorems,
        WellFoundedInduction, TLAPS

-----------------------------------------------------------------------------
(* The invariant, as facts about the record of one class.                  *)

\* The fields of a class's record.
Shape(r) ==
    /\ DOMAIN r = {"live", "named", "gen", "storage", "string_keys",
                   "auxiliary_keys", "base", "slow", "derived", "entries",
                   "index", "new_index"}
    /\ DOMAIN r.base = Handling
    /\ DOMAIN r.entries = Tables
    /\ DOMAIN r.index = Tables /\ DOMAIN r.new_index = Tables

StringKeys == Names \cup MetaKeys
EntryKeys == Names \cup MetaKeys \cup Others \cup {"__gc", "__call"}
Bindings == [kind : Kinds, value : Values \cup {None}]

\* What TypeOK says of the record.
Typed(r) ==
    /\ r.live \in BOOLEAN /\ r.gen \in {0, 1} /\ r.slow \in BOOLEAN
    /\ IsMap(r.storage, Id, Bindings)
    /\ IsMap(r.string_keys, StringKeys, Id)
    /\ IsMap(r.auxiliary_keys, Others, Values)
    /\ \A k \in Handling : r.base[k] \in Id \cup {None}
    /\ \A t \in Tables : /\ IsMap(r.entries[t], EntryKeys, Entries)
                         /\ IsHook(r.index[t]) /\ IsHook(r.new_index[t])
    /\ r.derived \in Seq(Classes)

\* A key names the one binding the storage owns for it, a handler is the
\* binding of its key; call constructors have bindings without a key.
KeysSound(r) ==
    /\ \A k \in DOMAIN r.string_keys : /\ r.string_keys[k] \in DOMAIN r.storage
                                       /\ r.string_keys[k][1] = k
    /\ \A id \in DOMAIN r.storage :
          \/ id[1] = "call"
          \/ id[1] \in DOMAIN r.string_keys /\ r.string_keys[id[1]] = id
    /\ \A k \in Handling :
          IF k \in DOMAIN r.string_keys THEN r.base[k] = r.string_keys[k]
          ELSE r.base[k] = None
    /\ \A k \in MetaKeys \cap DOMAIN r.string_keys :
          r.storage[r.string_keys[k]].kind = "function"
    /\ \A id \in DOMAIN r.storage : r.storage[id].kind = "reference" =>
          r.storage[id].value \in Values

\* A closure lies where set() wrote it last, or is a call constructor.
EntriesSound(r) ==
    /\ \A t \in Tables : \A k \in DOMAIN r.entries[t] :
          "closure" \in DOMAIN r.entries[t][k] =>
             \/ /\ k \in DOMAIN r.string_keys /\ t \in Written(k)
                /\ r.entries[t][k].closure = r.string_keys[k]
             \/ /\ t = "named" /\ k = "__call"
                /\ r.entries[t][k].closure[1] = "call"
                /\ r.entries[t][k].closure \in DOMAIN r.storage
    /\ \A t \in Holding, k \in Names :
          /\ k \in DOMAIN r.entries[t] <=> k \in DOMAIN r.string_keys
          /\ k \in DOMAIN r.string_keys
             /\ r.storage[r.string_keys[k]].kind = "function" =>
                   r.entries[t][k] = Closure(r.string_keys[k])

\* Objects take the fast path as long as only functions are bound, and on
\* the slow one know the bases that were declared last.
HooksSound(r) ==
    /\ \A t \in Tables : \A h \in {r.index[t], r.new_index[t]} :
          h.is = "storage" => r.live /\ h.gen = r.gen
    /\ r.live =>
          /\ r.new_index["named"] # Absent
          /\ \A t \in Holding :
                /\ r.index[t] = IF r.slow THEN Ask(r.gen, r.derived) ELSE Itself
                /\ r.new_index[t] = Ask(r.gen, r.derived)
          /\ ~r.slow => /\ r.derived = <<>> /\ r.base["__index"] = None
                        /\ \A k \in DOMAIN r.string_keys :
                              r.storage[r.string_keys[k]].kind = "function"

\* Of a class that is not registered nothing is left.
NothingLeft(r) ==
    ~r.live =>
        /\ r.storage = <<>> /\ r.string_keys = <<>> /\ r.auxiliary_keys = <<>>
        /\ ~r.slow /\ r.derived = <<>>
        /\ \A k \in Handling : r.base[k] = None
        /\ \A t \in Tables : r.index[t] = Absent /\ r.new_index[t] = Absent
        /\ \A t \in Metatables : r.entries[t] = <<>>

Sound(r) == /\ Shape(r) /\ Typed(r) /\ KeysSound(r) /\ EntriesSound(r)
            /\ HooksSound(r) /\ NothingLeft(r)

LastTyped == \/ last = None
             \/ last \in [class : Classes, key : Names \cup Others, value : Values]

IInv == /\ DOMAIN class = Classes /\ \A c \in Classes : Sound(class[c])
        /\ LastTyped

-----------------------------------------------------------------------------
(* Maps, numbers, names.                                                   *)

\* The least number of a set is one of them.
LEMMA LeastFacts ==
    ASSUME NEW S, S \subseteq Nat, S # {}
    PROVE  First(S) \in S /\ \A j \in S : First(S) <= j
<1> DEFINE R == {p \in Nat \X Nat : p[1] < p[2]}
<1>1. IsWellFoundedOn(OpToRel(<, Nat), Nat)
  BY NatLessThanWellFounded
<1>2. OpToRel(<, Nat) = R
  BY DEF OpToRel
<1>3. IsWellFoundedOn(R, Nat)
  BY <1>1, <1>2
<1> HIDE DEF R
<1>4. PICK i \in S : \A j \in S : ~ (<<j, i>> \in R)
  BY <1>3, WFMin
<1>5. \A j \in S : i <= j
  <2> SUFFICES ASSUME NEW j \in S PROVE i <= j
    OBVIOUS
  <2>1. ~ (<<j, i>> \in R) /\ j \in Nat /\ i \in Nat
    BY <1>4
  <2>2. <<j, i>> \in Nat \X Nat /\ <<j, i>>[1] = j /\ <<j, i>>[2] = i
    BY <2>1
  <2>3. ~ (j < i)
    BY <2>1, <2>2 DEF R
  <2> QED BY <2>1, <2>3
<1> QED BY <1>4, <1>5 DEF First

\* Names, handlers and keys that are no strings are different things.
LEMMA KeyFacts ==
    /\ "call" \notin StringKeys /\ StringKeys \cap Others = {}
    /\ Handling \cap Names = {} /\ "__gc" \notin Names
    /\ Names \cap Others = {} /\ Names \cap MetaKeys = {}
    /\ Handling \cap Others = {} /\ "__gc" \notin Others
BY StorageAssumption DEF StringKeys, AllMetaKeys, Handling

\* The ways to hold an object, the metatables and the tables.
LEMMA TableFacts ==
    /\ Holding \subseteq Tables /\ Metatables \subseteq Tables /\ Holding \subseteq Metatables
    /\ Pointers \subseteq Holding
    /\ "named" \in Metatables /\ "named" \notin Holding
    /\ "T" \in Tables /\ "T" \notin Metatables
    /\ Cleared = Tables
    /\ \A t \in Tables : t \in Metatables \/ t = "T"
    /\ \A t \in Metatables : t \in Holding \/ t = "named"
BY DEF Holding, Metatables, Tables, Pointers, Cleared

\* A name is written into every table that objects are held with.
LEMMA WrittenFacts ==
    /\ \A k \in Names : Written(k) = Holding
    /\ \A k : Written(k) \subseteq Holding
BY KeyFacts DEF Written, Holding, Pointers

\* The three kinds of hooks differ.
LEMMA HookFacts ==
    /\ Absent.is = "absent" /\ Itself.is = "table" /\ IsHook(Absent) /\ IsHook(Itself)
    /\ \A gen, bases : /\ Ask(gen, bases).is = "storage" /\ Ask(gen, bases).gen = gen
                       /\ Ask(gen, bases).bases = bases /\ Ask(gen, bases) # Absent
    /\ \A gen \in {0, 1}, bases \in Seq(Classes) : IsHook(Ask(gen, bases))
BY DEF Absent, Itself, Ask, IsHook

\* The three kinds of entries differ.
LEMMA EntryFacts ==
    /\ \A id \in Id : Closure(id) \in Entries
    /\ \A id : "closure" \in DOMAIN Closure(id) /\ Closure(id).closure = id
    /\ \A v \in Values : Plain(v) \in Entries
    /\ \A v : "closure" \notin DOMAIN Plain(v)
    /\ Builtin \in Entries /\ "closure" \notin DOMAIN Builtin
BY DEF Closure, Plain, Builtin, Entries

\* The id of a new binding is free.
LEMMA NewIdFree ==
    ASSUME NEW r, NEW key,
           \E n \in 1 .. MaxPerKey : <<key, n>> \notin DOMAIN r.storage
    PROVE  \E n \in 1 .. MaxPerKey : /\ NewId(r, key) = <<key, n>>
                                     /\ <<key, n>> \notin DOMAIN r.storage
<1> DEFINE S == {n \in 1 .. MaxPerKey : <<key, n>> \notin DOMAIN r.storage}
           P(n) == /\ <<key, n>> \notin DOMAIN r.storage
                   /\ \A m \in 1 .. n - 1 : <<key, m>> \in DOMAIN r.storage
<1>1. S \subseteq Nat /\ S # {} /\ MaxPerKey \in Nat
  BY StorageAssumption
<1>2. First(S) \in S /\ \A j \in S : First(S) <= j
  BY <1>1, LeastFacts
<1>3. \E n \in 1 .. MaxPerKey : P(n)
  <2> DEFINE n == First(S)
  <2>1. n \in 1 .. MaxPerKey /\ <<key, n>> \notin DOMAIN r.storage
    BY <1>2
  <2>2. \A m \in 1 .. n - 1 : m \in 1 .. MaxPerKey /\ ~ (n <= m)
    <3>1. \A j \in S : n <= j
      BY <1>2
    <3> HIDE DEF n, S
    <3> QED BY <1>1, <2>1
  <2>3. \A m \in 1 .. n - 1 : m \notin S
    BY <1>2, <2>2
  <2> HIDE DEF n
  <2> QED BY <2>1, <2>2, <2>3
<1> DEFINE m == CHOOSE n \in 1 .. MaxPerKey : P(n)
<1>4. m \in 1 .. MaxPerKey /\ P(m)
  BY <1>3
<1>5. NewId(r, key) = <<key, m>>
  BY DEF NewId
<1> QED BY <1>4, <1>5

\* A key has at most one binding, so one of two ids is always free.
LEMMA NewIdFacts ==
    ASSUME NEW r, Sound(r), NEW key \in StringKeys
    PROVE  /\ NewId(r, key) \in Id /\ NewId(r, key)[1] = key
           /\ NewId(r, key) \notin DOMAIN r.storage
<1>1. 1 \in 1 .. MaxPerKey /\ 2 \in 1 .. MaxPerKey
  BY StorageAssumption
<1>2. <<key, 1>> \notin DOMAIN r.storage \/ <<key, 2>> \notin DOMAIN r.storage
  <2>1. key # "call"
    BY KeyFacts
  <2>2. \A id \in DOMAIN r.storage : id[1] = key => r.string_keys[key] = id
    BY <2>1 DEF Sound, KeysSound
  <2>3. <<key, 1>> # <<key, 2>> /\ <<key, 1>>[1] = key /\ <<key, 2>>[1] = key
    OBVIOUS
  <2> QED BY <2>2, <2>3
<1>3. \E n \in 1 .. MaxPerKey : <<key, n>> \notin DOMAIN r.storage
  BY <1>1, <1>2
<1>4. PICK n \in 1 .. MaxPerKey : /\ NewId(r, key) = <<key, n>>
                                  /\ <<key, n>> \notin DOMAIN r.storage
  BY <1>3, NewIdFree
<1> QED BY <1>4 DEF Id, StringKeys

\* The empty map.
LEMMA EmptyMap ==
    DOMAIN <<>> = {} /\ \A D, R : IsMap(<<>>, D, R)
BY DEF IsMap

-----------------------------------------------------------------------------
(* The operations on one class keep its record sound.                      *)

\* unregister.
LEMMA ClearSound ==
    ASSUME NEW r, Sound(r)
    PROVE  Sound(clear(r)) /\ ~clear(r).live /\ clear(r).gen = r.gen
<1> DEFINE q == clear(r)
<1>0. Shape(r) /\ Typed(r)
  BY DEF Sound
<1>1. /\ DOMAIN q = DOMAIN r /\ q.live = FALSE /\ q.gen = r.gen /\ q.storage = <<>>
      /\ q.string_keys = <<>> /\ q.auxiliary_keys = <<>> /\ q.slow = FALSE
      /\ q.derived = <<>>
      /\ q.base = [k \in Handling |-> None]
      /\ q.entries = [t \in Tables |-> <<>>]
      /\ q.index = [t \in Tables |-> Absent]
      /\ q.new_index = [t \in Tables |-> Absent]
  BY <1>0, TableFacts DEF clear, Shape
<1> HIDE DEF q
<1>2. Shape(q)
  BY <1>0, <1>1 DEF Shape
<1>3. Typed(q)
  <2>1. <<>> \in Seq(Classes) /\ None \in Id \cup {None}
    OBVIOUS
  <2>2. \A t \in Tables : /\ IsMap(q.entries[t], EntryKeys, Entries)
                         /\ IsHook(q.index[t]) /\ IsHook(q.new_index[t])
    BY <1>1, EmptyMap, HookFacts
  <2>3. \A k \in Handling : q.base[k] \in Id \cup {None}
    BY <1>1, <2>1
  <2>4. /\ IsMap(q.storage, Id, Bindings) /\ IsMap(q.string_keys, StringKeys, Id)
        /\ IsMap(q.auxiliary_keys, Others, Values)
    BY <1>1, EmptyMap
  <2>5. q.live \in BOOLEAN /\ q.gen \in {0, 1} /\ q.slow \in BOOLEAN
        /\ q.derived \in Seq(Classes)
    BY <1>0, <1>1, <2>1 DEF Typed
  <2> QED BY <2>2, <2>3, <2>4, <2>5 DEF Typed
<1>4. KeysSound(q)
  BY <1>1, EmptyMap DEF KeysSound
<1>5. EntriesSound(q)
  BY <1>1, EmptyMap, TableFacts DEF EntriesSound
<1>6. HooksSound(q)
  BY <1>1, HookFacts DEF HooksSound
<1>7. NothingLeft(q)
  BY <1>1, TableFacts DEF NothingLeft
<1> QED BY <1>1, <1>2, <1>3, <1>4, <1>5, <1>6, <1>7 DEF Sound, q

\* register_usertype, whatever the tables held.
LEMMA FreshSound ==
    ASSUME NEW r, Sound(r)
    PROVE  Sound(Fresh(r)) /\ Fresh(r).live
<1> DEFINE q == IF r.live THEN clear(r) ELSE r
           gen == 1 - q.gen
           p == Fresh(r)
<1>1. Sound(q) /\ ~q.live
  BY ClearSound
<1>2. p = [q EXCEPT
          !.live = TRUE, !.named = TRUE, !.gen = gen,
          !.entries = [t \in Tables |->
              IF t \in Holding \ Pointers THEN Bind(@[t], "__gc", Builtin)
              ELSE @[t]],
          !.index = [t \in Tables |-> IF t \in Holding THEN Itself
                                      ELSE IF t = "named" THEN Ask(gen, <<>>)
                                      ELSE @[t]],
          !.new_index = [t \in Tables |-> IF t \in Metatables
                                          THEN Ask(gen, <<>>) ELSE @[t]]]
  BY DEF Fresh
<1> HIDE DEF q, gen
<1>3. /\ DOMAIN p = DOMAIN q /\ p.live = TRUE /\ p.gen = gen /\ p.storage = q.storage
      /\ p.string_keys = q.string_keys /\ p.auxiliary_keys = q.auxiliary_keys
      /\ p.base = q.base /\ p.slow = q.slow /\ p.derived = q.derived
      /\ p.entries = [t \in Tables |->
             IF t \in Holding \ Pointers THEN Bind(q.entries[t], "__gc", Builtin)
             ELSE q.entries[t]]
      /\ p.index = [t \in Tables |-> IF t \in Holding THEN Itself
                                     ELSE IF t = "named" THEN Ask(gen, <<>>)
                                     ELSE q.index[t]]
      /\ p.new_index = [t \in Tables |-> IF t \in Metatables
                                         THEN Ask(gen, <<>>) ELSE q.new_index[t]]
  BY <1>1, <1>2 DEF Sound, Shape
<1> HIDE DEF p
<1>4. /\ q.storage = <<>> /\ q.string_keys = <<>> /\ q.auxiliary_keys = <<>>
      /\ q.slow = FALSE /\ q.derived = <<>> /\ gen \in {0, 1}
      /\ \A k \in Handling : q.base[k] = None
      /\ \A t \in Tables : q.index[t] = Absent /\ q.new_index[t] = Absent
      /\ \A t \in Metatables : q.entries[t] = <<>>
  BY <1>1 DEF Sound, NothingLeft, Typed, gen
<1>5. Shape(p)
  BY <1>1, <1>3 DEF Sound, Shape
<1>6. \A t \in Tables :
         /\ t \in Holding \ Pointers => /\ DOMAIN p.entries[t] = {"__gc"}
                                        /\ p.entries[t]["__gc"] = Builtin
         /\ t \in Metatables \ (Holding \ Pointers) => DOMAIN p.entries[t] = {}
         /\ t = "T" => p.entries[t] = q.entries[t]
  <2> SUFFICES ASSUME NEW t \in Tables
      PROVE  /\ t \in Holding \ Pointers => /\ DOMAIN p.entries[t] = {"__gc"}
                                            /\ p.entries[t]["__gc"] = Builtin
             /\ t \in Metatables \ (Holding \ Pointers) => DOMAIN p.entries[t] = {}
             /\ t = "T" => p.entries[t] = q.entries[t]
    OBVIOUS
  <2>1. p.entries[t] = IF t \in Holding \ Pointers THEN Bind(q.entries[t], "__gc", Builtin)
                       ELSE q.entries[t]
    BY <1>3
  <2>2. t \in Metatables => DOMAIN q.entries[t] = {}
    BY <1>4, EmptyMap
  <2>3. /\ DOMAIN Bind(q.entries[t], "__gc", Builtin) = DOMAIN q.entries[t] \cup {"__gc"}
        /\ Bind(q.entries[t], "__gc", Builtin)["__gc"] = Builtin
    BY DEF Bind
  <2> QED BY <2>1, <2>2, <2>3, TableFacts
<1>7. Typed(p)
  <2>1. \A t \in Tables : IsMap(p.entries[t], EntryKeys, Entries)
    <3> SUFFICES ASSUME NEW t \in Tables PROVE IsMap(p.entries[t], EntryKeys, Entries)
      OBVIOUS
    <3>1. CASE t \in Holding \ Pointers
      BY <1>6, <3>1, EntryFacts DEF IsMap, EntryKeys
    <3>2. CASE t \in Metatables \ (Holding \ Pointers)
      BY <1>6, <3>2 DEF IsMap
    <3>3. CASE t = "T"
      BY <1>1, <1>6, <3>3 DEF Sound, Typed
    <3> QED BY <3>1, <3>2, <3>3, TableFacts
  <2>2. \A t \in Tables : IsHook(p.index[t]) /\ IsHook(p.new_index[t])
    <3>1. <<>> \in Seq(Classes)
      OBVIOUS
    <3>2. IsHook(Ask(gen, <<>>)) /\ IsHook(Absent) /\ IsHook(Itself)
      BY <1>4, <3>1, HookFacts
    <3>3. \A t \in Tables : /\ p.index[t] \in {Itself, Ask(gen, <<>>), Absent}
                           /\ p.new_index[t] \in {Ask(gen, <<>>), Absent}
      BY <1>3, <1>4
    <3> QED BY <3>2, <3>3
  <2> QED BY <1>1, <1>3, <1>4, <2>1, <2>2 DEF Sound, Typed
<1>8. KeysSound(p)
  BY <1>3, <1>4, EmptyMap DEF KeysSound
<1>9. EntriesSound(p)
  <2>1. \A k \in DOMAIN q.entries["T"] : "closure" \notin DOMAIN q.entries["T"][k]
    BY <1>1, <1>4, EmptyMap, TableFacts DEF Sound, EntriesSound
  <2>2. \A t \in Tables : \A k \in DOMAIN p.entries[t] : "closure" \notin DOMAIN p.entries[t][k]
    BY <1>6, <2>1, EntryFacts, TableFacts
  <2>3. \A t \in Holding : \A k \in DOMAIN p.entries[t] : k = "__gc"
    BY <1>6, TableFacts
  <2> QED BY <1>3, <1>4, <2>2, <2>3, EmptyMap, KeyFacts DEF EntriesSound
<1>10. HooksSound(p)
  <2>1. \A t \in Tables : \A h \in {p.index[t], p.new_index[t]} :
          h.is = "storage" => p.live /\ h.gen = p.gen
    BY <1>3, <1>4, HookFacts
  <2>2. p.base["__index"] = None /\ "__index" \in Handling
    BY <1>3, <1>4 DEF Handling
  <2> QED BY <1>3, <1>4, <2>1, <2>2, EmptyMap, HookFacts, TableFacts DEF HooksSound
<1>11. NothingLeft(p)
  BY <1>3 DEF NothingLeft
<1> QED BY <1>3, <1>5, <1>7, <1>8, <1>9, <1>10, <1>11 DEF Sound, p

\* The tables change_indexing gives new hooks, and what it leaves of a record.
Asked(tables) == {IF t = "named" THEN "T" ELSE t : t \in tables}

Slowed(q, r, where, bases) ==
    /\ Shape(q) /\ q.slow = TRUE
    /\ q.live = r.live /\ q.gen = r.gen /\ q.storage = r.storage
    /\ q.string_keys = r.string_keys /\ q.auxiliary_keys = r.auxiliary_keys
    /\ q.base = r.base /\ q.derived = r.derived /\ q.entries = r.entries
    /\ \A t \in Tables :
          /\ q.index[t] = IF t \in where THEN Ask(r.gen, bases) ELSE r.index[t]
          /\ q.new_index[t] = IF t \in where THEN Ask(r.gen, bases)
                              ELSE r.new_index[t]

\* change_indexing does this.
LEMMA ChangeFacts ==
    ASSUME NEW r, Shape(r), NEW tables, NEW bases
    PROVE  Slowed(change_indexing(r, tables, bases), r, Asked(tables), bases)
<1> DEFINE q == change_indexing(r, tables, bases)
<1>1. q = [r EXCEPT !.slow = TRUE,
              !.index = [t \in Tables |-> IF t \in Asked(tables) THEN Ask(r.gen, bases)
                                          ELSE r.index[t]],
              !.new_index = [t \in Tables |-> IF t \in Asked(tables) THEN Ask(r.gen, bases)
                                              ELSE r.new_index[t]]]
  BY DEF change_indexing, Shape, Asked
<1> HIDE DEF q
<1> QED BY <1>1 DEF Shape, Slowed, q

\* The tables whose hooks the two callers of change_indexing replace.
LEMMA WhereFacts ==
    /\ Asked(Holding) = Holding
    /\ Asked(Metatables) = Holding \cup {"T"}
BY DEF Asked, Holding, Metatables, Pointers

\* Declaring bases.
LEMMA BasesSound ==
    ASSUME NEW r, Sound(r), r.live, NEW bases \in Seq(Classes)
    PROVE  Sound(update_bases(r, bases))
<1>1. CASE bases = <<>>
  BY <1>1 DEF update_bases
<1>2. CASE bases # <<>>
  <2> DEFINE q == change_indexing(r, Metatables, bases)
             p == update_bases(r, bases)
             where == Asked(Metatables)
  <2>0. Shape(r) /\ where = Holding \cup {"T"}
    BY WhereFacts DEF Sound
  <2>1. Slowed(q, r, where, bases)
    BY <2>0, ChangeFacts
  <2> HIDE DEF where
  <2>2. p = [q EXCEPT !.derived = bases]
    BY <1>2 DEF update_bases
  <2> HIDE DEF q, p
  <2>3. /\ Shape(p) /\ p.slow = TRUE /\ p.derived = bases
        /\ p.live = r.live /\ p.gen = r.gen /\ p.storage = r.storage
        /\ p.string_keys = r.string_keys /\ p.auxiliary_keys = r.auxiliary_keys
        /\ p.base = r.base /\ p.entries = r.entries
        /\ \A t \in Tables :
              /\ p.index[t] = IF t \in where THEN Ask(r.gen, bases) ELSE r.index[t]
              /\ p.new_index[t] = IF t \in where THEN Ask(r.gen, bases)
                                  ELSE r.new_index[t]
    BY <2>1, <2>2 DEF Shape, Slowed
  <2>4. Typed(p)
    <3>1. IsHook(Ask(r.gen, bases))
      BY HookFacts DEF Sound, Typed
    <3>2. \A t \in Tables : /\ IsMap(p.entries[t], EntryKeys, Entries)
                            /\ IsHook(p.index[t]) /\ IsHook(p.new_index[t])
      BY <2>3, <3>1 DEF Sound, Typed
    <3> QED BY <2>3, <3>2 DEF Sound, Typed
  <2>5. KeysSound(p)
    BY <2>3 DEF Sound, KeysSound
  <2>6. EntriesSound(p)
    BY <2>3 DEF Sound, EntriesSound
  <2>7. HooksSound(p)
    <3>1. \A t \in Tables : \A h \in {p.index[t], p.new_index[t]} :
            h.is = "storage" => p.live /\ h.gen = p.gen
      BY <2>3, HookFacts DEF Sound, HooksSound
    <3>2. p.new_index["named"] # Absent
      BY <2>0, <2>3, TableFacts DEF Sound, HooksSound
    <3>3. \A t \in Holding : /\ p.index[t] = Ask(p.gen, p.derived)
                             /\ p.new_index[t] = Ask(p.gen, p.derived)
      BY <2>0, <2>3, TableFacts
    <3> QED BY <2>3, <3>1, <3>2, <3>3 DEF HooksSound
  <2>8. NothingLeft(p)
    BY <2>3 DEF NothingLeft
  <2> QED BY <2>3, <2>4, <2>5, <2>6, <2>7, <2>8 DEF Sound, p
<1> QED BY <1>1, <1>2

\* A key that is no string.
LEMMA AuxiliarySound ==
    ASSUME NEW r, Sound(r), r.live, NEW key \in Others, NEW value \in Values
    PROVE  Sound(set_auxiliary(r, key, value))
<1> DEFINE p == set_auxiliary(r, key, value)
           e == Plain(value)
<1>1. p = [r EXCEPT
       !.entries = [t \in Tables |-> IF t \in Holding THEN Bind(r.entries[t], key, e)
                                     ELSE r.entries[t]],
       !.auxiliary_keys = Bind(r.auxiliary_keys, key, value)]
  BY DEF set_auxiliary, Sound, Shape
<1> HIDE DEF p
<1>2. /\ Shape(p) /\ p.slow = r.slow /\ p.derived = r.derived
      /\ p.live = r.live /\ p.gen = r.gen /\ p.storage = r.storage
      /\ p.string_keys = r.string_keys /\ p.auxiliary_keys = Bind(r.auxiliary_keys, key, value)
      /\ p.base = r.base /\ p.index = r.index /\ p.new_index = r.new_index
      /\ \A t \in Tables : p.entries[t] = IF t \in Holding THEN Bind(r.entries[t], key, e)
                                          ELSE r.entries[t]
  BY <1>1 DEF Sound, Shape
<1>3. \A t \in Tables :
         /\ t \notin Holding => p.entries[t] = r.entries[t]
         /\ t \in Holding => /\ DOMAIN p.entries[t] = DOMAIN r.entries[t] \cup {key}
                             /\ p.entries[t][key] = e
                             /\ \A x \in DOMAIN r.entries[t] : x # key =>
                                   p.entries[t][x] = r.entries[t][x]
  BY <1>2 DEF Bind
<1>4. e \in Entries /\ "closure" \notin DOMAIN e /\ key \in EntryKeys
  BY EntryFacts DEF EntryKeys
<1> HIDE DEF e
<1>5. Typed(p)
  <2>1. \A t \in Tables : IsMap(p.entries[t], EntryKeys, Entries)
    BY <1>3, <1>4 DEF Sound, Typed, IsMap
  <2>2. IsMap(p.auxiliary_keys, Others, Values)
    BY <1>2 DEF Sound, Typed, IsMap, Bind
  <2> QED BY <1>2, <2>1, <2>2 DEF Sound, Typed
<1>6. KeysSound(p)
  BY <1>2 DEF Sound, KeysSound
<1>7. EntriesSound(p)
  <2>1. \A t \in Tables : \A k \in DOMAIN p.entries[t] :
           "closure" \in DOMAIN p.entries[t][k] =>
              k \in DOMAIN r.entries[t] /\ p.entries[t][k] = r.entries[t][k]
    BY <1>3, <1>4
  <2>2. \A t \in Holding, k \in Names :
          /\ k \in DOMAIN p.entries[t] <=> k \in DOMAIN r.entries[t]
          /\ k \in DOMAIN r.entries[t] => p.entries[t][k] = r.entries[t][k]
    BY <1>3, KeyFacts, TableFacts
  <2> QED BY <1>2, <2>1, <2>2 DEF Sound, EntriesSound
<1>8. HooksSound(p)
  BY <1>2 DEF Sound, HooksSound
<1>9. NothingLeft(p)
  BY <1>2 DEF NothingLeft
<1> QED BY <1>2, <1>5, <1>6, <1>7, <1>8, <1>9 DEF Sound, p

\* Another call constructor beside the earlier ones.
LEMMA CallSound ==
    ASSUME NEW r, Sound(r), r.live,
           \E n \in 1 .. MaxPerKey : <<"call", n>> \notin DOMAIN r.storage
    PROVE  Sound(set_call(r))
<1> DEFINE p == set_call(r)
           id == NewId(r, "call")
           e == Closure(id)
           b == [kind |-> "function", value |-> None]
<1>1. id \in Id /\ id \notin DOMAIN r.storage /\ id[1] = "call"
  <2>1. PICK n \in 1 .. MaxPerKey : /\ id = <<"call", n>>
                                    /\ <<"call", n>> \notin DOMAIN r.storage
    BY NewIdFree
  <2> QED BY <2>1 DEF Id
<1>2. p = [r EXCEPT !.storage = Bind(r.storage, id, b),
                    !.entries["named"] = Bind(r.entries["named"], "__call", e)]
  BY DEF set_call, Sound, Shape
<1> HIDE DEF p, id
<1>3. /\ Shape(p) /\ p.slow = r.slow /\ p.derived = r.derived
      /\ p.live = r.live /\ p.gen = r.gen /\ p.storage = Bind(r.storage, id, b)
      /\ p.string_keys = r.string_keys /\ p.auxiliary_keys = r.auxiliary_keys
      /\ p.base = r.base /\ p.index = r.index /\ p.new_index = r.new_index
      /\ \A t \in Tables : p.entries[t] =
            IF t = "named" THEN Bind(r.entries["named"], "__call", e) ELSE r.entries[t]
  BY <1>2 DEF Sound, Shape
<1>4. /\ DOMAIN p.storage = DOMAIN r.storage \cup {id}
      /\ p.storage[id] = b /\ \A x \in DOMAIN r.storage : p.storage[x] = r.storage[x]
  BY <1>1, <1>3 DEF Bind
<1>5. /\ DOMAIN p.entries["named"] = DOMAIN r.entries["named"] \cup {"__call"}
      /\ p.entries["named"]["__call"] = e
      /\ \A x \in DOMAIN r.entries["named"] : x # "__call" =>
            p.entries["named"][x] = r.entries["named"][x]
      /\ \A t \in Tables : t # "named" => p.entries[t] = r.entries[t]
  <2> HIDE DEF e, b
  <2> DEFINE f == r.entries["named"]
             g == p.entries["named"]
  <2>1. g = Bind(f, "__call", e) /\ \A t \in Tables : t # "named" => p.entries[t] = r.entries[t]
    BY <1>3, TableFacts
  <2> HIDE DEF f, g
  <2>2. /\ DOMAIN g = DOMAIN f \cup {"__call"} /\ g["__call"] = e
        /\ \A x \in DOMAIN f : x # "__call" => g[x] = f[x]
    BY <2>1 DEF Bind
  <2> QED BY <2>1, <2>2 DEF f, g
<1>6. e \in Entries /\ "closure" \in DOMAIN e /\ e.closure = id /\ "__call" \in EntryKeys
      /\ b \in Bindings /\ b.kind = "function"
  BY <1>1, EntryFacts DEF EntryKeys, Bindings, Kinds
<1> HIDE DEF e, b
<1>7. Typed(p)
  <2>1. \A t \in Tables : IsMap(p.entries[t], EntryKeys, Entries)
    BY <1>5, <1>6 DEF Sound, Typed, IsMap
  <2>2. IsMap(p.storage, Id, Bindings)
    BY <1>1, <1>4, <1>6 DEF Sound, Typed, IsMap
  <2> QED BY <1>3, <2>1, <2>2 DEF Sound, Typed
<1>8. \A k \in DOMAIN r.string_keys : /\ r.string_keys[k] \in DOMAIN r.storage
                                      /\ r.string_keys[k] # id
  BY <1>1 DEF Sound, KeysSound
<1>9. KeysSound(p)
  <2>1. \A x \in DOMAIN p.storage : p.storage[x].kind = "reference" =>
           p.storage[x].value \in Values
    BY <1>4, <1>6 DEF Sound, KeysSound
  <2>2. \A x \in DOMAIN p.storage :
          \/ x[1] = "call"
          \/ x[1] \in DOMAIN p.string_keys /\ p.string_keys[x[1]] = x
    BY <1>1, <1>3, <1>4 DEF Sound, KeysSound
  <2>3. \A k \in DOMAIN p.string_keys : /\ p.string_keys[k] \in DOMAIN p.storage
                                        /\ p.string_keys[k][1] = k
    BY <1>3, <1>4 DEF Sound, KeysSound
  <2>4. \A k \in MetaKeys \cap DOMAIN p.string_keys :
           p.storage[p.string_keys[k]].kind = "function"
    BY <1>3, <1>4, <1>8 DEF Sound, KeysSound
  <2>5. \A k \in Handling :
          IF k \in DOMAIN p.string_keys THEN p.base[k] = p.string_keys[k]
          ELSE p.base[k] = None
    BY <1>3 DEF Sound, KeysSound
  <2> QED BY <2>1, <2>2, <2>3, <2>4, <2>5 DEF KeysSound
<1>10. EntriesSound(p)
  <2>1. \A t \in Tables : \A k \in DOMAIN p.entries[t] :
           "closure" \in DOMAIN p.entries[t][k] =>
             \/ /\ k \in DOMAIN p.string_keys /\ t \in Written(k)
                /\ p.entries[t][k].closure = p.string_keys[k]
             \/ /\ t = "named" /\ k = "__call"
                /\ p.entries[t][k].closure[1] = "call"
                /\ p.entries[t][k].closure \in DOMAIN p.storage
    <3> SUFFICES ASSUME NEW t \in Tables, NEW k \in DOMAIN p.entries[t],
                        "closure" \in DOMAIN p.entries[t][k],
                        ~ (t = "named" /\ k = "__call")
                 PROVE  /\ k \in DOMAIN p.string_keys /\ t \in Written(k)
                        /\ p.entries[t][k].closure = p.string_keys[k]
      BY <1>1, <1>4, <1>5, <1>6
    <3>1. k \in DOMAIN r.entries[t] /\ p.entries[t][k] = r.entries[t][k]
      BY <1>5
    <3> QED BY <1>3, <3>1 DEF Sound, EntriesSound
  <2>2. \A t \in Holding : t \in Tables /\ p.entries[t] = r.entries[t]
    BY <1>5, TableFacts
  <2>3. \A k \in DOMAIN p.string_keys :
           p.storage[p.string_keys[k]] = r.storage[r.string_keys[k]]
    BY <1>3, <1>4, <1>8
  <2> QED BY <1>3, <2>1, <2>2, <2>3 DEF Sound, EntriesSound
<1>11. HooksSound(p)
  <2>1. \A k \in DOMAIN p.string_keys :
           p.storage[p.string_keys[k]] = r.storage[r.string_keys[k]]
    BY <1>3, <1>4, <1>8
  <2> QED BY <1>3, <2>1 DEF Sound, HooksSound
<1>12. NothingLeft(p)
  BY <1>3 DEF NothingLeft
<1> QED BY <1>3, <1>7, <1>9, <1>10, <1>11, <1>12 DEF Sound, p
\* What set() leaves where a lookup of the key goes.
IsSet(p, key, kind, value) ==
    /\ key \in DOMAIN p.string_keys
    /\ p.storage[p.string_keys[key]] = [kind |-> kind, value |-> value]
    /\ \A t \in Written(key) : /\ key \in DOMAIN p.entries[t]
                               /\ kind = "reference" => p.entries[t][key] = Plain(value)

\* Binding a member or a handler, by the program or by a script.
LEMMA SetSound ==
    ASSUME NEW r, Sound(r), r.live, NEW key \in StringKeys, NEW kind \in Kinds,
           key \in MetaKeys => kind = "function",
           NEW value \in Values \cup {None}, kind = "reference" => value \in Values
    PROVE  /\ Sound(set(r, key, kind, value)) /\ set(r, key, kind, value).live
           /\ IsSet(set(r, key, kind, value), key, kind, value)
<1> DEFINE p == set(r, key, kind, value)
           id == NewId(r, key)
           q == IF Poison(r, key, kind) THEN change_indexing(r, Holding, <<>>) ELSE r
           old == IF key \in DOMAIN r.string_keys THEN r.string_keys[key] ELSE None
           entry == IF kind = "reference" THEN Plain(value) ELSE Closure(id)
           b == [kind |-> kind, value |-> value]
<1>1. id \in Id /\ id \notin DOMAIN r.storage /\ id[1] = key
  BY NewIdFacts
<1>2. /\ Shape(p) /\ p.slow = q.slow
      /\ p.derived = r.derived /\ p.live = r.live /\ p.gen = r.gen
      /\ p.auxiliary_keys = r.auxiliary_keys
      /\ p.index = q.index /\ p.new_index = q.new_index
      /\ p.storage = replaced(r.storage, old, id, b)
      /\ p.base = Handlers(r.base, key, id)
      /\ p.string_keys = Bind(r.string_keys, key, id)
      /\ \A t \in Tables :
            p.entries[t] = IF t \in Written(key) THEN Bind(r.entries[t], key, entry)
                           ELSE r.entries[t]
  <2> HIDE DEF id, entry, old, b
  <2>1. Shape(r)
    BY DEF Sound
  <2>2. /\ Shape(q) /\ q.live = r.live /\ q.gen = r.gen /\ q.storage = r.storage
        /\ q.string_keys = r.string_keys /\ q.auxiliary_keys = r.auxiliary_keys
        /\ q.base = r.base /\ q.derived = r.derived /\ q.entries = r.entries
    <3>1. CASE Poison(r, key, kind)
      <4>1. Slowed(q, r, Asked(Holding), <<>>)
        BY <2>1, <3>1, ChangeFacts
      <4> QED BY <4>1 DEF Slowed
    <3>2. CASE ~Poison(r, key, kind)
      BY <2>1, <3>2
    <3> QED BY <3>1, <3>2
  <2>3. p = [q EXCEPT
            !.storage = replaced(q.storage, old, id, b),
            !.base = Handlers(q.base, key, id),
            !.entries = [t \in Tables |-> IF t \in Written(key)
                                          THEN Bind(q.entries[t], key, entry)
                                          ELSE q.entries[t]],
            !.string_keys = Bind(q.string_keys, key, id)]
    BY <2>2 DEF set, Shape, id, entry, old, b
  <2> HIDE DEF p, q
  <2>4. DOMAIN Handlers(q.base, key, id) = DOMAIN q.base
    BY DEF Handlers
  <2>5. /\ DOMAIN p = DOMAIN q /\ p.slow = q.slow /\ p.derived = q.derived
        /\ p.live = q.live /\ p.gen = q.gen /\ p.auxiliary_keys = q.auxiliary_keys
        /\ p.index = q.index /\ p.new_index = q.new_index
        /\ p.storage = replaced(q.storage, old, id, b)
        /\ p.base = Handlers(q.base, key, id)
        /\ p.string_keys = Bind(q.string_keys, key, id)
        /\ p.entries = [t \in Tables |-> IF t \in Written(key)
                                         THEN Bind(q.entries[t], key, entry)
                                         ELSE q.entries[t]]
    BY <2>2, <2>3 DEF Shape
  <2> QED BY <2>2, <2>4, <2>5 DEF Shape
<1>3. b \in Bindings /\ b.kind = kind /\ b.value = value
  BY DEF Bindings
<1>4. /\ entry \in Entries
      /\ "closure" \in DOMAIN entry => entry.closure = id
      /\ kind # "reference" => entry = Closure(id)
      /\ kind = "reference" => entry = Plain(value)
  BY <1>1, EntryFacts
<1> HIDE DEF p, id, entry, b
<1>5. /\ \A x \in DOMAIN p.storage : x = id \/ x \in DOMAIN r.storage
      /\ id \in DOMAIN p.storage /\ p.storage[id] = b
      /\ \A x \in DOMAIN r.storage : ~ (key \in DOMAIN r.string_keys /\ x = r.string_keys[key])
            => x \in DOMAIN p.storage /\ p.storage[x] = r.storage[x]
      /\ key \in DOMAIN r.string_keys => \A x \in DOMAIN p.storage : x # r.string_keys[key]
  <2>1. CASE key \in DOMAIN r.string_keys
    <3>1. old = r.string_keys[key] /\ old \in Id /\ old \in DOMAIN r.storage
      BY <2>1 DEF Sound, Typed, KeysSound, IsMap
    <3>2. old # None /\ old # id
      BY <1>1, <3>1 DEF Id, None
    <3> HIDE DEF old
    <3>3. /\ DOMAIN p.storage = (DOMAIN r.storage \ {old}) \cup {id} /\ p.storage[id] = b
          /\ \A x \in DOMAIN r.storage \ {old} : p.storage[x] = r.storage[x]
      BY <1>1, <1>2, <3>2 DEF replaced, Bind, Drop
    <3> QED BY <2>1, <3>1, <3>2, <3>3
  <2>2. CASE key \notin DOMAIN r.string_keys
    <3>1. old = None
      BY <2>2
    <3>2. p.storage = replaced(r.storage, None, id, b)
      BY <1>2, <3>1
    <3> HIDE DEF old
    <3>3. /\ DOMAIN p.storage = DOMAIN r.storage \cup {id} /\ p.storage[id] = b
          /\ \A x \in DOMAIN r.storage : p.storage[x] = r.storage[x]
      BY <1>1, <3>2 DEF replaced, Bind
    <3> QED BY <2>2, <3>3
  <2> QED BY <2>1, <2>2
<1>6. /\ DOMAIN p.string_keys = DOMAIN r.string_keys \cup {key} /\ p.string_keys[key] = id
      /\ \A k \in DOMAIN r.string_keys : k # key => p.string_keys[k] = r.string_keys[k]
  BY <1>2 DEF Bind
<1>7. \A t \in Tables :
         /\ t \notin Written(key) => p.entries[t] = r.entries[t]
         /\ t \in Written(key) => /\ DOMAIN p.entries[t] = DOMAIN r.entries[t] \cup {key}
                                  /\ p.entries[t][key] = entry
                                  /\ \A x \in DOMAIN r.entries[t] : x # key =>
                                        p.entries[t][x] = r.entries[t][x]
  BY <1>2 DEF Bind
<1>8. /\ key \in Handling => p.base[key] = id
      /\ \A k \in Handling : k # key => p.base[k] = r.base[k]
  BY <1>2 DEF Handlers, Sound, Shape
<1>9. \A k \in DOMAIN r.string_keys : k # key =>
         /\ r.string_keys[k] \in DOMAIN p.storage
         /\ p.storage[r.string_keys[k]] = r.storage[r.string_keys[k]]
  BY <1>5 DEF Sound, KeysSound
<1>10. Typed(p)
  <2>1. IsMap(p.storage, Id, Bindings)
    <3> SUFFICES ASSUME NEW x \in DOMAIN p.storage PROVE x \in Id /\ p.storage[x] \in Bindings
      BY DEF IsMap
    <3>1. CASE x = id
      BY <1>1, <1>3, <1>5, <3>1
    <3>2. CASE x # id
      BY <1>5, <3>2 DEF Sound, Typed, IsMap
    <3> QED BY <3>1, <3>2
  <2>2. IsMap(p.string_keys, StringKeys, Id)
    BY <1>1, <1>6 DEF Sound, Typed, IsMap
  <2>3. \A k \in Handling : p.base[k] \in Id \cup {None}
    BY <1>1, <1>8 DEF Sound, Typed
  <2>4. \A t \in Tables : IsMap(p.entries[t], EntryKeys, Entries)
    <3>1. key \in EntryKeys
      BY DEF StringKeys, EntryKeys
    <3> QED BY <1>4, <1>7, <3>1 DEF Sound, Typed, IsMap
  <2>5. p.slow \in BOOLEAN /\ \A t \in Tables : IsHook(p.index[t]) /\ IsHook(p.new_index[t])
    <3>1. CASE Poison(r, key, kind)
      <4>1. Slowed(q, r, Asked(Holding), <<>>)
        BY <3>1, ChangeFacts DEF Sound
      <4>2. IsHook(Ask(r.gen, <<>>))
        <5>1. <<>> \in Seq(Classes)
          OBVIOUS
        <5> QED BY <5>1, HookFacts DEF Sound, Typed
      <4> HIDE DEF q
      <4>3. \A t \in Tables : /\ p.index[t] \in {Ask(r.gen, <<>>), r.index[t]}
                             /\ p.new_index[t] \in {Ask(r.gen, <<>>), r.new_index[t]}
        BY <1>2, <4>1 DEF Slowed
      <4>4. \A t \in Tables : IsHook(r.index[t]) /\ IsHook(r.new_index[t])
        BY DEF Sound, Typed
      <4>5. p.slow = TRUE
        BY <1>2, <4>1 DEF Slowed
      <4> QED BY <4>2, <4>3, <4>4, <4>5
    <3>2. CASE ~Poison(r, key, kind)
      BY <1>2, <3>2 DEF Sound, Typed
    <3> QED BY <3>1, <3>2
  <2> HIDE DEF q
  <2> QED BY <1>2, <2>1, <2>2, <2>3, <2>4, <2>5 DEF Sound, Typed
<1>11. KeysSound(p)
  <2>1. \A k \in DOMAIN p.string_keys : /\ p.string_keys[k] \in DOMAIN p.storage
                                        /\ p.string_keys[k][1] = k
    BY <1>1, <1>5, <1>6, <1>9 DEF Sound, KeysSound
  <2>2. \A x \in DOMAIN p.storage :
          \/ x[1] = "call"
          \/ x[1] \in DOMAIN p.string_keys /\ p.string_keys[x[1]] = x
    <3> SUFFICES ASSUME NEW x \in DOMAIN p.storage, x[1] # "call"
                 PROVE  x[1] \in DOMAIN p.string_keys /\ p.string_keys[x[1]] = x
      OBVIOUS
    <3>1. CASE x = id
      BY <1>1, <1>6, <3>1
    <3>2. CASE x # id
      <4>1. x[1] \in DOMAIN r.string_keys /\ r.string_keys[x[1]] = x
        BY <1>5, <3>2 DEF Sound, KeysSound
      <4>2. x[1] # key
        BY <1>5, <4>1
      <4> QED BY <1>6, <4>1, <4>2
    <3> QED BY <3>1, <3>2
  <2>3. \A k \in Handling :
          IF k \in DOMAIN p.string_keys THEN p.base[k] = p.string_keys[k]
          ELSE p.base[k] = None
    BY <1>6, <1>8 DEF Sound, KeysSound
  <2>4. \A k \in MetaKeys \cap DOMAIN p.string_keys :
           p.storage[p.string_keys[k]].kind = "function"
    BY <1>3, <1>5, <1>6, <1>9 DEF Sound, KeysSound
  <2>5. \A x \in DOMAIN p.storage : p.storage[x].kind = "reference" =>
           p.storage[x].value \in Values
    <3> SUFFICES ASSUME NEW x \in DOMAIN p.storage, p.storage[x].kind = "reference"
                 PROVE  p.storage[x].value \in Values
      OBVIOUS
    <3>1. CASE x = id
      BY <1>3, <1>5, <3>1
    <3>2. CASE x # id
      BY <1>5, <3>2 DEF Sound, KeysSound
    <3> QED BY <3>1, <3>2
  <2> QED BY <2>1, <2>2, <2>3, <2>4, <2>5 DEF KeysSound
<1>12. EntriesSound(p)
  <2>1. \A t \in Tables : \A k \in DOMAIN p.entries[t] :
           "closure" \in DOMAIN p.entries[t][k] =>
             \/ /\ k \in DOMAIN p.string_keys /\ t \in Written(k)
                /\ p.entries[t][k].closure = p.string_keys[k]
             \/ /\ t = "named" /\ k = "__call"
                /\ p.entries[t][k].closure[1] = "call"
                /\ p.entries[t][k].closure \in DOMAIN p.storage
    <3> SUFFICES ASSUME NEW t \in Tables, NEW k \in DOMAIN p.entries[t],
                        "closure" \in DOMAIN p.entries[t][k]
                 PROVE  \/ /\ k \in DOMAIN p.string_keys /\ t \in Written(k)
                           /\ p.entries[t][k].closure = p.string_keys[k]
                        \/ /\ t = "named" /\ k = "__call"
                           /\ p.entries[t][k].closure[1] = "call"
                           /\ p.entries[t][k].closure \in DOMAIN p.storage
      OBVIOUS
    <3>1. CASE t \in Written(key) /\ k = key
      BY <1>4, <1>6, <1>7, <3>1
    <3>2. CASE ~(t \in Written(key) /\ k = key)
      <4>1. k \in DOMAIN r.entries[t] /\ p.entries[t][k] = r.entries[t][k]
        BY <1>7, <3>2
      <4>2. CASE /\ k \in DOMAIN r.string_keys /\ t \in Written(k)
                 /\ r.entries[t][k].closure = r.string_keys[k]
        BY <1>6, <3>2, <4>1, <4>2
      <4>3. CASE /\ t = "named" /\ k = "__call"
                 /\ r.entries[t][k].closure[1] = "call"
                 /\ r.entries[t][k].closure \in DOMAIN r.storage
        <5>1. ~ (key \in DOMAIN r.string_keys /\ r.entries[t][k].closure = r.string_keys[key])
          BY <4>3, KeyFacts DEF Sound, KeysSound
        <5> QED BY <1>5, <4>1, <4>3, <5>1
      <4> QED BY <4>1, <4>2, <4>3 DEF Sound, EntriesSound
    <3> QED BY <3>1, <3>2
  <2>2. \A t \in Holding, k \in Names :
          /\ k \in DOMAIN p.entries[t] <=> k \in DOMAIN p.string_keys
          /\ k \in DOMAIN p.string_keys
             /\ p.storage[p.string_keys[k]].kind = "function" =>
                   p.entries[t][k] = Closure(p.string_keys[k])
    <3> SUFFICES ASSUME NEW t \in Holding, NEW k \in Names
                 PROVE  /\ k \in DOMAIN p.entries[t] <=> k \in DOMAIN p.string_keys
                        /\ k \in DOMAIN p.string_keys
                           /\ p.storage[p.string_keys[k]].kind = "function" =>
                                 p.entries[t][k] = Closure(p.string_keys[k])
      OBVIOUS
    <3>1. CASE k = key
      <4>1. t \in Written(key) /\ t \in Tables
        BY <3>1, WrittenFacts, TableFacts
      <4> QED BY <1>3, <1>4, <1>5, <1>6, <1>7, <3>1, <4>1
    <3>2. CASE k # key
      <4>1. t \in Tables
        BY TableFacts
      <4>2. /\ k \in DOMAIN p.entries[t] <=> k \in DOMAIN r.entries[t]
            /\ k \in DOMAIN r.entries[t] => p.entries[t][k] = r.entries[t][k]
        BY <1>7, <3>2, <4>1
      <4> QED BY <1>6, <1>9, <3>2, <4>2 DEF Sound, EntriesSound
    <3> QED BY <3>1, <3>2
  <2> QED BY <2>1, <2>2 DEF EntriesSound
<1>13. HooksSound(p)
  <2>1. CASE Poison(r, key, kind)
    <3>1. Slowed(q, r, Holding, <<>>)
      BY <2>1, ChangeFacts, WhereFacts DEF Sound
    <3>2. r.derived = <<>>
      BY <2>1 DEF Poison, Sound, HooksSound
    <3> HIDE DEF q
    <3>3. \A t \in Tables : \A h \in {p.index[t], p.new_index[t]} :
            h.is = "storage" => p.live /\ h.gen = p.gen
      BY <1>2, <3>1, HookFacts DEF Slowed, Sound, HooksSound
    <3>4. p.new_index["named"] # Absent
      BY <1>2, <3>1, TableFacts DEF Slowed, Sound, HooksSound
    <3>5. \A t \in Holding : /\ p.index[t] = Ask(p.gen, p.derived)
                             /\ p.new_index[t] = Ask(p.gen, p.derived)
      BY <1>2, <3>1, <3>2, TableFacts DEF Slowed
    <3>6. p.slow
      BY <1>2, <3>1 DEF Slowed
    <3> QED BY <3>3, <3>4, <3>5, <3>6 DEF HooksSound
  <2>2. CASE ~Poison(r, key, kind)
    <3>1. q = r
      BY <2>2
    <3> HIDE DEF q
    <3>2. ~r.slow => kind = "function" /\ key # "__index"
      BY <2>2 DEF Poison, IsVariable, Kinds
    <3>3. ~p.slow => /\ p.derived = <<>> /\ p.base["__index"] = None
                     /\ \A k \in DOMAIN p.string_keys :
                           p.storage[p.string_keys[k]].kind = "function"
      <4>1. SUFFICES ASSUME ~p.slow
                     PROVE  /\ p.derived = <<>> /\ p.base["__index"] = None
                            /\ \A k \in DOMAIN p.string_keys :
                                  p.storage[p.string_keys[k]].kind = "function"
        OBVIOUS
      <4>2. /\ r.derived = <<>> /\ r.base["__index"] = None
            /\ \A k \in DOMAIN r.string_keys : r.storage[r.string_keys[k]].kind = "function"
        BY <1>2, <3>1, <4>1 DEF Sound, HooksSound
      <4>3. p.base["__index"] = None
        BY <1>2, <1>8, <3>1, <3>2, <4>1, <4>2 DEF Handling
      <4> QED BY <1>2, <1>3, <1>5, <1>6, <1>9, <3>1, <3>2, <4>1, <4>2, <4>3
    <3> QED BY <1>2, <3>1, <3>3 DEF Sound, HooksSound
  <2> QED BY <2>1, <2>2
<1>14. NothingLeft(p)
  <2> HIDE DEF q
  <2> QED BY <1>2 DEF NothingLeft
<1>15. \A t \in Written(key) : /\ key \in DOMAIN p.entries[t]
                               /\ kind = "reference" => p.entries[t][key] = Plain(value)
  BY <1>4, <1>7, WrittenFacts, TableFacts
<1>16. Shape(p) /\ p.live
  <2> HIDE DEF q, old
  <2> QED BY <1>2
<1>17. Sound(p)
  BY <1>10, <1>11, <1>12, <1>13, <1>14, <1>16 DEF Sound
<1>18. IsSet(p, key, kind, value)
  <2>1. key \in DOMAIN p.string_keys /\ p.storage[p.string_keys[key]] = b
    BY <1>5, <1>6
  <2>2. p.storage[p.string_keys[key]] = [kind |-> kind, value |-> value]
    BY <2>1 DEF b
  <2> QED BY <1>15, <2>1, <2>2 DEF IsSet
<1> QED BY <1>16, <1>17, <1>18 DEF p
\* A Lua value replaced where it is kept.
ValueReplaced(r, id, v) == [r EXCEPT !.storage[id].value = v]

\* The binding stays one of a Lua value.
LEMMA ValueSound ==
    ASSUME NEW r, Sound(r), NEW id \in DOMAIN r.storage,
           r.storage[id].kind = "reference", NEW v \in Values
    PROVE  LET p == ValueReplaced(r, id, v)
           IN  /\ Sound(p) /\ p.string_keys = r.string_keys
               /\ p.storage[id].value = v
<1> DEFINE p == ValueReplaced(r, id, v)
<1>1. /\ Shape(p) /\ p.slow = r.slow /\ p.derived = r.derived
      /\ p.live = r.live /\ p.gen = r.gen
      /\ p.storage = [r.storage EXCEPT ![id].value = v]
      /\ p.string_keys = r.string_keys /\ p.auxiliary_keys = r.auxiliary_keys
      /\ p.base = r.base /\ p.index = r.index /\ p.new_index = r.new_index
      /\ p.entries = r.entries
  BY DEF Sound, Shape, ValueReplaced
<1> HIDE DEF p
<1>2. r.storage[id] \in Bindings
  BY DEF Sound, Typed, IsMap
<1>3. /\ DOMAIN p.storage = DOMAIN r.storage
      /\ p.storage[id] = [r.storage[id] EXCEPT !.value = v]
      /\ \A x \in DOMAIN r.storage : x # id => p.storage[x] = r.storage[x]
  BY <1>1
<1>4. /\ p.storage[id].kind = "reference" /\ p.storage[id].value = v
      /\ p.storage[id] \in Bindings
  BY <1>2, <1>3 DEF Bindings
<1>5. \A x \in DOMAIN r.storage : p.storage[x].kind = r.storage[x].kind
  BY <1>3, <1>4
<1>6. Typed(p)
  <2>1. IsMap(p.storage, Id, Bindings)
    BY <1>3, <1>4 DEF Sound, Typed, IsMap
  <2> QED BY <1>1, <2>1 DEF Sound, Typed
<1>7. KeysSound(p)
  <2>1. \A x \in DOMAIN p.storage : p.storage[x].kind = "reference" =>
           p.storage[x].value \in Values
    BY <1>3, <1>4 DEF Sound, KeysSound
  <2> QED BY <1>1, <1>3, <1>5, <2>1 DEF Sound, KeysSound
<1>8. \A k \in DOMAIN r.string_keys :
         p.storage[r.string_keys[k]].kind = r.storage[r.string_keys[k]].kind
  BY <1>5 DEF Sound, KeysSound
<1>9. EntriesSound(p)
  BY <1>1, <1>3, <1>8 DEF Sound, EntriesSound
<1>10. HooksSound(p)
  BY <1>1, <1>8 DEF Sound, HooksSound
<1>11. NothingLeft(p)
  BY <1>1, <1>3, EmptyMap DEF Sound, NothingLeft
<1> QED BY <1>1, <1>4, <1>6, <1>7, <1>9, <1>10, <1>11 DEF Sound, p

\* The same for a key that is no string.
LEMMA KeptSound ==
    ASSUME NEW r, Sound(r), NEW k \in DOMAIN r.auxiliary_keys, NEW v \in Values
    PROVE  Sound([r EXCEPT !.auxiliary_keys[k] = v])
<1> DEFINE p == [r EXCEPT !.auxiliary_keys[k] = v]
<1>1. /\ Shape(p) /\ p.slow = r.slow /\ p.derived = r.derived
      /\ p.live = r.live /\ p.gen = r.gen /\ p.storage = r.storage
      /\ p.string_keys = r.string_keys
      /\ p.auxiliary_keys = [r.auxiliary_keys EXCEPT ![k] = v]
      /\ p.base = r.base /\ p.index = r.index /\ p.new_index = r.new_index
      /\ p.entries = r.entries
  BY DEF Sound, Shape
<1> HIDE DEF p
<1>2. Typed(p)
  <2>1. IsMap(p.auxiliary_keys, Others, Values)
    BY <1>1 DEF Sound, Typed, IsMap
  <2> QED BY <1>1, <2>1 DEF Sound, Typed
<1>3. KeysSound(p)
  BY <1>1 DEF Sound, KeysSound
<1>4. EntriesSound(p)
  BY <1>1 DEF Sound, EntriesSound
<1>5. HooksSound(p)
  BY <1>1 DEF Sound, HooksSound
<1>6. NothingLeft(p)
  BY <1>1, EmptyMap DEF Sound, NothingLeft
<1> QED BY <1>1, <1>2, <1>3, <1>4, <1>5, <1>6 DEF Sound, p

\* An assignment to T that no closure sees.
LEMMA RawSound ==
    ASSUME NEW r, Sound(r), NEW k \in Names \cup Others, NEW v \in Values
    PROVE  LET p == [r EXCEPT !.entries["T"] = Bind(@, k, Plain(v))]
           IN  Sound(p) /\ k \in DOMAIN p.entries["T"]
<1> DEFINE e == Plain(v)
           p == [r EXCEPT !.entries["T"] = Bind(r.entries["T"], k, e)]
<1>1. /\ Shape(p) /\ p.slow = r.slow /\ p.derived = r.derived
      /\ p.live = r.live /\ p.gen = r.gen /\ p.storage = r.storage
      /\ p.string_keys = r.string_keys /\ p.auxiliary_keys = r.auxiliary_keys
      /\ p.base = r.base /\ p.index = r.index /\ p.new_index = r.new_index
      /\ \A t \in Tables : p.entries[t] = IF t = "T" THEN Bind(r.entries["T"], k, e)
                                          ELSE r.entries[t]
  BY TableFacts DEF Sound, Shape
<1>2. e \in Entries /\ "closure" \notin DOMAIN e /\ k \in EntryKeys
  BY EntryFacts DEF EntryKeys
<1> HIDE DEF p, e
<1>3. /\ DOMAIN p.entries["T"] = DOMAIN r.entries["T"] \cup {k} /\ p.entries["T"][k] = e
      /\ \A x \in DOMAIN r.entries["T"] : x # k => p.entries["T"][x] = r.entries["T"][x]
      /\ \A t \in Tables : t # "T" => p.entries[t] = r.entries[t]
  BY <1>1, TableFacts DEF Bind
<1>4. Typed(p)
  <2>1. \A t \in Tables : IsMap(p.entries[t], EntryKeys, Entries)
    BY <1>2, <1>3 DEF Sound, Typed, IsMap
  <2> QED BY <1>1, <2>1 DEF Sound, Typed
<1>5. KeysSound(p)
  BY <1>1 DEF Sound, KeysSound
<1>6. EntriesSound(p)
  <2>1. \A t \in Tables : \A x \in DOMAIN p.entries[t] :
           "closure" \in DOMAIN p.entries[t][x] =>
              x \in DOMAIN r.entries[t] /\ p.entries[t][x] = r.entries[t][x]
    BY <1>2, <1>3
  <2>2. \A t \in Holding : t \in Tables /\ p.entries[t] = r.entries[t]
    BY <1>3, TableFacts
  <2> QED BY <1>1, <2>1, <2>2 DEF Sound, EntriesSound
<1>7. HooksSound(p)
  BY <1>1 DEF Sound, HooksSound
<1>8. NothingLeft(p)
  BY <1>1, TableFacts DEF Sound, NothingLeft
<1> QED BY <1>1, <1>3, <1>4, <1>5, <1>6, <1>7, <1>8 DEF Sound, p, e
-----------------------------------------------------------------------------
(* Each action keeps every class sound.                                    *)

ClassesSound == DOMAIN class = Classes /\ \A c \in Classes : Sound(class[c])

\* A step of one class leaves the others as they are.
LEMMA OneClass ==
    ASSUME ClassesSound, NEW c \in Classes, NEW p, Sound(p),
           class' = [class EXCEPT ![c] = p]
    PROVE  ClassesSound' /\ class'[c] = p
<1>1. DOMAIN class' = Classes /\ class'[c] = p
  BY DEF ClassesSound
<1>2. \A d \in Classes : class'[d] = p \/ class'[d] = class[d]
  BY DEF ClassesSound
<1>3. \A d \in Classes : Sound(class'[d])
  BY <1>2 DEF ClassesSound
<1> QED BY <1>1, <1>3 DEF ClassesSound

\* A name is found among the members only, other keys among the rest only.
LEMMA HasFacts ==
    ASSUME ClassesSound, NEW c \in Classes, NEW k \in Names \cup Others, Has(c, k)
    PROVE  IF k \in Names THEN k \in DOMAIN class[c].string_keys
           ELSE /\ k \notin DOMAIN class[c].string_keys
                /\ k \in DOMAIN class[c].auxiliary_keys
BY KeyFacts DEF Has, ClassesSound, Sound, Typed, IsMap

\* A name keeps its binding, which has the value assigned.
LEMMA OverwriteSound ==
    ASSUME ClassesSound, NEW c \in Classes, NEW k \in Names \cup Others, NEW v \in Values,
           Has(c, k), Overwrite(c, k, v)
    PROVE  /\ ClassesSound'
           /\ k \in Names /\ class' # class =>
                 /\ class'[c].string_keys = class[c].string_keys
                 /\ k \in DOMAIN class[c].string_keys
                 /\ class'[c].storage[class[c].string_keys[k]].value = v
<1> DEFINE r == class[c]
           id == r.string_keys[k]
<1>1. Sound(r) /\ DOMAIN class = Classes
  BY DEF ClassesSound
<1>2. CASE k \in DOMAIN r.string_keys /\ r.storage[id].kind = "reference"
  <2> DEFINE p == ValueReplaced(r, id, v)
  <2>1. id \in DOMAIN r.storage
    BY <1>1, <1>2 DEF Sound, KeysSound
  <2>2. Sound(p) /\ p.string_keys = r.string_keys /\ p.storage[id].value = v
    BY <1>1, <1>2, <2>1, ValueSound
  <2>3. class' = [class EXCEPT ![c] = p]
    BY <1>2 DEF Overwrite, ValueReplaced
  <2> HIDE DEF p
  <2>4. ClassesSound' /\ class'[c] = p
    BY <2>2, <2>3, OneClass
  <2> QED BY <1>2, <2>2, <2>4
<1>3. CASE k \in DOMAIN r.string_keys /\ r.storage[id].kind # "reference"
  BY <1>3 DEF Overwrite, ClassesSound
<1>4. CASE k \notin DOMAIN r.string_keys
  <2> DEFINE p == [r EXCEPT !.auxiliary_keys[k] = v]
  <2>1. k \in DOMAIN r.auxiliary_keys /\ k \notin Names
    BY <1>4, HasFacts
  <2>2. Sound(p)
    BY <1>1, <2>1, KeptSound
  <2>3. class' = [class EXCEPT ![c] = p]
    BY <1>4 DEF Overwrite
  <2> HIDE DEF p
  <2> QED BY <2>1, <2>2, <2>3, OneClass
<1> QED BY <1>2, <1>3, <1>4

\* With or without a default constructor.
LEMMA RegisterSound ==
    ASSUME ClassesSound, NEW c \in Classes, Register(c)
    PROVE  ClassesSound'
<1> DEFINE p == Fresh(class[c])
<1>1. Sound(p) /\ p.live
  BY FreshSound DEF ClassesSound
<1>2. CASE class' = [class EXCEPT ![c] = p]
  <2>1. class' = [class EXCEPT ![c] = p]
    BY <1>2
  <2> HIDE DEF p
  <2> QED BY <1>1, <2>1, OneClass
<1>3. CASE "new" \in Names /\ class' = [class EXCEPT ![c] = set(p, "new", "function", None)]
  <2>1. "new" \in StringKeys /\ "new" \notin MetaKeys /\ "function" \in Kinds
        /\ None \in Values \cup {None}
    BY <1>3, KeyFacts DEF StringKeys, Kinds
  <2> DEFINE q == set(p, "new", "function", None)
  <2>2. class' = [class EXCEPT ![c] = q]
    BY <1>3
  <2>3. Sound(q)
    <3> HIDE DEF p
    <3> QED BY <1>1, <2>1, SetSound
  <2> HIDE DEF p, q
  <2> QED BY <2>2, <2>3, OneClass
<1> QED BY <1>2, <1>3 DEF Register

\* Registered or not, the others keep theirs.
LEMMA UnregisterSound ==
    ASSUME ClassesSound, NEW c \in Classes, Unregister(c)
    PROVE  ClassesSound'
<1> DEFINE p == clear(class[c])
<1>1. Sound(p)
  BY ClearSound DEF ClassesSound
<1>2. class' = [class EXCEPT ![c] = p]
  BY DEF Unregister
<1> HIDE DEF p
<1> QED BY <1>1, <1>2, OneClass

\* A step that is set().
LEMMA SetStep ==
    ASSUME ClassesSound, NEW c \in Classes, class[c].live, NEW key \in StringKeys,
           NEW kind \in Kinds, key \in MetaKeys => kind = "function",
           NEW value \in Values \cup {None}, kind = "reference" => value \in Values,
           class' = [class EXCEPT ![c] = set(@, key, kind, value)]
    PROVE  ClassesSound' /\ IsSet(class'[c], key, kind, value)
<1> DEFINE p == set(class[c], key, kind, value)
<1>1. Sound(p) /\ IsSet(p, key, kind, value)
  BY SetSound DEF ClassesSound
<1>2. class' = [class EXCEPT ![c] = p]
  OBVIOUS
<1> HIDE DEF p
<1> QED BY <1>1, <1>2, OneClass

\* Members and handlers bound by the program.
LEMMA BindSound ==
    ASSUME ClassesSound, NEW c \in Classes,
           \/ \E k \in Names, kind \in {"function", "variable"} : BindMember(c, k, kind)
           \/ \E k \in MetaKeys : BindHandler(c, k)
    PROVE  ClassesSound'
<1>1. None \in Values \cup {None} /\ {"function", "variable"} \subseteq Kinds
      /\ "reference" \notin {"function", "variable"}
  BY DEF Kinds
<1>2. CASE \E k \in Names, kind \in {"function", "variable"} : BindMember(c, k, kind)
  <2>1. PICK k \in Names, kind \in {"function", "variable"} : BindMember(c, k, kind)
    BY <1>2
  <2>2. k \in StringKeys /\ k \notin MetaKeys /\ kind \in Kinds /\ kind # "reference"
    BY <1>1, KeyFacts DEF StringKeys
  <2>3. /\ class[c].live
        /\ class' = [class EXCEPT ![c] = set(@, k, kind, None)]
    BY <2>1 DEF BindMember
  <2> QED BY <1>1, <2>2, <2>3, SetStep
<1>3. CASE \E k \in MetaKeys : BindHandler(c, k)
  <2>1. PICK k \in MetaKeys : BindHandler(c, k)
    BY <1>3
  <2>2. k \in StringKeys /\ "function" \in Kinds
    BY <1>1 DEF StringKeys
  <2>3. /\ class[c].live
        /\ class' = [class EXCEPT ![c] = set(@, k, "function", None)]
    BY <2>1 DEF BindHandler
  <2> QED BY <1>1, <2>2, <2>3, SetStep
<1> QED BY <1>2, <1>3

\* Call constructors.
LEMMA BindCallSound ==
    ASSUME ClassesSound, NEW c \in Classes, BindCall(c)
    PROVE  ClassesSound'
<1> DEFINE p == set_call(class[c])
<1>1. Sound(p)
  BY CallSound DEF ClassesSound, BindCall
<1>2. class' = [class EXCEPT ![c] = p]
  BY DEF BindCall
<1> HIDE DEF p
<1> QED BY <1>1, <1>2, OneClass

\* Bases.
LEMMA DeclareSound ==
    ASSUME ClassesSound, NEW c \in Classes, NEW bases \in BaseLists(c), DeclareBases(c, bases)
    PROVE  ClassesSound'
<1> DEFINE p == update_bases(class[c], bases)
<1>0. bases \in Seq(Classes)
  BY StorageAssumption
<1>1. Sound(p)
  BY <1>0, BasesSound DEF ClassesSound, DeclareBases
<1>2. class' = [class EXCEPT ![c] = p]
  BY DEF DeclareBases
<1> HIDE DEF p
<1> QED BY <1>1, <1>2, OneClass

\* A script's assignment lands in T, in the Lua value a name had, or makes
\* one; or it changes nothing.
LEMMA ScriptSound ==
    ASSUME ClassesSound, NEW c \in Classes, NEW k \in Names \cup Others, NEW v \in Values,
           ScriptAssign(c, k, v)
    PROVE  /\ ClassesSound'
           /\ k \in Names =>
                \/ k \in DOMAIN class'[c].entries["T"]
                \/ k \in DOMAIN class'[c].string_keys
                   /\ class'[c].storage[class'[c].string_keys[k]].value = v
                \/ class' = class /\ k \in DOMAIN class[c].string_keys
                   /\ class[c].storage[class[c].string_keys[k]].kind # "reference"
                \/ class' = class /\ class[c].base["static_new_index"] # None
                   /\ k \notin DOMAIN class[c].string_keys
<1> DEFINE r == class[c]
           raw == k \in DOMAIN r.entries["T"] \/ r.new_index["named"] = Absent
<1>1. CASE raw
  <2> DEFINE p == [r EXCEPT !.entries["T"] = Bind(@, k, Plain(v))]
  <2>1. Sound(p) /\ k \in DOMAIN p.entries["T"]
    BY RawSound DEF ClassesSound
  <2>2. class' = [class EXCEPT ![c] = p]
    BY <1>1 DEF ScriptAssign, RawAssign
  <2> HIDE DEF p
  <2> QED BY <2>1, <2>2, OneClass
<1>2. CASE ~raw /\ Has(c, k)
  <2>1. Overwrite(c, k, v)
    BY <1>2 DEF ScriptAssign
  <2>2. ClassesSound'
    BY <1>2, <2>1, OverwriteSound
  <2>3. CASE class' # class
    BY <1>2, <2>1, <2>2, <2>3, OverwriteSound
  <2>4. CASE class' = class /\ k \in Names
    <3>1. k \in DOMAIN r.string_keys
      BY <1>2, <2>4, HasFacts
    <3>2. CASE r.storage[r.string_keys[k]].kind = "reference"
      <4> DEFINE id == r.string_keys[k]
                 p == ValueReplaced(r, id, v)
      <4>1. id \in DOMAIN r.storage /\ Sound(r)
        BY <3>1 DEF ClassesSound, Sound, KeysSound
      <4>2. p.string_keys = r.string_keys /\ p.storage[id].value = v
        BY <3>2, <4>1, ValueSound
      <4>3. class' = [class EXCEPT ![c] = p]
        BY <2>1, <3>1, <3>2 DEF Overwrite, ValueReplaced
      <4> HIDE DEF p
      <4>4. class'[c] = p
        BY <4>3 DEF ClassesSound
      <4> QED BY <2>2, <3>1, <4>2, <4>4
    <3>3. CASE r.storage[r.string_keys[k]].kind # "reference"
      BY <2>2, <2>4, <3>1, <3>3
    <3> QED BY <3>2, <3>3
  <2> QED BY <2>2, <2>3, <2>4
<1>3. CASE ~raw /\ ~Has(c, k) /\ r.base["static_new_index"] = None
  <2>1. new_index_target_set(c, k, v)
    BY <1>3 DEF ScriptAssign
  <2>2. r.live
    BY <1>3, TableFacts DEF ClassesSound, Sound, NothingLeft
  <2>3. CASE k \in Names
    <3>1. class' = [class EXCEPT ![c] = set(@, k, "reference", v)]
      BY <2>1, <2>3 DEF new_index_target_set
    <3>2. k \in StringKeys /\ k \notin MetaKeys /\ "reference" \in Kinds /\ v \in Values \cup {None}
      BY <2>3, KeyFacts DEF StringKeys, Kinds
    <3>3. ClassesSound' /\ IsSet(class'[c], k, "reference", v)
      BY <2>2, <3>1, <3>2, SetStep
    <3>4. class'[c].storage[class'[c].string_keys[k]] = [kind |-> "reference", value |-> v]
      BY <3>3 DEF IsSet
    <3> QED BY <3>3, <3>4 DEF IsSet
  <2>4. CASE k \notin Names
    <3> DEFINE p == set_auxiliary(r, k, v)
    <3>1. Sound(p)
      BY <2>2, <2>4, AuxiliarySound DEF ClassesSound
    <3>2. class' = [class EXCEPT ![c] = p]
      BY <2>1, <2>4 DEF new_index_target_set
    <3> HIDE DEF p
    <3> QED BY <2>4, <3>1, <3>2, OneClass
  <2> QED BY <2>3, <2>4
<1>4. CASE ~raw /\ ~Has(c, k) /\ r.base["static_new_index"] # None
  BY <1>4 DEF ScriptAssign, ClassesSound, Has
<1> QED BY <1>1, <1>2, <1>3, <1>4

\* An object's assignment overwrites a key of its class or of the first base
\* that has it, or nothing.
LEMMA ObjectSound ==
    ASSUME ClassesSound, NEW c \in Classes, NEW t \in {"value", "reference"},
           NEW k \in Names \cup Others, NEW v \in Values, ObjectAssign(c, t, k, v)
    PROVE  ClassesSound'
<1> DEFINE bases == class[c].new_index[t].bases
           found == Providers(bases, k)
<1>1. CASE Has(c, k)
  BY <1>1, OverwriteSound DEF ObjectAssign
<1>2. CASE ~Has(c, k) /\ found # {}
  <2>1. bases \in Seq(Classes)
    <3>1. t \in Tables
      BY DEF Tables, Metatables, Holding, Pointers
    <3> QED BY <3>1 DEF ClassesSound, Sound, Typed, IsHook
  <2>2. found \subseteq Nat /\ found \subseteq DOMAIN bases
    <3> HIDE DEF bases
    <3>1. DOMAIN bases = 1 .. Len(bases) /\ Len(bases) \in Nat
      BY <2>1, LenProperties
    <3> QED BY <3>1 DEF Providers
  <2>3. First(found) \in found
    <3> HIDE DEF found
    <3> QED BY <1>2, <2>2, LeastFacts
  <2> DEFINE d == bases[First(found)]
  <2>4. d \in Classes /\ Has(d, k)
    <3>1. First(found) \in DOMAIN bases /\ Has(d, k)
      BY <2>3 DEF Providers
    <3> HIDE DEF found, bases
    <3> QED BY <2>1, <3>1
  <2>5. Overwrite(d, k, v)
    BY <1>2 DEF ObjectAssign
  <2> HIDE DEF d
  <2> QED BY <2>4, <2>5, OverwriteSound
<1>3. CASE ~Has(c, k) /\ found = {}
  BY <1>3 DEF ObjectAssign, ClassesSound
<1> QED BY <1>1, <1>2, <1>3
-----------------------------------------------------------------------------
(* The theorems.                                                           *)

\* Before the first registration no class has anything.
LEMMA InitSound == Init => IInv
<1> SUFFICES ASSUME Init PROVE IInv
  OBVIOUS
<1>1. class = [c \in Classes |-> Unused] /\ last = None
  BY DEF Init
<1>2. Sound(Unused)
  <2>1. /\ Unused.live = FALSE /\ Unused.named = FALSE /\ Unused.gen = 0
        /\ Unused.storage = <<>> /\ Unused.string_keys = <<>> /\ Unused.auxiliary_keys = <<>>
        /\ Unused.base = [k \in Handling |-> None]
        /\ Unused.slow = FALSE /\ Unused.derived = <<>>
        /\ Unused.entries = [t \in Tables |-> <<>>]
        /\ Unused.index = [t \in Tables |-> Absent]
        /\ Unused.new_index = [t \in Tables |-> Absent]
    BY DEF Unused
  <2>2. Shape(Unused)
    BY <2>1 DEF Shape, Unused
  <2>3. Typed(Unused)
    <3>1. <<>> \in Seq(Classes)
      OBVIOUS
    <3>2. \A t \in Tables : /\ IsMap(Unused.entries[t], EntryKeys, Entries)
                           /\ IsHook(Unused.index[t]) /\ IsHook(Unused.new_index[t])
      BY <2>1, EmptyMap, HookFacts
    <3>3. /\ IsMap(Unused.storage, Id, Bindings) /\ IsMap(Unused.string_keys, StringKeys, Id)
          /\ IsMap(Unused.auxiliary_keys, Others, Values)
      BY <2>1, EmptyMap
    <3> QED BY <2>1, <3>1, <3>2, <3>3 DEF Typed
  <2>4. KeysSound(Unused)
    BY <2>1, EmptyMap DEF KeysSound
  <2>5. EntriesSound(Unused)
    BY <2>1, EmptyMap, TableFacts DEF EntriesSound
  <2>6. HooksSound(Unused)
    BY <2>1, HookFacts DEF HooksSound
  <2>7. NothingLeft(Unused)
    BY <2>1, TableFacts DEF NothingLeft
  <2> QED BY <2>2, <2>3, <2>4, <2>5, <2>6, <2>7 DEF Sound
<1> QED BY <1>1, <1>2 DEF IInv, LastTyped

\* The invariant is inductive.
LEMMA StepSound == IInv /\ [Next]_vars => IInv'
<1> SUFFICES ASSUME IInv, [Next]_vars PROVE IInv'
  OBVIOUS
<1>1. ClassesSound
  BY DEF IInv, ClassesSound
<1>2. ClassesSound' /\ LastTyped'
  <2>1. CASE UNCHANGED vars
    BY <1>1, <2>1 DEF vars, ClassesSound, IInv, LastTyped
  <2>2. CASE Next
    <3>1. PICK c \in Classes :
             \/ Register(c) \/ Unregister(c) \/ BindCall(c)
             \/ \E k \in Names, kind \in {"function", "variable"} : BindMember(c, k, kind)
             \/ \E k \in MetaKeys : BindHandler(c, k)
             \/ \E bases \in BaseLists(c) : DeclareBases(c, bases)
             \/ \E k \in Names \cup Others, v \in Values :
                   \/ ScriptAssign(c, k, v)
                   \/ \E t \in {"value", "reference"} : ObjectAssign(c, t, k, v)
      BY <2>2 DEF Next
    <3>2. CASE Register(c)
      BY <1>1, <3>2, RegisterSound DEF Register, LastTyped
    <3>3. CASE Unregister(c)
      BY <1>1, <3>3, UnregisterSound DEF Unregister, LastTyped
    <3>4. CASE BindCall(c)
      BY <1>1, <3>4, BindCallSound DEF BindCall, LastTyped
    <3>5. CASE \E k \in Names, kind \in {"function", "variable"} : BindMember(c, k, kind)
      BY <1>1, <3>5, BindSound DEF BindMember, LastTyped
    <3>6. CASE \E k \in MetaKeys : BindHandler(c, k)
      BY <1>1, <3>6, BindSound DEF BindHandler, LastTyped
    <3>7. CASE \E bases \in BaseLists(c) : DeclareBases(c, bases)
      BY <1>1, <3>7, DeclareSound DEF DeclareBases, LastTyped
    <3>8. CASE \E k \in Names \cup Others, v \in Values : ScriptAssign(c, k, v)
      BY <1>1, <3>8, ScriptSound DEF ScriptAssign, LastTyped
    <3>9. CASE \E k \in Names \cup Others, v \in Values :
                 \E t \in {"value", "reference"} : ObjectAssign(c, t, k, v)
      <4>1. ClassesSound'
        BY <1>1, <3>9, ObjectSound
      <4>2. LastTyped'
        BY <3>9 DEF ObjectAssign, LastTyped
      <4> QED BY <4>1, <4>2
    <3> QED BY <3>1, <3>2, <3>3, <3>4, <3>5, <3>6, <3>7, <3>8, <3>9
  <2> QED BY <2>1, <2>2
<1> QED BY <1>2 DEF IInv, ClassesSound

\* So it holds in every state.
LEMMA Invariance == Spec => []IInv
BY InitSound, StepSound, PTL DEF Spec

\* The types, for any number of classes, names, bindings and registrations.
THEOREM TypeCorrect == Spec => []TypeOK
<1>1. IInv => TypeOK
  BY DEF IInv, Sound, Typed, LastTyped, TypeOK, StringKeys, EntryKeys, Bindings
<1> QED BY Invariance, <1>1, PTL

\* clear(), set() and the registration leave no closure, name or handler
\* over a binding that was destroyed, nor an __index over an old storage.
THEOREM PointersLive == Spec => []NoDanglingPointer
<1>1. IInv => NoDanglingPointer
  <2> SUFFICES ASSUME IInv, NEW c \in Classes
      PROVE  /\ Pointed(c) \subseteq DOMAIN class[c].storage
             /\ \A t \in Tables : \A h \in {class[c].index[t], class[c].new_index[t]} :
                   h.is = "storage" => class[c].live /\ h.gen = class[c].gen
    BY DEF NoDanglingPointer
  <2> DEFINE r == class[c]
  <2>1. KeysSound(r) /\ EntriesSound(r) /\ HooksSound(r)
    BY DEF IInv, Sound
  <2>2. \A k \in DOMAIN r.string_keys : r.string_keys[k] \in DOMAIN r.storage
    BY <2>1 DEF KeysSound
  <2>3. \A h \in Handling : r.base[h] # None => r.base[h] \in DOMAIN r.storage
    BY <2>1, <2>2 DEF KeysSound
  <2>4. \A t \in Tables : \A k \in DOMAIN r.entries[t] :
           "closure" \in DOMAIN r.entries[t][k] =>
              r.entries[t][k].closure \in DOMAIN r.storage
    BY <2>1, <2>2 DEF EntriesSound
  <2>5. Pointed(c) \subseteq DOMAIN r.storage
    BY <2>2, <2>3, <2>4 DEF Pointed
  <2> QED BY <2>1, <2>5 DEF HooksSound
<1> QED BY Invariance, <1>1, PTL

\* unregister leaves nothing of the class to be found.
THEOREM UnregisteredIsGone == Spec => []NothingLeftBehind
<1>1. IInv => NothingLeftBehind
  BY DEF IInv, Sound, NothingLeft, NothingLeftBehind
<1> QED BY Invariance, <1>1, PTL

\* What an object shows for a name a class has as a member, on either path.
LEMMA FollowsTheRule == IInv => ObjectsFollowTheRule
<1> SUFFICES ASSUME IInv, NEW c \in Classes, class[c].live, NEW t \in Holding, NEW k \in Names
             PROVE  ObjectIndex(c, t, k) = Rule(c, k)
  BY DEF ObjectsFollowTheRule
<1> DEFINE r == class[c]
<1>1. /\ Typed(r) /\ KeysSound(r) /\ EntriesSound(r) /\ HooksSound(r)
      /\ ClassesSound
  BY DEF IInv, Sound, ClassesSound
<1>2. Has(c, k) <=> k \in DOMAIN r.string_keys
  <2>1. k \notin DOMAIN r.auxiliary_keys
    BY <1>1, KeyFacts DEF Typed, IsMap
  <2> QED BY <2>1 DEF Has
<1>3. k \in DOMAIN r.entries[t] <=> Has(c, k)
  BY <1>1, <1>2 DEF EntriesSound
<1>4. ~Has(c, k) => Raw(c, t, k) = Nil
  BY <1>3 DEF Raw
<1>5. CASE r.slow
  <2>1. r.index[t] = Ask(r.gen, r.derived)
    BY <1>1, <1>5 DEF HooksSound
  <2>2. ObjectIndex(c, t, k) = self_index_call(c, k, r.derived, t)
    BY <2>1, HookFacts DEF ObjectIndex
  <2> QED BY <1>4, <2>2 DEF self_index_call, Rule
<1>6. CASE ~r.slow
  <2>1. r.index[t] = Itself /\ r.derived = <<>> /\ r.base["__index"] = None
    BY <1>1, <1>6 DEF HooksSound
  <2>2. ObjectIndex(c, t, k) = Raw(c, t, k)
    BY <2>1, HookFacts DEF ObjectIndex
  <2>3. Providers(r.derived, k) = {}
    BY <2>1, EmptyMap DEF Providers
  <2>4. CASE Has(c, k)
    <3> DEFINE id == r.string_keys[k]
    <3>1. id \in DOMAIN r.storage /\ r.storage[id].kind = "function"
      BY <1>1, <1>2, <1>6, <2>4 DEF KeysSound, HooksSound
    <3>2. r.entries[t][k] = Closure(id)
      BY <1>1, <1>2, <2>4, <3>1 DEF EntriesSound
    <3>3. Raw(c, t, k) = Function(c, id)
      BY <1>3, <2>4, <3>2 DEF Raw, Closure
    <3>4. Own(c, k) = Function(c, id)
      BY <1>2, <2>4, <3>1 DEF Own, Read
    <3> QED BY <2>2, <2>4, <3>3, <3>4 DEF Rule
  <2>5. CASE ~Has(c, k)
    BY <1>4, <2>1, <2>2, <2>3, <2>5 DEF Rule
  <2> QED BY <2>4, <2>5
<1> QED BY <1>5, <1>6

\* Objects on the fast path and on the slow one answer alike: members of
\* the class, then of the bases, then its __index, in whatever order they
\* were bound.
THEOREM EitherPathFollowsTheRule == Spec => []ObjectsFollowTheRule
BY Invariance, FollowsTheRule, PTL
\* An assignment to a name of a class's table that no closure and no
\* handler takes ends up in a binding of its own, or in the one it replaces.
AssignmentKept ==
    (/\ last # None /\ last.key \in Names
     /\ class[last.class].live /\ ~InTable
     /\ IF Bound THEN BoundAs({"reference"})
        ELSE class[last.class].base["static_new_index"] = None)
    => LET r == class[last.class]
       IN  /\ last.key \in DOMAIN r.string_keys
           /\ r.storage[r.string_keys[last.key]].kind = "reference"
           /\ r.storage[r.string_keys[last.key]].value = last.value

\* Objects show that binding, on the path they are on.
LEMMA KeptIsSeen == IInv /\ AssignmentKept => AssignmentsReachObjects
<1> SUFFICES ASSUME IInv, AssignmentKept, last # None, last.key \in Names,
                    class[last.class].live, ~InTable,
                    IF Bound THEN BoundAs({"reference"})
                    ELSE class[last.class].base["static_new_index"] = None,
                    NEW t \in Holding
             PROVE  ObjectIndex(last.class, t, last.key) = Value(last.value)
  BY DEF AssignmentsReachObjects, Seen
<1> DEFINE c == last.class
           k == last.key
           id == class[c].string_keys[k]
<1>1. /\ k \in DOMAIN class[c].string_keys
      /\ class[c].storage[id].kind = "reference" /\ class[c].storage[id].value = last.value
  BY DEF AssignmentKept
<1>2. c \in Classes
  BY DEF IInv, LastTyped
<1>3. id \in DOMAIN class[c].storage
  BY <1>1, <1>2 DEF IInv, Sound, KeysSound
<1>4. Has(c, k)
  BY <1>1 DEF Has
<1>5. Own(c, k) = Value(last.value)
  BY <1>1, <1>3 DEF Own, Read
<1>6. ObjectIndex(c, t, k) = Rule(c, k)
  BY <1>2, FollowsTheRule DEF ObjectsFollowTheRule
<1> QED BY <1>4, <1>5, <1>6 DEF Rule

\* What a script assigns to a name of the class's table shows in every
\* object, however it is held: as a new binding or in the one it replaces.
THEOREM AssignmentsSeen == Spec => []AssignmentsReachObjects
<1>1. Init => AssignmentKept
  BY DEF Init, AssignmentKept
<1>2. AssignmentKept /\ IInv /\ [Next]_vars => AssignmentKept'
  <2> SUFFICES ASSUME AssignmentKept, IInv, [Next]_vars PROVE AssignmentKept'
    OBVIOUS
  <2>1. CASE UNCHANGED vars
    BY <2>1 DEF vars, AssignmentKept, InTable, Bound, BoundAs
  <2>2. CASE last' = None
    BY <2>2 DEF AssignmentKept
  <2>3. CASE \E c \in Classes, k \in Names \cup Others, v \in Values : ScriptAssign(c, k, v)
    <3>1. PICK c \in Classes, k \in Names \cup Others, v \in Values : ScriptAssign(c, k, v)
      BY <2>3
    <3>2. last' = [class |-> c, key |-> k, value |-> v]
      BY <3>1 DEF ScriptAssign
    <3>3. last'.class = c /\ last'.key = k /\ last'.value = v
      BY <3>2
    <3>4. k \in Names =>
                \/ k \in DOMAIN class'[c].entries["T"]
                \/ k \in DOMAIN class'[c].string_keys
                   /\ class'[c].storage[class'[c].string_keys[k]].value = v
                \/ class' = class /\ k \in DOMAIN class[c].string_keys
                   /\ class[c].storage[class[c].string_keys[k]].kind # "reference"
                \/ class' = class /\ class[c].base["static_new_index"] # None
                   /\ k \notin DOMAIN class[c].string_keys
      BY <3>1, ScriptSound DEF IInv, ClassesSound
    <3> QED BY <3>3, <3>4 DEF AssignmentKept, InTable, Bound, BoundAs
  <2>4. CASE Next
    BY <2>2, <2>3, <2>4 DEF Next, Register, Unregister, BindCall, BindMember,
                            BindHandler, DeclareBases, ObjectAssign
  <2> QED BY <2>1, <2>4
<1> QED BY Invariance, KeptIsSeen, <1>1, <1>2, PTL DEF Spec

-----------------------------------------------------------------------------
(* What is defined by recursion on numbers.                                *)

LEMMA LeastOne ==
    ASSUME NEW S, S \subseteq Nat, S # {}
    PROVE  \E i \in S : \A j \in S : i <= j
<1> DEFINE R == {p \in Nat \X Nat : p[1] < p[2]}
<1>1. IsWellFoundedOn(OpToRel(<, Nat), Nat)
  BY NatLessThanWellFounded
<1>2. OpToRel(<, Nat) = R
  BY DEF OpToRel
<1>3. IsWellFoundedOn(R, Nat)
  BY <1>1, <1>2
<1> HIDE DEF R
<1>4. PICK i \in S : \A j \in S : ~ (<<j, i>> \in R)
  BY <1>3, WFMin
<1>5. \A j \in S : i <= j
  <2> SUFFICES ASSUME NEW j \in S PROVE i <= j
    OBVIOUS
  <2>1. ~ (<<j, i>> \in R) /\ j \in Nat /\ i \in Nat
    BY <1>4
  <2>2. <<j, i>> \in Nat \X Nat /\ <<j, i>>[1] = j /\ <<j, i>>[2] = i
    BY <2>1
  <2>3. ~ (j < i)
    BY <2>1, <2>2 DEF R
  <2> QED BY <2>1, <2>3
<1> QED BY <1>5

\* The first m values of a recursion.
FirstValues(m, A, base, step) ==
    {h \in [0 .. m -> A] : h[0] = base /\ \A n \in 1 .. m : h[n] = step[<<h[n - 1], n>>]}

LEMMA OneValueMore ==
    ASSUME NEW N \in Nat, NEW A, NEW base \in A, NEW step \in [A \X Nat -> A],
           NEW m \in 0 .. N, m # 0, NEW h \in FirstValues(m - 1, A, base, step)
    PROVE  FirstValues(m, A, base, step) # {}
<1> DEFINE g == [i \in 0 .. m |-> IF i = m THEN step[<<h[m - 1], m>>] ELSE h[i]]
<1>1. /\ h \in [0 .. m - 1 -> A] /\ h[0] = base
      /\ \A n \in 1 .. m - 1 : h[n] = step[<<h[n - 1], n>>]
  BY DEF FirstValues
<1>2. /\ m \in 1 .. N /\ m - 1 \in 0 .. m - 1
      /\ \A i \in 0 .. m : i # m => i \in 0 .. m - 1
      /\ \A i \in 1 .. m : i # m => i \in 1 .. m - 1
      /\ \A i \in 1 .. m : i - 1 \in 0 .. m /\ i - 1 \in 0 .. m - 1 /\ i \in 0 .. m
      /\ 0 \in 0 .. m /\ 0 # m
  OBVIOUS
<1>3. step[<<h[m - 1], m>>] \in A
  <2>1. h[m - 1] \in A
    BY <1>1, <1>2
  <2>2. <<h[m - 1], m>> \in A \X Nat
    BY <1>2, <2>1
  <2> QED BY <2>2
<1>4. g \in [0 .. m -> A]
  BY <1>1, <1>2, <1>3
<1>5. g[0] = base
  BY <1>1, <1>2
<1>6. ASSUME NEW n \in 1 .. m PROVE g[n] = step[<<g[n - 1], n>>]
  <2>1. n - 1 \in 0 .. m /\ n - 1 \in 0 .. m - 1 /\ n - 1 # m /\ n \in 0 .. m
    BY <1>2
  <2>2. g[n - 1] = h[n - 1]
    BY <2>1
  <2>3. CASE n = m
    BY <2>1, <2>2, <2>3
  <2>4. CASE n # m
    <3>1. n \in 1 .. m - 1
      BY <1>2, <2>4
    <3>2. g[n] = h[n]
      BY <2>1, <2>4
    <3> QED BY <1>1, <2>2, <3>1, <3>2
  <2> QED BY <2>3, <2>4
<1> HIDE DEF g
<1>7. g \in FirstValues(m, A, base, step)
  BY <1>4, <1>5, <1>6 DEF FirstValues
<1> QED BY <1>7

LEMMA RecursionExists ==
    ASSUME NEW N \in Nat, NEW A, NEW base \in A, NEW step \in [A \X Nat -> A]
    PROVE  FirstValues(N, A, base, step) # {}
<1> DEFINE Bad == {m \in 0 .. N : FirstValues(m, A, base, step) = {}}
<1>1. ASSUME Bad # {} PROVE FALSE
  <2>1. Bad \subseteq Nat
    OBVIOUS
  <2> HIDE DEF Bad
  <2>2. PICK m \in Bad : \A j \in Bad : m <= j
    BY <1>1, <2>1, LeastOne
  <2>3. m \in 0 .. N /\ FirstValues(m, A, base, step) = {}
    BY <2>2 DEF Bad
  <2>4. m # 0
    <3>1. SUFFICES ASSUME m = 0 PROVE FALSE
      OBVIOUS
    <3>2. [i \in 0 .. 0 |-> base] \in FirstValues(0, A, base, step)
      BY DEF FirstValues
    <3> QED BY <2>3, <3>1, <3>2
  <2>5. m - 1 \in 0 .. N /\ ~(m <= m - 1)
    BY <2>3, <2>4
  <2>6. m - 1 \notin Bad
    BY <2>2, <2>5
  <2>7. PICK h : h \in FirstValues(m - 1, A, base, step)
    BY <2>5, <2>6 DEF Bad
  <2> QED BY <2>3, <2>4, <2>7, OneValueMore
<1>2. N \in 0 .. N
  OBVIOUS
<1> QED BY <1>1, <1>2

\* Steps of one lead from 0 everywhere.
LEMMA StepByStep ==
    ASSUME NEW N \in Nat, NEW S, 0 \in S,
           \A n \in Nat : n < N /\ n \in S => n + 1 \in S
    PROVE  \A n \in Nat : n <= N => n \in S
<1> DEFINE Bad == {n \in Nat : n <= N /\ n \notin S}
<1>1. ASSUME Bad # {} PROVE FALSE
  <2>1. Bad \subseteq Nat
    OBVIOUS
  <2> HIDE DEF Bad
  <2>2. PICK n \in Bad : \A j \in Bad : n <= j
    BY <1>1, <2>1, LeastOne
  <2>3. n \in Nat /\ n <= N /\ n \notin S
    BY <2>2 DEF Bad
  <2>4. n # 0
    BY <2>3
  <2>5. n - 1 \in Nat /\ n - 1 < N /\ ~(n <= n - 1) /\ (n - 1) + 1 = n /\ n - 1 <= N
    BY <2>3, <2>4
  <2>6. n - 1 \in S
    BY <2>2, <2>5 DEF Bad
  <2>7. (n - 1) + 1 \in S
    BY <2>5, <2>6
  <2> QED BY <2>3, <2>5, <2>7
<1> QED BY <1>1

-----------------------------------------------------------------------------
(* Stacks.                                                                 *)

Slots == FieldValues \cup Keys \cup {Handed}
Heaps == [TableIds -> [Keys -> FieldValues]]

LEMMA CutFacts ==
    ASSUME NEW S, NEW st \in Seq(S), NEW n \in Nat
    PROVE  /\ Cut(st, n) \in Seq(S)
           /\ n <= Len(st) => /\ Len(Cut(st, n)) = Len(st) - n
                              /\ \A i \in 1 .. Len(st) - n : Cut(st, n)[i] = st[i]
<1> DEFINE N == Len(st)
<1>1. N \in Nat /\ \A i \in 1 .. N : st[i] \in S
  BY LenProperties
<1> HIDE DEF N
<1>2. N - n \in Int /\ \A i \in 1 .. N - n : i \in 1 .. N
  BY <1>1
<1>3. /\ SubSeq(st, 1, N - n) \in Seq(S)
      /\ Len(SubSeq(st, 1, N - n)) = IF 1 <= N - n THEN N - n - 1 + 1 ELSE 0
      /\ \A i \in 1 .. N - n - 1 + 1 : SubSeq(st, 1, N - n)[i] = st[1 + i - 1]
  BY <1>1, <1>2, SubSeqProperties
<1>4. Cut(st, n) = SubSeq(st, 1, N - n)
  BY DEF Cut, N
<1>5. ASSUME n <= N
      PROVE  /\ Len(Cut(st, n)) = N - n
             /\ \A i \in 1 .. N - n : Cut(st, n)[i] = st[i]
  <2>1. (IF 1 <= N - n THEN N - n - 1 + 1 ELSE 0) = N - n
    BY <1>1, <1>5
  <2>2. \A i \in 1 .. N - n : i \in 1 .. N - n - 1 + 1 /\ 1 + i - 1 = i
    BY <1>1
  <2> QED BY <1>3, <1>4, <2>1, <2>2
<1> QED BY <1>3, <1>4, <1>5 DEF N

LEMMA AppendFacts ==
    ASSUME NEW S, NEW st \in Seq(S), NEW v \in S
    PROVE  /\ Append(st, v) \in Seq(S) /\ Len(Append(st, v)) = Len(st) + 1
           /\ Len(st) \in Nat
           /\ \A i \in 1 .. Len(st) : Append(st, v)[i] = st[i]
           /\ Append(st, v)[Len(st) + 1] = v /\ Last(Append(st, v)) = v
BY AppendProperties, LenProperties DEF Last

\* n values above those of base.
Above(st, base, n) ==
    /\ st \in Seq(Slots) /\ Len(st) = Len(base) + n
    /\ \A i \in 1 .. Len(base) : st[i] = base[i]

LEMMA CutAbove ==
    ASSUME NEW base \in Seq(Slots), NEW n \in Nat, NEW st, Above(st, base, n)
    PROVE  Cut(st, n) = base
<1>1. /\ st \in Seq(Slots) /\ Len(base) \in Nat /\ Len(st) = Len(base) + n
      /\ \A i \in 1 .. Len(base) : st[i] = base[i]
  BY LenProperties DEF Above
<1>2. n <= Len(st) /\ Len(st) - n = Len(base)
  BY <1>1
<1>3. /\ Cut(st, n) \in Seq(Slots) /\ Len(Cut(st, n)) = Len(base)
      /\ \A i \in 1 .. Len(base) : Cut(st, n)[i] = st[i]
  BY <1>1, <1>2, CutFacts
<1> QED BY <1>1, <1>3, SeqEqual

LEMMA AppendAbove ==
    ASSUME NEW base \in Seq(Slots), NEW n \in Nat, NEW st, Above(st, base, n), NEW v \in Slots
    PROVE  Above(Append(st, v), base, n + 1)
<1>1. /\ st \in Seq(Slots) /\ Len(base) \in Nat /\ Len(st) = Len(base) + n
      /\ \A i \in 1 .. Len(base) : st[i] = base[i]
  BY LenProperties DEF Above
<1>2. /\ Append(st, v) \in Seq(Slots) /\ Len(Append(st, v)) = Len(st) + 1
      /\ \A i \in 1 .. Len(st) : Append(st, v)[i] = st[i]
  BY <1>1, AppendFacts
<1>3. Len(st) + 1 = Len(base) + (n + 1) /\ \A i \in 1 .. Len(base) : i \in 1 .. Len(st)
  BY <1>1
<1> QED BY <1>1, <1>2, <1>3 DEF Above

LEMMA CutOneAbove ==
    ASSUME NEW base \in Seq(Slots), NEW n \in Nat, NEW st, Above(st, base, n + 1)
    PROVE  Above(Cut(st, 1), base, n)
<1>1. /\ st \in Seq(Slots) /\ Len(base) \in Nat /\ Len(st) = Len(base) + (n + 1)
      /\ \A i \in 1 .. Len(base) : st[i] = base[i]
  BY LenProperties DEF Above
<1>2. 1 <= Len(st) /\ Len(st) - 1 = Len(base) + n
  BY <1>1
<1>3. /\ Cut(st, 1) \in Seq(Slots) /\ Len(Cut(st, 1)) = Len(base) + n
      /\ \A i \in 1 .. Len(base) + n : Cut(st, 1)[i] = st[i]
  <2> DEFINE one == 1
  <2>1. one \in Nat /\ one <= Len(st) /\ Len(st) - one = Len(base) + n
    BY <1>2
  <2> HIDE DEF one
  <2>2. /\ Cut(st, one) \in Seq(Slots) /\ Len(Cut(st, one)) = Len(st) - one
        /\ \A i \in 1 .. Len(st) - one : Cut(st, one)[i] = st[i]
    BY <1>1, <2>1, CutFacts
  <2> QED BY <2>1, <2>2 DEF one
<1>4. \A i \in 1 .. Len(base) : i \in 1 .. Len(base) + n
  BY <1>1
<1> QED BY <1>1, <1>3, <1>4 DEF Above

LEMMA AboveSelf ==
    ASSUME NEW base \in Seq(Slots)
    PROVE  Above(base, base, 0)
BY LenProperties DEF Above

-----------------------------------------------------------------------------
(* Machines.                                                               *)

Machines ==
    [st : Seq(Slots), heap : Heaps, at : Nat, count : Nat, end : {"go", "none", "error"}]

LEMMA MachineFacts ==
    ASSUME NEW m \in Machines
    PROVE  /\ m.st \in Seq(Slots) /\ m.heap \in Heaps /\ m.at \in Nat /\ m.count \in Nat
           /\ m.end \in {"go", "none", "error"}
BY DEF Machines

LEMMA FailedFacts ==
    ASSUME NEW m \in Machines
    PROVE  /\ Failed(m) \in Machines /\ Failed(m).end = "error"
           /\ Failed(m).st = m.st /\ Failed(m).heap = m.heap /\ Failed(m).at = m.at
           /\ Failed(m).count = m.count
BY DEF Machines, Failed

LEMMA PushFacts ==
    ASSUME NEW m \in Machines, NEW v \in Slots
    PROVE  /\ Push(m, v) \in Machines /\ Push(m, v).st = Append(m.st, v) /\ Top(Push(m, v)) = v
           /\ Push(m, v).heap = m.heap /\ Push(m, v).at = m.at
           /\ Push(m, v).count = m.count /\ Push(m, v).end = m.end
<1>1. Append(m.st, v) \in Seq(Slots) /\ Last(Append(m.st, v)) = v
  BY MachineFacts, AppendFacts
<1> QED BY <1>1 DEF Machines, Push, Top

LEMMA PopFacts ==
    ASSUME NEW m \in Machines, NEW n \in Nat
    PROVE  /\ Pop(m, n) \in Machines /\ Pop(m, n).st = Cut(m.st, n)
           /\ Pop(m, n).heap = m.heap /\ Pop(m, n).at = m.at
           /\ Pop(m, n).count = m.count /\ Pop(m, n).end = m.end
<1>1. Cut(m.st, n) \in Seq(Slots)
  BY MachineFacts, CutFacts
<1> QED BY <1>1 DEF Machines, Pop

LEMMA DescendFacts ==
    ASSUME NEW m \in Machines
    PROVE  /\ Descend(m) \in Machines /\ Descend(m).at = Len(m.st)
           /\ Descend(m).st = m.st /\ Descend(m).heap = m.heap
           /\ Descend(m).count = m.count /\ Descend(m).end = m.end
<1>1. Len(m.st) \in Nat
  BY MachineFacts, LenProperties
<1> QED BY <1>1 DEF Machines, Descend

LEMMA EmptyType == Empty \in [Keys -> FieldValues] /\ \A k \in Keys : Empty[k] = LuaNil
BY DEF Empty, FieldValues

LEMMA ValuesAreSlots ==
    TableIds \subseteq FieldValues /\ FieldValues \subseteq Slots /\ Keys \subseteq Slots /\ Handed \in Slots
    /\ LuaNil \in FieldValues /\ Scalar \in FieldValues
BY DEF Slots, FieldValues

LEMMA HeapUpdated ==
    ASSUME NEW h \in Heaps, NEW t \in TableIds, NEW k \in Keys, NEW v \in FieldValues
    PROVE  /\ h[t][k] \in FieldValues
           /\ [h EXCEPT ![t][k] = v] \in Heaps /\ [h EXCEPT ![t] = Empty] \in Heaps
BY EmptyType DEF Heaps

\* The table a key is looked up in, and what is there.
At(m) == m.st[m.at]
Found(m, k) == m.heap[At(m)][k]

LEMMA GetFacts ==
    ASSUME NEW m \in Machines, NEW k \in Keys
    PROVE  LET n == get_field(m, k)
           IN  /\ n \in Machines
               /\ n.heap = m.heap /\ n.at = m.at /\ n.count = m.count
               /\ At(m) \notin TableIds => n.end = "error" /\ n.st = m.st
               /\ At(m) \in TableIds =>
                     /\ n.end = m.end /\ n.st = Append(m.st, Found(m, k))
                     /\ Top(n) = Found(m, k) /\ Found(m, k) \in FieldValues
<1>1. CASE At(m) \notin TableIds
  BY <1>1, FailedFacts DEF get_field, At
<1>2. CASE At(m) \in TableIds
  <2>1. Found(m, k) \in FieldValues
    BY <1>2, MachineFacts, HeapUpdated, ValuesAreSlots DEF Found
  <2>2. Found(m, k) \in Slots
    BY <2>1, ValuesAreSlots
  <2>3. get_field(m, k) = Push(m, Found(m, k))
    BY <1>2 DEF get_field, At, Found
  <2> QED BY <1>2, <2>1, <2>2, <2>3, PushFacts
<1> QED BY <1>1, <1>2

LEMMA SpareFacts ==
    ASSUME NEW m, Spare(m) # {}
    PROVE  New(m) \in Spare(m) /\ New(m) \in TableIds
BY DEF New, Spare

LEMMA NewFacts ==
    ASSUME NEW m \in Machines
    PROVE  LET n == PushNew(m)
           IN  /\ n \in Machines /\ n.at = m.at /\ n.count = m.count
               /\ Spare(m) = {} => n.end = "error" /\ n.st = m.st /\ n.heap = m.heap
               /\ Spare(m) # {} =>
                     /\ New(m) \in TableIds
                     /\ n.end = m.end /\ n.st = Append(m.st, New(m)) /\ Top(n) = New(m)
                     /\ n.heap = [m.heap EXCEPT ![New(m)] = Empty]
<1>1. CASE Spare(m) = {}
  BY <1>1, FailedFacts DEF PushNew
<1>2. CASE Spare(m) # {}
  <2> DEFINE u == New(m)
             p == Push(m, u)
  <2>1. u \in TableIds /\ u \in Slots
    BY <1>2, SpareFacts, ValuesAreSlots
  <2> HIDE DEF u
  <2>2. /\ p \in Machines /\ p.st = Append(m.st, u) /\ Top(p) = u
        /\ p.heap = m.heap /\ p.at = m.at /\ p.count = m.count /\ p.end = m.end
    BY <2>1, PushFacts
  <2> HIDE DEF p
  <2>3. [p.heap EXCEPT ![u] = Empty] \in Heaps
    <3>1. p.heap \in Heaps
      BY <2>2, MachineFacts
    <3> QED BY <2>1, <3>1, EmptyType DEF Heaps
  <2> DEFINE q == [p EXCEPT !.heap[u] = Empty]
  <2>4. /\ q \in Machines /\ q.st = p.st /\ q.heap = [p.heap EXCEPT ![u] = Empty]
        /\ q.at = p.at /\ q.count = p.count /\ q.end = p.end
    BY <2>2, <2>3 DEF Machines
  <2>5. PushNew(m) = q
    BY <1>2 DEF PushNew, p, u
  <2>6. Top(q) = Top(p)
    BY <2>4 DEF Top
  <2> HIDE DEF q
  <2> QED BY <1>2, <2>1, <2>2, <2>4, <2>5, <2>6 DEF u
<1> QED BY <1>1, <1>2

LEMMA SetFacts ==
    ASSUME NEW m \in Machines, NEW k \in Keys, NEW v \in FieldValues
    PROVE  LET n == set_field(m, k, v)
           IN  /\ n \in Machines /\ n.at = m.at /\ n.count = m.count /\ n.st = m.st
               /\ (m.end = "error" \/ At(m) \notin TableIds) => n.end = "error" /\ n.heap = m.heap
               /\ ~(m.end = "error" \/ At(m) \notin TableIds) =>
                     n.end = m.end /\ n.heap = [m.heap EXCEPT ![At(m)][k] = v]
<1>1. CASE m.end = "error" \/ At(m) \notin TableIds
  BY <1>1, FailedFacts DEF set_field, At
<1>2. CASE ~(m.end = "error" \/ At(m) \notin TableIds)
  <2>1. [m.heap EXCEPT ![At(m)][k] = v] \in Heaps
    BY <1>2, MachineFacts, HeapUpdated
  <2> DEFINE q == [m EXCEPT !.heap = [m.heap EXCEPT ![At(m)][k] = v]]
  <2>2. set_field(m, k, v) = q
    BY <1>2 DEF set_field, At
  <2>3. /\ q \in Machines /\ q.at = m.at /\ q.count = m.count /\ q.st = m.st /\ q.end = m.end
        /\ q.heap = [m.heap EXCEPT ![At(m)][k] = v]
    BY <2>1 DEF Machines
  <2> QED BY <1>2, <2>2, <2>3
<1> QED BY <1>1, <1>2

\* A new table in the place of the top, stored under k.
Put(h, t, k, u) == [[h EXCEPT ![u] = Empty] EXCEPT ![t][k] = u]

LEMMA PutFacts ==
    ASSUME NEW m \in Machines, NEW k \in Keys
    PROVE  LET n == PutNew(m, k)
               u == New(Pop(m, 1))
               st == Append(Cut(m.st, 1), u)
           IN  /\ n \in Machines /\ n.at = m.at /\ n.count = m.count
               /\ n.end # "error" =>
                     /\ m.end = n.end /\ u \in Spare(Pop(m, 1)) /\ u \in TableIds
                     /\ n.st = st /\ Top(n) = u
                     /\ st[m.at] \in TableIds
                     /\ n.heap = Put(m.heap, st[m.at], k, u)
               /\ (m.end # "error" /\ Spare(Pop(m, 1)) # {} /\ st[m.at] \in TableIds)
                     => n.end # "error"
<1> DEFINE p == Pop(m, 1)
           q == PushNew(p)
           u == New(p)
<1>1. /\ p \in Machines /\ p.st = Cut(m.st, 1) /\ p.heap = m.heap /\ p.at = m.at
      /\ p.count = m.count /\ p.end = m.end
  BY PopFacts
<1> HIDE DEF p
<1>2. /\ q \in Machines /\ q.at = p.at /\ q.count = p.count
      /\ Spare(p) = {} => q.end = "error"
      /\ Spare(p) # {} => /\ u \in TableIds
                          /\ q.end = p.end /\ q.st = Append(p.st, u) /\ Top(q) = u
                          /\ q.heap = [p.heap EXCEPT ![u] = Empty]
  BY <1>1, NewFacts
<1>3. PutNew(m, k) = set_field(q, k, Top(q))
  BY DEF PutNew, p
<1>4. Spare(p) # {} => u \in Spare(p)
  BY SpareFacts
<1> HIDE DEF q, u
<1>5. CASE Spare(p) = {}
  <2>1. q.end = "error"
    BY <1>2, <1>5
  <2>2. PutNew(m, k) = Failed(q)
    BY <1>3, <2>1 DEF set_field
  <2>3. /\ Failed(q) \in Machines /\ Failed(q).end = "error" /\ Failed(q).at = q.at
        /\ Failed(q).count = q.count
    BY <1>2, FailedFacts
  <2> QED BY <1>1, <1>2, <1>5, <2>2, <2>3 DEF p, u
<1>6. CASE Spare(p) # {}
  <2>1. Top(q) \in FieldValues /\ Top(q) = u
    BY <1>2, <1>6, ValuesAreSlots
  <2> DEFINE n == set_field(q, k, u)
  <2>2. /\ n \in Machines /\ n.at = q.at /\ n.count = q.count /\ n.st = q.st
        /\ (q.end = "error" \/ At(q) \notin TableIds) => n.end = "error"
        /\ ~(q.end = "error" \/ At(q) \notin TableIds) =>
              n.end = q.end /\ n.heap = [q.heap EXCEPT ![At(q)][k] = u]
    BY <1>2, <2>1, SetFacts
  <2>3. At(q) = Append(Cut(m.st, 1), u)[m.at] /\ q.st = Append(Cut(m.st, 1), u)
    BY <1>1, <1>2, <1>6 DEF At
  <2>4. Top(n) = u
    BY <2>1, <2>2 DEF Top
  <2>5. PutNew(m, k) = n
    BY <1>3, <2>1
  <2> HIDE DEF n
  <2>6. n.end # "error" => n.heap = Put(m.heap, Append(Cut(m.st, 1), u)[m.at], k, u)
    <3> DEFINE t == Append(Cut(m.st, 1), u)[m.at]
    <3>1. n.end # "error" => n.heap = [q.heap EXCEPT ![t][k] = u]
      BY <2>2, <2>3
    <3>2. q.heap = [m.heap EXCEPT ![u] = Empty]
      BY <1>1, <1>2, <1>6
    <3> HIDE DEF t
    <3>3. n.end # "error" => n.heap = Put(m.heap, t, k, u)
      BY <3>1, <3>2 DEF Put
    <3> QED BY <3>3 DEF t
  <2> QED BY <1>1, <1>2, <1>4, <1>6, <2>2, <2>3, <2>4, <2>5, <2>6 DEF p, u
<1> QED BY <1>5, <1>6

LEMMA ProbeFacts ==
    ASSUME NEW m \in Machines, NEW k \in Keys
    PROVE  LET n == probe(m, k)
           IN  /\ n \in Machines /\ n.at = m.at /\ n.heap = m.heap
               /\ At(m) \notin TableIds => n.end = "none" /\ n.st = m.st /\ n.count = m.count
               /\ At(m) \in TableIds =>
                     /\ n.st = Append(m.st, Found(m, k)) /\ n.count = m.count + 1
                     /\ Top(n) = Found(m, k) /\ Found(m, k) \in FieldValues
                     /\ n.end = (IF Found(m, k) = LuaNil THEN "none" ELSE m.end)
<1>1. CASE At(m) \notin TableIds
  BY <1>1 DEF probe, At, Machines
<1>2. CASE At(m) \in TableIds
  <2> DEFINE g == get_field(m, k)
             v == Found(m, k)
             c == [g EXCEPT !.count = g.count + 1]
  <2>1. /\ g \in Machines /\ g.heap = m.heap /\ g.at = m.at /\ g.count = m.count
        /\ g.end = m.end /\ g.st = Append(m.st, v) /\ Top(g) = v /\ v \in FieldValues
    BY <1>2, GetFacts
  <2> HIDE DEF g, v
  <2>2. /\ c \in Machines /\ c.heap = m.heap /\ c.at = m.at /\ c.count = m.count + 1
        /\ c.end = m.end /\ c.st = Append(m.st, v)
    BY <2>1 DEF Machines
  <2>3. Top(c) = v
    BY <2>1, <2>2 DEF Top
  <2>4. probe(m, k) = IF Top(c) = LuaNil THEN [c EXCEPT !.end = "none"] ELSE c
    BY <1>2 DEF probe, At, g
  <2> HIDE DEF c
  <2> DEFINE d == [c EXCEPT !.end = "none"]
  <2>5. /\ d \in Machines /\ d.heap = m.heap /\ d.at = m.at /\ d.count = m.count + 1
        /\ d.end = "none" /\ d.st = Append(m.st, v)
    BY <2>2 DEF Machines
  <2>6. Top(d) = v
    BY <2>3, <2>5, <2>2 DEF Top
  <2> HIDE DEF d
  <2>7. probe(m, k) = IF v = LuaNil THEN d ELSE c
    BY <2>3, <2>4 DEF d
  <2> QED BY <1>2, <2>1, <2>2, <2>3, <2>5, <2>6, <2>7 DEF v
<1> QED BY <1>1, <1>2

LEMMA CutAppend ==
    ASSUME NEW st \in Seq(Slots), NEW v \in Slots
    PROVE  Cut(Append(st, v), 1) = st
<1> DEFINE one == 0 + 1
<1>1. one \in Nat /\ one = 1 /\ 0 \in Nat
  OBVIOUS
<1>2. Above(Append(st, v), st, one)
  BY <1>1, AboveSelf, AppendAbove
<1> HIDE DEF one
<1>3. Cut(Append(st, v), one) = st
  BY <1>1, <1>2, CutAbove
<1> QED BY <1>1, <1>3

\* One key takes the walk from m to r, which is now at what it pushed.
Onward(m, r, c) ==
    /\ r.end = "go" => r.at = Len(r.st)
    /\ r.end # "error" =>
          \/ /\ \E v \in FieldValues : r.st = Append(m.st, v)
             /\ r.count = m.count + c
          \/ /\ c = 1 /\ r.end = "none" /\ r.st = m.st /\ r.count = m.count
          \/ /\ c = 1 /\ At(m) \notin TableIds /\ r.count = m.count
             /\ \E v \in FieldValues : r.st = Append(Cut(m.st, 1), v)

LEMMA GetDeepFacts ==
    ASSUME NEW m \in Machines, NEW k \in Keys, NEW type, NEW mode
    PROVE  LET r == get_deep(m, k, type, mode)
           IN  /\ r \in Machines
               /\ m.end # "go" => r = m
               /\ m.end = "go" => r.end # "none" /\ Onward(m, r, 0)
               /\ (m.end = "go" /\ At(m) \notin TableIds) => r.end = "error"
               /\ (m.end = "go" /\ At(m) \in TableIds /\ mode = "none") =>
                     /\ r.end = "go" /\ r.heap = m.heap /\ r.at = Len(r.st)
                     /\ r.st = Append(m.st, Found(m, k)) /\ Top(r) = Found(m, k)
<1> DEFINE r == get_deep(m, k, type, mode)
           n == get_field(m, k)
           p == Pop(n, 1)
           q == PushNew(p)
           replace == n.end = "go" /\ Top(n) = LuaNil /\ mode = "create_if_nil" /\ type = "table"
<1>1. CASE m.end # "go"
  BY <1>1 DEF get_deep
<1>2. CASE m.end = "go"
  <2>0. /\ n \in Machines
        /\ n.heap = m.heap /\ n.at = m.at /\ n.count = m.count
        /\ At(m) \notin TableIds => n.end = "error" /\ n.st = m.st
        /\ At(m) \in TableIds =>
              /\ n.end = m.end /\ n.st = Append(m.st, Found(m, k))
              /\ Top(n) = Found(m, k) /\ Found(m, k) \in FieldValues
    BY GetFacts
  <2>1. r = IF replace THEN Descend(q) ELSE Descend(n)
    BY <1>2 DEF get_deep
  <2>2. CASE replace
    <3>1. At(m) \in TableIds
      BY <2>0, <2>2
    <3>2. /\ p \in Machines /\ p.st = Cut(n.st, 1) /\ p.count = n.count /\ p.end = n.end
      BY <2>0, PopFacts
    <3>3. p.st = m.st
      <4> DEFINE v == Found(m, k)
      <4>1. v \in Slots /\ m.st \in Seq(Slots) /\ p.st = Cut(Append(m.st, v), 1)
        BY <2>0, <3>1, <3>2, MachineFacts, ValuesAreSlots
      <4> HIDE DEF v
      <4> QED BY <4>1, CutAppend
    <3> HIDE DEF p
    <3>4. /\ q \in Machines /\ q.count = p.count
          /\ Spare(p) = {} => q.end = "error"
          /\ Spare(p) # {} => /\ New(p) \in TableIds /\ q.end = p.end
                              /\ q.st = Append(p.st, New(p))
      BY <3>2, NewFacts
    <3> HIDE DEF q
    <3>5. /\ Descend(q) \in Machines /\ Descend(q).at = Len(q.st) /\ Descend(q).st = q.st
          /\ Descend(q).count = q.count /\ Descend(q).end = q.end
      BY <3>4, DescendFacts
    <3>6. r = Descend(q) /\ mode # "none"
      BY <2>1, <2>2
    <3>7. \E v \in FieldValues : r.end # "error" => r.st = Append(m.st, v)
      BY <3>3, <3>4, <3>5, <3>6, ValuesAreSlots
    <3>8. r.count = m.count /\ m.count \in Nat /\ r.end # "none"
      BY <2>0, <2>2, <3>2, <3>4, <3>5, <3>6, MachineFacts
    <3>9. Onward(m, r, 0)
      BY <3>5, <3>6, <3>7, <3>8 DEF Onward
    <3> QED BY <1>2, <3>1, <3>5, <3>6, <3>8, <3>9
  <2>3. CASE ~replace
    <3>1. r = Descend(n)
      BY <2>1, <2>3
    <3>2. /\ Descend(n) \in Machines /\ Descend(n).at = Len(n.st) /\ Descend(n).st = n.st
          /\ Descend(n).count = n.count /\ Descend(n).end = n.end /\ Descend(n).heap = n.heap
      BY <2>0, DescendFacts
    <3>3. r.count = m.count /\ m.count \in Nat /\ r.end # "none" /\ Top(r) = Top(n)
      BY <1>2, <2>0, <3>1, <3>2, MachineFacts DEF Top
    <3>4. Onward(m, r, 0)
      BY <1>2, <2>0, <3>1, <3>2, <3>3 DEF Onward
    <3> QED BY <1>2, <2>0, <3>1, <3>2, <3>3, <3>4
  <2> QED BY <2>2, <2>3
<1> QED BY <1>1, <1>2

\* A machine of which only how it ended changes.
LEMMA EndFacts ==
    ASSUME NEW m \in Machines, NEW e \in {"go", "none", "error"}
    PROVE  LET r == [m EXCEPT !.end = e]
           IN  /\ r \in Machines /\ r.st = m.st /\ r.heap = m.heap /\ r.at = m.at
               /\ r.count = m.count /\ r.end = e /\ Top(r) = Top(m) /\ At(r) = At(m)
BY DEF Machines, Top, At

LEMMA OptionalFacts ==
    ASSUME NEW m \in Machines, NEW k \in Keys, NEW type, NEW mode
    PROVE  LET r == get_deep_optional(m, k, type, mode)
           IN  /\ r \in Machines
               /\ m.end # "go" => r = m
               /\ m.end = "go" => Onward(m, r, 1)
               /\ (m.end = "go" /\ mode = "none") =>
                     /\ r.heap = m.heap
                     /\ At(m) \notin TableIds => r.end = "none"
                     /\ At(m) \in TableIds =>
                           IF Found(m, k) # LuaNil /\ Fits(Found(m, k), type)
                           THEN r.end = "go" /\ Top(r) = Found(m, k)
                           ELSE r.end = "none"
<1> DEFINE r == get_deep_optional(m, k, type, mode)
           p == probe(m, k)
           g == [p EXCEPT !.end = "go"]
           o == [p EXCEPT !.end = "none"]
           n == PutNew(g, k)
<1>1. CASE m.end # "go"
  BY <1>1 DEF get_deep_optional
<1>2. CASE m.end = "go"
  <2>0. /\ p \in Machines /\ p.at = m.at /\ p.heap = m.heap
        /\ At(m) \notin TableIds => p.end = "none" /\ p.st = m.st /\ p.count = m.count
        /\ At(m) \in TableIds =>
              /\ p.st = Append(m.st, Found(m, k)) /\ p.count = m.count + 1
              /\ Top(p) = Found(m, k) /\ Found(m, k) \in FieldValues
              /\ p.end = (IF Found(m, k) = LuaNil THEN "none" ELSE m.end)
    BY ProbeFacts
  <2>1. r = IF p.end = "go" /\ Fits(Top(p), type) THEN Descend(p)
            ELSE IF mode # "create_if_nil" THEN o ELSE Descend(n)
    BY <1>2 DEF get_deep_optional
  <2>2. CASE p.end = "go" /\ Fits(Top(p), type)
    <3>1. r = Descend(p) /\ At(m) \in TableIds
      BY <2>0, <2>1, <2>2
    <3>2. /\ Descend(p) \in Machines /\ Descend(p).at = Len(p.st) /\ Descend(p).st = p.st
          /\ Descend(p).count = p.count /\ Descend(p).end = p.end /\ Descend(p).heap = p.heap
      BY <2>0, DescendFacts
    <3>3. Top(r) = Top(p)
      BY <3>1, <3>2 DEF Top
    <3>4. Onward(m, r, 1)
      BY <1>2, <2>0, <3>1, <3>2 DEF Onward
    <3>5. Found(m, k) # LuaNil
      BY <2>0, <2>2, <3>1
    <3> QED BY <1>2, <2>0, <2>2, <3>1, <3>2, <3>3, <3>4, <3>5
  <2>3. CASE ~(p.end = "go" /\ Fits(Top(p), type)) /\ mode # "create_if_nil"
    <3>1. r = o
      BY <2>1, <2>3
    <3>2. /\ o \in Machines /\ o.st = p.st /\ o.heap = p.heap /\ o.at = p.at
          /\ o.count = p.count /\ o.end = "none"
      BY <2>0, EndFacts
    <3> HIDE DEF o
    <3>3. Onward(m, r, 1)
      BY <2>0, <3>1, <3>2 DEF Onward
    <3>4. At(m) \in TableIds => ~(Found(m, k) # LuaNil /\ Fits(Found(m, k), type))
      BY <1>2, <2>0, <2>3
    <3> QED BY <1>2, <2>0, <3>1, <3>2, <3>3, <3>4
  <2>4. CASE ~(p.end = "go" /\ Fits(Top(p), type)) /\ mode = "create_if_nil"
    <3>1. r = Descend(n)
      BY <2>1, <2>4
    <3>2. /\ g \in Machines /\ g.st = p.st /\ g.count = p.count /\ g.end = "go"
      BY <2>0, EndFacts
    <3> HIDE DEF g
    <3>3. /\ n \in Machines /\ n.count = g.count
          /\ n.end # "error" =>
                \E u \in TableIds : m.end = n.end /\ n.st = Append(Cut(g.st, 1), u)
      <4> DEFINE u == New(Pop(g, 1))
      <4>1. /\ n \in Machines /\ n.count = g.count
            /\ n.end # "error" =>
                  g.end = n.end /\ u \in TableIds /\ n.st = Append(Cut(g.st, 1), u)
        BY <3>2, PutFacts
      <4> QED BY <1>2, <3>2, <4>1
    <3> HIDE DEF n
    <3>4. /\ Descend(n) \in Machines /\ Descend(n).at = Len(n.st) /\ Descend(n).st = n.st
          /\ Descend(n).count = n.count /\ Descend(n).end = n.end
      BY <3>3, DescendFacts
    <3>5. CASE At(m) \in TableIds
      <4>1. Cut(g.st, 1) = m.st
        <5> DEFINE v == Found(m, k)
        <5>1. v \in Slots /\ m.st \in Seq(Slots) /\ g.st = Append(m.st, v)
          BY <2>0, <3>2, <3>5, MachineFacts, ValuesAreSlots
        <5> HIDE DEF v
        <5> QED BY <5>1, CutAppend
      <4>2. r.end # "error" => \E v \in FieldValues : r.st = Append(m.st, v)
        BY <3>1, <3>3, <3>4, <4>1, ValuesAreSlots
      <4>3. Onward(m, r, 1)
        BY <2>0, <3>1, <3>2, <3>3, <3>4, <3>5, <4>2 DEF Onward
      <4> QED BY <1>2, <2>4, <3>1, <3>4, <4>3
    <3>6. CASE At(m) \notin TableIds
      <4>1. r.end # "error" => \E v \in FieldValues : r.st = Append(Cut(m.st, 1), v)
        BY <2>0, <3>1, <3>2, <3>3, <3>4, <3>6, ValuesAreSlots
      <4>2. Onward(m, r, 1)
        BY <2>0, <3>1, <3>2, <3>3, <3>4, <3>6, <4>1 DEF Onward
      <4> QED BY <1>2, <2>4, <3>1, <3>4, <4>2
    <3> QED BY <3>5, <3>6
  <2> QED BY <2>2, <2>3, <2>4
<1> QED BY <1>1, <1>2

LEMMA SetDeepFacts ==
    ASSUME NEW m \in Machines, NEW k \in Keys, NEW mode
    PROVE  LET r == set_deep(m, k, mode)
           IN  /\ r \in Machines
               /\ m.end # "go" => r = m
               /\ m.end = "go" => r.end # "none" /\ Onward(m, r, 0)
               /\ (m.end = "go" /\ At(m) \notin TableIds) => r.end = "error"
               /\ (m.end = "go" /\ At(m) \in TableIds /\ ~replaces(Found(m, k), mode)) =>
                     /\ r.end = "go" /\ r.heap = m.heap /\ r.at = Len(r.st)
                     /\ r.st = Append(m.st, Found(m, k)) /\ Top(r) = Found(m, k)
               /\ (m.end = "go" /\ At(m) \in TableIds /\ replaces(Found(m, k), mode)
                     /\ r.end # "error") =>
                     \E p \in Machines : \E u \in Spare(p) :
                        /\ p.st = m.st /\ p.heap = m.heap
                        /\ r.end = "go" /\ r.at = Len(r.st) /\ Top(r) = u
                        /\ r.st = Append(m.st, u)
                        /\ Append(m.st, u)[m.at] \in TableIds
                        /\ r.heap = Put(m.heap, Append(m.st, u)[m.at], k, u)
<1> DEFINE r == set_deep(m, k, mode)
           n == get_field(m, k)
           w == PutNew(n, k)
<1>1. CASE m.end # "go"
  BY <1>1 DEF set_deep
<1>2. CASE m.end = "go"
  <2>0. /\ n \in Machines
        /\ n.heap = m.heap /\ n.at = m.at /\ n.count = m.count
        /\ At(m) \notin TableIds => n.end = "error" /\ n.st = m.st
        /\ At(m) \in TableIds =>
              /\ n.end = m.end /\ n.st = Append(m.st, Found(m, k))
              /\ Top(n) = Found(m, k) /\ Found(m, k) \in FieldValues
    BY GetFacts
  <2>1. r = IF n.end = "go" /\ replaces(Top(n), mode) THEN Descend(w) ELSE Descend(n)
    BY <1>2 DEF set_deep
  <2>2. CASE n.end = "go" /\ replaces(Top(n), mode)
    <3> DEFINE p == Pop(n, 1)
               u == New(p)
    <3>1. At(m) \in TableIds /\ replaces(Found(m, k), mode) /\ r = Descend(w)
      BY <2>0, <2>1, <2>2
    <3>2. p \in Machines /\ p.st = Cut(n.st, 1) /\ p.heap = n.heap
      BY <2>0, PopFacts
    <3>3. Cut(n.st, 1) = m.st
      <4> DEFINE v == Found(m, k)
      <4>1. v \in Slots /\ m.st \in Seq(Slots) /\ n.st = Append(m.st, v)
        BY <2>0, <3>1, MachineFacts, ValuesAreSlots
      <4> HIDE DEF v
      <4> QED BY <4>1, CutAppend
    <3>4. /\ w \in Machines /\ w.count = n.count
          /\ w.end # "error" =>
                /\ n.end = w.end /\ u \in Spare(p) /\ u \in TableIds
                /\ w.st = Append(Cut(n.st, 1), u) /\ Top(w) = u
                /\ Append(Cut(n.st, 1), u)[n.at] \in TableIds
                /\ w.heap = Put(n.heap, Append(Cut(n.st, 1), u)[n.at], k, u)
      BY <2>0, PutFacts
    <3> HIDE DEF w, p, u
    <3>5. /\ Descend(w) \in Machines /\ Descend(w).at = Len(w.st) /\ Descend(w).st = w.st
          /\ Descend(w).count = w.count /\ Descend(w).end = w.end /\ Descend(w).heap = w.heap
      BY <3>4, DescendFacts
    <3>6. Top(r) = Top(w)
      BY <3>1, <3>5 DEF Top
    <3>7. r.end # "none" /\ r.count = m.count /\ m.count \in Nat
      BY <1>2, <2>0, <2>2, <3>1, <3>4, <3>5, MachineFacts
    <3>8. Onward(m, r, 0)
      BY <3>1, <3>3, <3>4, <3>5, <3>7, ValuesAreSlots DEF Onward
    <3>9. r.end # "error" =>
             /\ p \in Machines /\ u \in Spare(p) /\ p.st = m.st /\ p.heap = m.heap
             /\ r.end = "go" /\ r.at = Len(r.st) /\ Top(r) = u /\ r.st = Append(m.st, u)
             /\ Append(m.st, u)[m.at] \in TableIds
             /\ r.heap = Put(m.heap, Append(m.st, u)[m.at], k, u)
      BY <1>2, <2>0, <2>2, <3>1, <3>2, <3>3, <3>4, <3>5, <3>6
    <3> QED BY <1>2, <3>1, <3>5, <3>7, <3>8, <3>9
  <2>3. CASE ~(n.end = "go" /\ replaces(Top(n), mode))
    <3>1. r = Descend(n)
      BY <2>1, <2>3
    <3>2. /\ Descend(n) \in Machines /\ Descend(n).at = Len(n.st) /\ Descend(n).st = n.st
          /\ Descend(n).count = n.count /\ Descend(n).end = n.end /\ Descend(n).heap = n.heap
      BY <2>0, DescendFacts
    <3>3. r.count = m.count /\ m.count \in Nat /\ r.end # "none" /\ Top(r) = Top(n)
      BY <1>2, <2>0, <3>1, <3>2, MachineFacts DEF Top
    <3>4. Onward(m, r, 0)
      BY <1>2, <2>0, <3>1, <3>2, <3>3 DEF Onward
    <3>5. At(m) \in TableIds => ~replaces(Found(m, k), mode)
      BY <1>2, <2>0, <2>3
    <3> QED BY <1>2, <2>0, <3>1, <3>2, <3>3, <3>4, <3>5
  <2> QED BY <2>2, <2>3
<1> QED BY <1>1, <1>2

PathOperations == {"get", "optional", "set", "tuple", "valid"}
Counting == {"optional", "valid"}
Counted(op) == IF op \in Counting THEN 1 ELSE 0

LEMMA AlongFacts ==
    ASSUME NEW op \in PathOperations, NEW m \in Machines, NEW k \in Keys, NEW mode
    PROVE  LET r == along(op, m, k, mode)
           IN  /\ r \in Machines
               /\ m.end # "go" => r = m
               /\ m.end = "go" => Onward(m, r, Counted(op))
               /\ (m.end = "go" /\ op \notin Counting) => r.end # "none"
<1> DEFINE r == along(op, m, k, mode)
<1>1. CASE op = "get"
  <2> DEFINE n == get_deep(m, k, "table", mode)
  <2>1. r = n /\ op \notin Counting /\ Counted(op) = 0
    BY <1>1 DEF along, Counting, Counted
  <2>2. /\ n \in Machines
        /\ m.end # "go" => n = m
        /\ m.end = "go" => n.end # "none" /\ Onward(m, n, 0)
    BY GetDeepFacts
  <2> HIDE DEF n, r
  <2> QED BY <2>1, <2>2 DEF r
<1>2. CASE op = "optional"
  <2> DEFINE n == get_deep_optional(m, k, "object", mode)
  <2>1. r = n /\ op \in Counting /\ Counted(op) = 1
    BY <1>2 DEF along, Counting, Counted
  <2>2. n \in Machines /\ (m.end # "go" => n = m) /\ (m.end = "go" => Onward(m, n, 1))
    BY OptionalFacts
  <2> HIDE DEF n, r
  <2> QED BY <2>1, <2>2 DEF r
<1>3. CASE op = "set"
  <2> DEFINE n == set_deep(m, k, mode)
  <2>1. r = n /\ op \notin Counting /\ Counted(op) = 0
    BY <1>3 DEF along, Counting, Counted
  <2>2. /\ n \in Machines
        /\ m.end # "go" => n = m
        /\ m.end = "go" => n.end # "none" /\ Onward(m, n, 0)
    BY SetDeepFacts
  <2> HIDE DEF n, r
  <2> QED BY <2>1, <2>2 DEF r
<1>4. CASE op = "tuple"
  <2> DEFINE n == get_field(m, k)
  <2>1. r = (IF m.end = "go" THEN Descend(n) ELSE m) /\ op \notin Counting /\ Counted(op) = 0
    BY <1>4 DEF along, Counting, Counted
  <2>2. /\ n \in Machines /\ n.count = m.count
        /\ At(m) \notin TableIds => n.end = "error" /\ n.st = m.st
        /\ At(m) \in TableIds => /\ n.end = m.end /\ n.st = Append(m.st, Found(m, k))
                                 /\ Found(m, k) \in FieldValues
    BY GetFacts
  <2> HIDE DEF n
  <2>3. /\ Descend(n) \in Machines /\ Descend(n).at = Len(n.st) /\ Descend(n).st = n.st
        /\ Descend(n).count = n.count /\ Descend(n).end = n.end
    BY <2>2, DescendFacts
  <2>4. m.end = "go" => Onward(m, r, Counted(op))
    BY <2>1, <2>2, <2>3, MachineFacts DEF Onward
  <2> QED BY <2>1, <2>2, <2>3, <2>4
<1>5. CASE op = "valid"
  <2> DEFINE n == probe(m, k)
  <2>1. r = (IF m.end = "go" THEN Descend(n) ELSE m) /\ op \in Counting /\ Counted(op) = 1
    BY <1>5 DEF along, Counting, Counted
  <2>2. /\ n \in Machines
        /\ At(m) \notin TableIds => n.end = "none" /\ n.st = m.st /\ n.count = m.count
        /\ At(m) \in TableIds =>
              /\ n.st = Append(m.st, Found(m, k)) /\ n.count = m.count + 1
              /\ Found(m, k) \in FieldValues
              /\ n.end = (IF Found(m, k) = LuaNil THEN "none" ELSE m.end)
    BY ProbeFacts
  <2> HIDE DEF n
  <2>3. /\ Descend(n) \in Machines /\ Descend(n).at = Len(n.st) /\ Descend(n).st = n.st
        /\ Descend(n).count = n.count /\ Descend(n).end = n.end
    BY <2>2, DescendFacts
  <2>4. m.end = "go" => Onward(m, r, Counted(op))
    BY <2>1, <2>2, <2>3, MachineFacts DEF Onward
  <2> QED BY <2>1, <2>2, <2>3, <2>4
<1> QED BY <1>1, <1>2, <1>3, <1>4, <1>5 DEF PathOperations

-----------------------------------------------------------------------------
(* Paths.                                                                  *)

LEMMA DeepFacts ==
    ASSUME NEW op \in PathOperations, NEW m \in Machines, NEW path \in Seq(Keys), NEW mode
    PROVE  LET d == deep(op, m, path, mode)
           IN  /\ d \in [0 .. Len(path) -> Machines] /\ d[0] = m
               /\ \A n \in 1 .. Len(path) : d[n] = along(op, d[n - 1], path[n], mode)
<1> DEFINE N == Len(path)
           next(x, n) == along(op, x, path[n], mode)
           step == [p \in Machines \X Nat |-> IF p[2] \in 1 .. N THEN next(p[1], p[2]) ELSE p[1]]
           Body(s) == [n \in 0 .. N |-> IF n = 0 THEN m ELSE next(s[n - 1], n)]
           chosen == CHOOSE s : s = Body(s)
<1>1. N \in Nat /\ \A n \in 1 .. N : path[n] \in Keys
  BY LenProperties
<1>2. deep(op, m, path, mode) = chosen
  BY DEF deep
<1>3. \A x \in Machines : \A n \in 1 .. N : next(x, n) \in Machines
  BY <1>1, AlongFacts
<1> HIDE DEF N, next, chosen
<1>4. step \in [Machines \X Nat -> Machines]
  BY <1>3
<1>5. \A x \in Machines : \A n \in 1 .. N : step[<<x, n>>] = next(x, n)
  BY <1>1
<1> HIDE DEF step
<1>6. PICK h \in [0 .. N -> Machines] :
         h[0] = m /\ \A n \in 1 .. N : h[n] = step[<<h[n - 1], n>>]
  <2>1. FirstValues(N, Machines, m, step) # {}
    BY <1>1, <1>4, RecursionExists
  <2> QED BY <2>1 DEF FirstValues
<1>7. ASSUME NEW n \in 0 .. N
      PROVE  h[n] = IF n = 0 THEN m ELSE next(h[n - 1], n)
  <2>1. CASE n = 0
    BY <1>6, <2>1
  <2>2. CASE n # 0
    <3>1. n \in 1 .. N /\ n - 1 \in 0 .. N
      BY <1>1, <2>2
    <3>2. h[n - 1] \in Machines
      BY <3>1
    <3> QED BY <1>5, <1>6, <2>2, <3>1, <3>2
  <2> QED BY <2>1, <2>2
<1>8. h = Body(h)
  BY <1>7
<1>9. chosen = Body(chosen)
  BY <1>8 DEF chosen
<1>10. DOMAIN chosen = 0 .. N /\ \A n \in 0 .. N : chosen[n] = IF n = 0 THEN m ELSE next(chosen[n - 1], n)
  BY <1>9
<1>11. chosen[0] = m /\ \A n \in 1 .. N : chosen[n] = next(chosen[n - 1], n)
  <2>1. 0 \in 0 .. N /\ \A n \in 1 .. N : n \in 0 .. N /\ n # 0
    BY <1>1
  <2> QED BY <1>10, <2>1
<1>12. \A n \in Nat : n <= N => chosen[n] \in Machines
  <2> DEFINE S == {n \in Nat : chosen[n] \in Machines}
  <2>1. 0 \in S
    BY <1>11
  <2>2. ASSUME NEW n \in Nat, n < N, n \in S PROVE n + 1 \in S
    <3>1. n + 1 \in 1 .. N /\ (n + 1) - 1 = n /\ n + 1 \in Nat
      BY <1>1, <2>2
    <3>2. chosen[n + 1] = next(chosen[n], n + 1)
      BY <1>11, <3>1
    <3> QED BY <1>3, <2>2, <3>1, <3>2
  <2>3. \A n \in Nat : n < N /\ n \in S => n + 1 \in S
    BY <2>2
  <2> HIDE DEF S
  <2>4. \A n \in Nat : n <= N => n \in S
    BY <1>1, <2>1, <2>3, StepByStep
  <2> QED BY <2>4 DEF S
<1>13. chosen \in [0 .. N -> Machines]
  <2>1. \A n \in 0 .. N : chosen[n] \in Machines
    BY <1>1, <1>12
  <2> QED BY <1>9, <2>1
<1> QED BY <1>2, <1>11, <1>13 DEF N, next

\* An operation begins at a table that lies on its stack.
Starts(m) ==
    /\ m \in Machines /\ m.end = "go" /\ m.count = 0
    /\ m.at \in 1 .. Len(m.st) /\ At(m) \in TableIds

\* What the operation has pushed when it is at r, after n keys.
Carried(op, m, r, n) ==
    /\ op \notin Counting =>
          r.end # "none" /\ (r.end # "error" => Above(r.st, m.st, n))
    /\ op \in Counting =>
          /\ r.end # "error" => Above(r.st, m.st, r.count)
          /\ r.end = "go" /\ r.count = 0 => r.at = m.at
          /\ r.end = "go" /\ r.count # 0 => r.at = Len(r.st)

LEMMA OnwardCounts ==
    ASSUME NEW base \in Seq(Slots), NEW m \in Machines, NEW r \in Machines, NEW n \in Nat,
           NEW c \in {0, 1}, Onward(m, r, c), r.end # "error",
           Above(m.st, base, n), n = 0 => At(m) \in TableIds
    PROVE  \/ Above(r.st, base, n + 1) /\ r.count = m.count + c
           \/ /\ Above(r.st, base, n) /\ r.count = m.count /\ c = 1
              /\ r.end = "go" => n # 0
<1>1. CASE \E v \in FieldValues : r.st = Append(m.st, v) /\ r.count = m.count + c
  BY <1>1, AppendAbove, ValuesAreSlots
<1>2. CASE c = 1 /\ r.end = "none" /\ r.st = m.st /\ r.count = m.count
  BY <1>2
<1>3. CASE /\ c = 1 /\ At(m) \notin TableIds /\ r.count = m.count
           /\ \E v \in FieldValues : r.st = Append(Cut(m.st, 1), v)
  <2>1. n # 0 /\ n - 1 \in Nat /\ (n - 1) + 1 = n
    BY <1>3
  <2> DEFINE p == n - 1
  <2>2. p \in Nat /\ Above(m.st, base, p + 1) /\ p + 1 = n
    BY <2>1
  <2> HIDE DEF p
  <2>3. Above(Cut(m.st, 1), base, p)
    BY <2>2, CutOneAbove
  <2>4. PICK v \in FieldValues : r.st = Append(Cut(m.st, 1), v)
    BY <1>3
  <2>5. Above(r.st, base, p + 1)
    BY <2>2, <2>3, <2>4, AppendAbove, ValuesAreSlots
  <2> QED BY <1>3, <2>1, <2>2, <2>5
<1>4. \/ \E v \in FieldValues : r.st = Append(m.st, v) /\ r.count = m.count + c
      \/ c = 1 /\ r.end = "none" /\ r.st = m.st /\ r.count = m.count
      \/ /\ c = 1 /\ At(m) \notin TableIds /\ r.count = m.count
         /\ \E v \in FieldValues : r.st = Append(Cut(m.st, 1), v)
  BY DEF Onward
<1> QED BY <1>1, <1>2, <1>3, <1>4

\* Looking up the key after the first n carries the count on.
LEMMA OnwardCarries ==
    ASSUME NEW op \in PathOperations, NEW m, Starts(m), NEW n \in Nat, NEW q \in Machines,
           Carried(op, m, q, n), q.end = "go", n = 0 => q = m,
           NEW r \in Machines, Onward(q, r, Counted(op)), op \notin Counting => r.end # "none"
    PROVE  Carried(op, m, r, n + 1)
<1>1. m \in Machines /\ m.st \in Seq(Slots) /\ Len(m.st) \in Nat /\ At(m) \in TableIds
  BY MachineFacts, LenProperties DEF Starts
<1>2. q.count \in Nat /\ r.end = "go" => r.at = Len(r.st)
  BY MachineFacts DEF Onward
<1>3. CASE op \notin Counting
  <2>1. Counted(op) = 0 /\ Above(q.st, m.st, n) /\ (n = 0 => At(q) \in TableIds)
    BY <1>1, <1>3 DEF Counted, Carried
  <2>2. r.end # "error" => Above(r.st, m.st, n + 1)
    BY <1>1, <2>1, OnwardCounts
  <2> QED BY <1>3, <2>2 DEF Carried
<1>4. CASE op \in Counting
  <2>1. Counted(op) = 1 /\ Above(q.st, m.st, q.count)
    BY <1>4 DEF Counted, Carried
  <2>2. q.count = 0 => At(q) \in TableIds
    <3>1. SUFFICES ASSUME q.count = 0 PROVE At(q) \in TableIds
      OBVIOUS
    <3>2. q.at = m.at
      BY <1>4, <3>1 DEF Carried
    <3>3. m.at \in 1 .. Len(m.st)
      BY DEF Starts
    <3>4. q.st[m.at] = m.st[m.at]
      BY <2>1, <3>3 DEF Above
    <3> QED BY <1>1, <3>2, <3>4 DEF At
  <2>3. r.end # "error" =>
           \/ Above(r.st, m.st, q.count + 1) /\ r.count = q.count + 1
           \/ /\ Above(r.st, m.st, q.count) /\ r.count = q.count
              /\ r.end = "go" => q.count # 0
    BY <1>1, <1>2, <2>1, <2>2, MachineFacts, OnwardCounts
  <2>4. r.end # "error" => Above(r.st, m.st, r.count)
    BY <2>3
  <2>5. r.end = "go" => r.count # 0
    BY <1>2, <2>3, MachineFacts
  <2>6. r.end = "go" => r.at = Len(r.st)
    BY DEF Onward
  <2> QED BY <1>4, <2>4, <2>5, <2>6 DEF Carried
<1> QED BY <1>3, <1>4

LEMMA DeepCarries ==
    ASSUME NEW op \in PathOperations, NEW m, Starts(m), NEW path \in Seq(Keys), NEW mode,
           NEW n \in 0 .. Len(path)
    PROVE  /\ Carried(op, m, deep(op, m, path, mode)[n], n)
           /\ deep(op, m, path, mode)[n] \in Machines
           /\ n = 0 => deep(op, m, path, mode)[n] = m
<1> DEFINE d == deep(op, m, path, mode)
           N == Len(path)
           S == {i \in Nat : Carried(op, m, d[i], i)}
<1>1. N \in Nat /\ \A i \in 1 .. N : path[i] \in Keys
  BY LenProperties
<1>2. m \in Machines /\ m.st \in Seq(Slots) /\ m.end = "go" /\ m.count = 0
  BY MachineFacts DEF Starts
<1>3. /\ d \in [0 .. N -> Machines] /\ d[0] = m
      /\ \A i \in 1 .. N : d[i] = along(op, d[i - 1], path[i], mode)
  BY <1>2, DeepFacts
<1> HIDE DEF d, N
<1>4. 0 \in S
  BY <1>2, <1>3, AboveSelf DEF Carried
<1>5. ASSUME NEW i \in Nat, i < N, i \in S PROVE i + 1 \in S
  <2> DEFINE q == d[i]
             r == d[i + 1]
  <2>1. i + 1 \in 1 .. N /\ (i + 1) - 1 = i /\ i \in 0 .. N /\ i + 1 \in 0 .. N
    BY <1>1, <1>5
  <2>2. q \in Machines /\ r \in Machines /\ Carried(op, m, q, i)
    BY <1>3, <1>5, <2>1
  <2>3. r = along(op, q, path[i + 1], mode) /\ path[i + 1] \in Keys
    BY <1>1, <1>3, <2>1
  <2>4. i = 0 => q = m
    BY <1>3
  <2> HIDE DEF q, r
  <2>5. /\ q.end # "go" => r = q
        /\ q.end = "go" => Onward(q, r, Counted(op))
        /\ (q.end = "go" /\ op \notin Counting) => r.end # "none"
    BY <2>2, <2>3, AlongFacts
  <2>6. CASE q.end = "go"
    BY <1>5, <2>2, <2>4, <2>5, <2>6, OnwardCarries DEF r
  <2>7. CASE q.end # "go"
    <3>1. op \notin Counting => q.end = "error"
      BY <2>2, <2>7, MachineFacts DEF Carried
    <3>2. Carried(op, m, r, i + 1)
      BY <2>2, <2>5, <2>7, <3>1 DEF Carried
    <3> QED BY <3>2 DEF r
  <2> QED BY <2>6, <2>7
<1>6. \A i \in Nat : i < N /\ i \in S => i + 1 \in S
  BY <1>5
<1> HIDE DEF S
<1>7. \A i \in Nat : i <= N => i \in S
  BY <1>1, <1>4, <1>6, StepByStep
<1>8. n \in Nat /\ n <= N /\ n \in 0 .. N
  BY <1>1 DEF N
<1>9. n \in S
  BY <1>7, <1>8
<1> QED BY <1>3, <1>8, <1>9 DEF S, d

LEMMA PathFacts ==
    ASSUME NEW path \in Seq(Keys), path # <<>>
    PROVE  /\ Len(path) \in Nat /\ Len(path) >= 1
           /\ Len(path) - 1 \in Nat /\ (Len(path) - 1) + 1 = Len(path)
           /\ Len(path) - 1 \in 0 .. Len(path) /\ Len(path) \in 0 .. Len(path)
           /\ Last(path) \in Keys /\ Last(path) = path[Len(path)]
<1>1. Len(path) \in Nat \ {0} /\ \A i \in 1 .. Len(path) : path[i] \in Keys
  BY EmptySeq, LenProperties
<1> QED BY <1>1 DEF Last

LEMMA TraverseGetFacts ==
    ASSUME NEW m \in Machines, NEW path \in Seq(Keys), path # <<>>, NEW type, NEW mode
    PROVE  LET r == traverse_get(m, path, type, mode)
           IN  /\ r.st \in Seq(Slots) /\ r.heap \in Heaps
               /\ Starts(m) /\ r.end # "error" => r.st = m.st
<1> DEFINE N == Len(path)
           q == deep("get", m, path, mode)[N - 1]
           final == get_deep(q, Last(path), type, mode)
           r == traverse_get(m, path, type, mode)
<1>1. /\ N \in Nat /\ N - 1 \in Nat /\ (N - 1) + 1 = N /\ N - 1 \in 0 .. N
      /\ Last(path) \in Keys /\ "get" \in PathOperations /\ "get" \notin Counting
  BY PathFacts DEF PathOperations, Counting
<1>2. q \in Machines
  <2>1. deep("get", m, path, mode) \in [0 .. N -> Machines]
    BY <1>1, DeepFacts
  <2> QED BY <1>1, <2>1
<1>3. Starts(m) => Carried("get", m, q, N - 1) /\ (N - 1 = 0 => q = m)
  BY <1>1, DeepCarries
<1>4. r = [final EXCEPT !.st = IF final.end = "error" THEN final.st ELSE Cut(final.st, N),
                       !.end = IF final.end = "error" THEN final.end ELSE Top(final)]
  BY DEF traverse_get
<1> HIDE DEF q
<1>5. /\ final \in Machines
      /\ q.end # "go" => final = q
      /\ q.end = "go" => final.end # "none" /\ Onward(q, final, 0)
  BY <1>1, <1>2, GetDeepFacts
<1> HIDE DEF final, r, N
<1>6. Starts(m) => Carried("get", m, final, N)
  <2>1. SUFFICES ASSUME Starts(m) PROVE Carried("get", m, final, N)
    OBVIOUS
  <2>2. CASE q.end = "go"
    <3>1. Counted("get") = 0
      BY DEF Counted, Counting
    <3>2. Carried("get", m, final, (N - 1) + 1)
      BY <1>1, <1>2, <1>3, <1>5, <2>1, <2>2, <3>1, OnwardCarries
    <3> QED BY <1>1, <3>2
  <2>3. CASE q.end # "go"
    BY <1>1, <1>2, <1>3, <1>5, <2>1, <2>3, MachineFacts DEF Carried
  <2> QED BY <2>2, <2>3
<1>7. final.st \in Seq(Slots) /\ final.heap \in Heaps /\ Cut(final.st, N) \in Seq(Slots)
  BY <1>1, <1>5, MachineFacts, CutFacts
<1>8. /\ r.st = (IF final.end = "error" THEN final.st ELSE Cut(final.st, N))
      /\ r.heap = final.heap
      /\ r.end = (IF final.end = "error" THEN final.end ELSE Top(final))
  BY <1>4, <1>5 DEF Machines
<1>9. Starts(m) /\ r.end # "error" => r.st = m.st
  <2>1. SUFFICES ASSUME Starts(m), r.end # "error" PROVE r.st = m.st
    OBVIOUS
  <2>2. final.end # "error"
    BY <1>8, <2>1
  <2>3. Above(final.st, m.st, N) /\ m.st \in Seq(Slots)
    BY <1>1, <1>6, <2>1, <2>2, MachineFacts DEF Carried
  <2> QED BY <1>1, <1>8, <2>2, <2>3, CutAbove
<1> QED BY <1>7, <1>8, <1>9 DEF r

LEMMA TraverseOptionalFacts ==
    ASSUME NEW m \in Machines, NEW path \in Seq(Keys), path # <<>>, NEW type, NEW mode
    PROVE  LET r == traverse_get_optional(m, path, type, mode)
           IN  /\ r.st \in Seq(Slots) /\ r.heap \in Heaps
               /\ Starts(m) /\ r.end # "error" => r.st = m.st
<1> DEFINE N == Len(path)
           q == deep("optional", m, path, mode)[N - 1]
           final == get_deep_optional(q, Last(path), type, mode)
           r == traverse_get_optional(m, path, type, mode)
           e == CASE final.end = "go" /\ Fits(Top(final), type) -> Top(final)
                  [] final.end = "error" -> final.end
                  [] OTHER -> LuaNil
<1>1. /\ N \in Nat /\ N - 1 \in Nat /\ (N - 1) + 1 = N /\ N - 1 \in 0 .. N
      /\ Last(path) \in Keys /\ "optional" \in PathOperations /\ "optional" \in Counting
  BY PathFacts DEF PathOperations, Counting
<1>2. q \in Machines
  <2>1. deep("optional", m, path, mode) \in [0 .. N -> Machines]
    BY <1>1, DeepFacts
  <2> QED BY <1>1, <2>1
<1>3. Starts(m) => Carried("optional", m, q, N - 1) /\ (N - 1 = 0 => q = m)
  BY <1>1, DeepCarries
<1>4. r = [final EXCEPT !.st = IF final.end = "error" THEN final.st ELSE Cut(final.st, final.count),
                       !.end = e]
  BY DEF traverse_get_optional
<1>e. final.end = "error" => e = "error"
  OBVIOUS
<1> HIDE DEF q, e
<1>5. /\ final \in Machines
      /\ q.end # "go" => final = q
      /\ q.end = "go" => Onward(q, final, 1)
  BY <1>1, <1>2, OptionalFacts
<1> HIDE DEF final, r, N
<1>6. Starts(m) => Carried("optional", m, final, N)
  <2>1. SUFFICES ASSUME Starts(m) PROVE Carried("optional", m, final, N)
    OBVIOUS
  <2>2. CASE q.end = "go"
    <3>1. Counted("optional") = 1
      BY DEF Counted, Counting
    <3>2. Carried("optional", m, final, (N - 1) + 1)
      BY <1>1, <1>2, <1>3, <1>5, <2>1, <2>2, <3>1, OnwardCarries
    <3> QED BY <1>1, <3>2
  <2>3. CASE q.end # "go"
    BY <1>1, <1>2, <1>3, <1>5, <2>1, <2>3, MachineFacts DEF Carried
  <2> QED BY <2>2, <2>3
<1>7. /\ final.st \in Seq(Slots) /\ final.heap \in Heaps /\ final.count \in Nat
      /\ Cut(final.st, final.count) \in Seq(Slots)
  BY <1>5, MachineFacts, CutFacts
<1>8. /\ r.st = (IF final.end = "error" THEN final.st ELSE Cut(final.st, final.count))
      /\ r.heap = final.heap /\ r.end = e
  BY <1>4, <1>5 DEF Machines
<1>9. Starts(m) /\ r.end # "error" => r.st = m.st
  <2>1. SUFFICES ASSUME Starts(m), r.end # "error" PROVE r.st = m.st
    OBVIOUS
  <2>2. final.end # "error"
    BY <1>8, <2>1, <1>e
  <2>3. Above(final.st, m.st, final.count) /\ m.st \in Seq(Slots)
    BY <1>1, <1>6, <2>1, <2>2, MachineFacts DEF Carried
  <2> QED BY <1>7, <1>8, <2>2, <2>3, CutAbove
<1> QED BY <1>7, <1>8, <1>9 DEF r

LEMMA SetLastFacts ==
    ASSUME NEW m \in Machines, NEW k \in Keys, NEW v \in FieldValues, NEW mode
    PROVE  LET r == set_last(m, k, v, mode)
           IN  /\ r \in Machines /\ r.st = m.st
               /\ m.end # "go" => r.end # "go"
               /\ (m.end = "go" /\ At(m) \notin TableIds) => r.end = "error"
               /\ (m.end = "go" /\ At(m) \in TableIds) =>
                     /\ r.end = "go"
                     /\ r.heap = IF mode = "update_if_empty" /\ Found(m, k) # LuaNil
                                 THEN m.heap ELSE [m.heap EXCEPT ![At(m)][k] = v]
<1> DEFINE p == probe(m, k)
           n == set_field(m, k, v)
<1>1. /\ At(m) \notin TableIds => p.end = "none"
      /\ At(m) \in TableIds => p.end = (IF Found(m, k) = LuaNil THEN "none" ELSE m.end)
  BY ProbeFacts
<1>2. /\ n \in Machines /\ n.st = m.st
      /\ (m.end = "error" \/ At(m) \notin TableIds) => n.end = "error"
      /\ ~(m.end = "error" \/ At(m) \notin TableIds) =>
            n.end = m.end /\ n.heap = [m.heap EXCEPT ![At(m)][k] = v]
  BY SetFacts
<1>3. set_last(m, k, v, mode) = IF mode = "update_if_empty" /\ p.end = "go" THEN m ELSE n
  BY DEF set_last
<1> HIDE DEF p, n
<1>4. CASE mode = "update_if_empty" /\ p.end = "go"
  BY <1>1, <1>3, <1>4
<1>5. CASE ~(mode = "update_if_empty" /\ p.end = "go")
  BY <1>1, <1>2, <1>3, <1>5
<1> QED BY <1>4, <1>5

LEMMA TraverseSetFacts ==
    ASSUME NEW m \in Machines, NEW path \in Seq(Keys), path # <<>>, NEW v \in FieldValues, NEW mode
    PROVE  LET r == traverse_set(m, path, v, mode)
               q == deep("set", m, path, mode)[Len(path) - 1]
               final == IF q.end = "error" THEN q ELSE set_last(q, Last(path), v, mode)
           IN  /\ r.st \in Seq(Slots) /\ r.heap \in Heaps
               /\ r.heap = final.heap /\ r.end = final.end /\ q \in Machines
               /\ Starts(m) /\ r.end # "error" => r.st = m.st
<1> DEFINE N == Len(path)
           q == deep("set", m, path, mode)[N - 1]
           w == set_last(q, Last(path), v, mode)
           final == IF q.end = "error" THEN q ELSE w
           r == traverse_set(m, path, v, mode)
<1>1. /\ N \in Nat /\ N - 1 \in Nat /\ N - 1 \in 0 .. N
      /\ Last(path) \in Keys /\ "set" \in PathOperations /\ "set" \notin Counting
  BY PathFacts DEF PathOperations, Counting
<1>2. q \in Machines
  <2>1. deep("set", m, path, mode) \in [0 .. N -> Machines]
    BY <1>1, DeepFacts
  <2> QED BY <1>1, <2>1
<1>3. Starts(m) => Carried("set", m, q, N - 1)
  BY <1>1, DeepCarries
<1>4. r = [final EXCEPT !.st = IF final.end = "error" THEN final.st ELSE Cut(final.st, N - 1)]
  BY DEF traverse_set
<1> HIDE DEF q
<1>5. w \in Machines /\ w.st = q.st
  BY <1>1, <1>2, SetLastFacts
<1> HIDE DEF w
<1>6. final \in Machines /\ final.st = q.st /\ (q.end = "error" => final.end = "error")
  BY <1>2, <1>5
<1>7. (q.end = "error" => final = q) /\ (q.end # "error" => final = w)
  OBVIOUS
<1> HIDE DEF final, r, N
<1>8. final.st \in Seq(Slots) /\ final.heap \in Heaps /\ Cut(final.st, N - 1) \in Seq(Slots)
  BY <1>1, <1>6, MachineFacts, CutFacts
<1>9. /\ r.st = (IF final.end = "error" THEN final.st ELSE Cut(final.st, N - 1))
      /\ r.heap = final.heap /\ r.end = final.end
  BY <1>4, <1>6 DEF Machines
<1>10. Starts(m) /\ r.end # "error" => r.st = m.st
  <2>1. SUFFICES ASSUME Starts(m), r.end # "error" PROVE r.st = m.st
    OBVIOUS
  <2>2. final.end # "error" /\ q.end # "error"
    BY <1>6, <1>9, <2>1
  <2>3. Above(final.st, m.st, N - 1) /\ m.st \in Seq(Slots)
    BY <1>1, <1>3, <1>6, <2>1, <2>2, MachineFacts DEF Carried, Starts
  <2> QED BY <1>1, <1>9, <2>2, <2>3, CutAbove
<1> QED BY <1>2, <1>8, <1>9, <1>10 DEF r, final, q, w, N

LEMMA CutManyAbove ==
    ASSUME NEW base \in Seq(Slots), NEW n \in Nat, NEW k \in Nat, NEW st, Above(st, base, n + k)
    PROVE  Above(Cut(st, k), base, n)
<1>1. /\ st \in Seq(Slots) /\ Len(base) \in Nat /\ Len(st) = Len(base) + (n + k)
      /\ \A i \in 1 .. Len(base) : st[i] = base[i]
  BY LenProperties DEF Above
<1>2. k <= Len(st) /\ Len(st) - k = Len(base) + n
  BY <1>1
<1>3. /\ Cut(st, k) \in Seq(Slots) /\ Len(Cut(st, k)) = Len(base) + n
      /\ \A i \in 1 .. Len(base) + n : Cut(st, k)[i] = st[i]
  BY <1>1, <1>2, CutFacts
<1>4. \A i \in 1 .. Len(base) : i \in 1 .. Len(base) + n
  BY <1>1
<1> QED BY <1>1, <1>3, <1>4 DEF Above

\* The value of the tuple comes in the place of the table on the top.
LEMMA ProxyFacts ==
    ASSUME NEW m, Starts(m), m.at = Len(m.st), NEW path \in Seq(Keys), path # <<>>
    PROVE  LET all == deep("tuple", m, path, "none")[Len(path)]
               p == proxy_push(m, path)
           IN  /\ p.end # "error" <=> all.end # "error"
               /\ all.end # "error" => /\ all.end = "go"
                                       /\ p.st = Append(Cut(m.st, 1), Top(all))
                                       /\ p.st \in Seq(Slots)
                                       /\ Top(all) \in Slots
<1> DEFINE N == Len(path)
           all == deep("tuple", m, path, "none")[N]
           p == proxy_push(m, path)
           v == Top(all)
           c == Pop(all, N - 1)
           n == Push(c, v)
           one == 1
<1>1. /\ N \in Nat /\ N - 1 \in Nat /\ N \in 0 .. N /\ N = one + (N - 1) /\ one \in Nat
      /\ "tuple" \in PathOperations /\ "tuple" \notin Counting
  BY PathFacts DEF PathOperations, Counting
<1>2. Carried("tuple", m, all, N) /\ all \in Machines
  BY <1>1, DeepCarries
<1>3. m \in Machines /\ m.st \in Seq(Slots) /\ Len(m.st) \in Nat /\ Len(m.st) >= 1
  BY MachineFacts, LenProperties DEF Starts
<1>4. all.end # "none"
  BY <1>1, <1>2 DEF Carried
<1>5. get_tuple(m, path) = IF all.end # "go" THEN all ELSE n
  BY DEF get_tuple
<1> HIDE DEF all, N, one
<1>6. CASE all.end # "go"
  <2>1. all.end = "error" /\ p = all
    BY <1>2, <1>4, <1>5, <1>6, MachineFacts DEF proxy_push
  <2> QED BY <2>1 DEF all, N
<1>7. CASE all.end = "go"
  <2>1. Above(all.st, m.st, one + (N - 1))
    BY <1>1, <1>2, <1>7 DEF Carried
  <2>2. v \in Slots
    <3>1. all.st \in Seq(Slots) /\ Len(all.st) = Len(m.st) + (one + (N - 1))
      BY <2>1 DEF Above
    <3>2. Len(all.st) \in Nat /\ Len(all.st) >= 1
      BY <1>1, <1>3, <3>1 DEF one
    <3>3. Len(all.st) \in 1 .. Len(all.st)
      BY <3>2
    <3> QED BY <3>1, <3>3, ElementOfSeq DEF Top, Last
  <2> HIDE DEF v
  <2>3. c \in Machines /\ c.st = Cut(all.st, N - 1) /\ c.end = "go"
    BY <1>1, <1>2, <1>7, PopFacts
  <2>4. Above(c.st, m.st, one)
    BY <1>1, <1>3, <2>1, <2>3, CutManyAbove
  <2> HIDE DEF c
  <2>5. n \in Machines /\ n.st = Append(c.st, v) /\ Top(n) = v /\ n.end = "go"
    BY <2>2, <2>3, PushFacts
  <2> HIDE DEF n
  <2> DEFINE L == Len(m.st)
             x == Cut(n.st, 1)
             y == [x EXCEPT ![m.at] = v]
             z == SubSeq(y, 1, m.at + 1)
  <2>6. x = c.st
    BY <2>2, <2>3, <2>5, MachineFacts, CutAppend
  <2>7. /\ x \in Seq(Slots) /\ Len(x) = L + 1 /\ L \in Nat /\ L >= 1
        /\ \A i \in 1 .. L : x[i] = m.st[i]
    BY <1>3, <2>4, <2>6 DEF Above, one
  <2>8. get_tuple(m, path) = n
    BY <1>5, <1>7
  <2>9. p = [n EXCEPT !.st = Cut(z, 1)]
    BY <2>5, <2>8 DEF proxy_push
  <2> HIDE DEF x, L
  <2>10. m.at = L /\ L \in 1 .. Len(x)
    BY <2>7 DEF L
  <2>11. /\ y \in Seq(Slots) /\ Len(y) = L + 1
         /\ \A i \in 1 .. L + 1 : y[i] = IF i = L THEN v ELSE x[i]
    BY <2>2, <2>7, <2>10, ExceptSeq
  <2> HIDE DEF y
  <2>12. z \in Seq(Slots) /\ Len(z) = L + 1 /\ \A i \in 1 .. L + 1 : z[i] = y[i]
    <3>1. \A i \in 1 .. L + 1 : y[i] \in Slots
      BY <2>11, ElementOfSeq
    <3>2. L + 1 \in Int /\ 1 \in Int /\ 1 <= L + 1 /\ L + 1 - 1 + 1 = L + 1
      BY <2>7
    <3>3. /\ SubSeq(y, 1, L + 1) \in Seq(Slots)
          /\ Len(SubSeq(y, 1, L + 1)) = IF 1 <= L + 1 THEN L + 1 - 1 + 1 ELSE 0
          /\ \A i \in 1 .. L + 1 - 1 + 1 : SubSeq(y, 1, L + 1)[i] = y[1 + i - 1]
      BY <3>1, <3>2, SubSeqProperties
    <3>4. \A i \in 1 .. L + 1 : 1 + i - 1 = i
      BY <2>7
    <3> QED BY <2>10, <3>2, <3>3, <3>4
  <2> HIDE DEF z
  <2> DEFINE a == Cut(z, one)
             b == Cut(m.st, one)
  <2>13. /\ a \in Seq(Slots) /\ Len(a) = L /\ \A i \in 1 .. L : a[i] = z[i]
    <3>1. one \in Nat /\ one <= Len(z) /\ Len(z) - one = L
      BY <2>7, <2>12 DEF one
    <3>2. /\ a \in Seq(Slots) /\ Len(a) = Len(z) - one
          /\ \A i \in 1 .. Len(z) - one : a[i] = z[i]
      BY <2>12, <3>1, CutFacts
    <3> HIDE DEF a
    <3> QED BY <3>1, <3>2
  <2>14. /\ b \in Seq(Slots) /\ Len(b) = L - 1 /\ \A i \in 1 .. L - 1 : b[i] = m.st[i]
    <3>1. one \in Nat /\ one <= Len(m.st) /\ Len(m.st) - one = L - 1
      BY <2>7 DEF one, L
    <3>2. /\ b \in Seq(Slots) /\ Len(b) = Len(m.st) - one
          /\ \A i \in 1 .. Len(m.st) - one : b[i] = m.st[i]
      BY <1>1, <1>3, <3>1, CutFacts
    <3> HIDE DEF b
    <3> QED BY <3>1, <3>2
  <2> HIDE DEF a, b
  <2>15. /\ Append(b, v) \in Seq(Slots) /\ Len(Append(b, v)) = L
         /\ \A i \in 1 .. L - 1 : Append(b, v)[i] = b[i]
         /\ Append(b, v)[L] = v
    <3>1. /\ Append(b, v) \in Seq(Slots) /\ Len(Append(b, v)) = Len(b) + 1
          /\ \A i \in 1 .. Len(b) : Append(b, v)[i] = b[i] /\ Append(b, v)[Len(b) + 1] = v
      BY <2>2, <2>14, AppendProperties
    <3>2. Len(b) = L - 1 /\ Len(b) + 1 = L
      BY <2>7, <2>14
    <3>3. Append(b, v)[Len(b) + 1] = v
      BY <2>2, <2>14, AppendProperties
    <3>4. \A i \in 1 .. Len(b) : Append(b, v)[i] = b[i]
      BY <2>2, <2>14, AppendProperties
    <3> QED BY <3>1, <3>2, <3>3, <3>4
  <2>16. \A i \in 1 .. L : a[i] = Append(b, v)[i]
    <3>1. SUFFICES ASSUME NEW i \in 1 .. L PROVE a[i] = Append(b, v)[i]
      OBVIOUS
    <3>2. i \in 1 .. L + 1 /\ a[i] = z[i] /\ z[i] = y[i]
      BY <2>7, <2>12, <2>13
    <3>3. CASE i = L
      BY <2>11, <2>15, <3>2, <3>3
    <3>4. CASE i # L
      <4>1. i \in 1 .. L - 1
        BY <2>7, <3>4
      <4>2. y[i] = x[i] /\ x[i] = m.st[i]
        BY <2>7, <2>11, <3>2, <3>4
      <4>3. Append(b, v)[i] = b[i] /\ b[i] = m.st[i]
        BY <2>14, <2>15, <4>1
      <4> QED BY <3>2, <4>2, <4>3
    <3> QED BY <3>3, <3>4
  <2>17. a = Append(b, v)
    BY <2>13, <2>15, <2>16, SeqEqual
  <2>18. p.st = a /\ p.end = "go"
    BY <2>5, <2>9 DEF Machines, a, one
  <2> QED BY <1>7, <2>2, <2>13, <2>17, <2>18 DEF all, N, b, one, v
<1> QED BY <1>6, <1>7


LEMMA DescendsToItself ==
    ASSUME NEW m \in Machines, m.at = Len(m.st)
    PROVE  Descend(m) = m
BY DEF Descend, Machines

\* The probe of a tuple raises no error, and pops all it counted.
LEMMA ValidFacts ==
    ASSUME NEW m, Starts(m), m.at = Len(m.st), NEW path \in Seq(Keys), path # <<>>
    PROVE  LET all == deep("valid", m, path, "none")[Len(path)]
               q == valid(m, path)
           IN  q.st = m.st /\ q.end = IF all.end = "go" THEN "yes" ELSE "no"
<1> DEFINE N == Len(path)
           d == deep("valid", m, path, "none")
           all == d[N]
           q == valid(m, path)
           S == {i \in Nat : d[i].end # "error"}
<1>1. N \in Nat /\ N \in 0 .. N /\ "valid" \in PathOperations /\ "valid" \in Counting
  BY PathFacts DEF PathOperations, Counting
<1>2. m \in Machines /\ m.st \in Seq(Slots) /\ m.end = "go"
  BY MachineFacts DEF Starts
<1>3. /\ d \in [0 .. N -> Machines] /\ d[0] = m
      /\ \A i \in 1 .. N : d[i] = along("valid", d[i - 1], path[i], "none")
  BY <1>1, <1>2, DeepFacts
<1>4. Carried("valid", m, all, N) /\ all \in Machines
  BY <1>1, DeepCarries
<1>5. q = [Pop(all, all.count) EXCEPT !.end = IF all.end = "go" THEN "yes" ELSE "no"]
  BY <1>2, DescendsToItself DEF valid
<1> HIDE DEF d, N
<1>6. all.end # "error"
  <2>1. 0 \in S
    BY <1>2, <1>3
  <2>2. \A i \in Nat : i < N /\ i \in S => i + 1 \in S
    <3>1. SUFFICES ASSUME NEW i \in Nat, i < N, d[i].end # "error"
                   PROVE  d[i + 1].end # "error"
      OBVIOUS
    <3> DEFINE x == d[i]
               k == path[i + 1]
               p == probe(x, k)
    <3>2. i + 1 \in 1 .. N /\ (i + 1) - 1 = i /\ i \in 0 .. N
      BY <1>1, <3>1
    <3>3. x \in Machines /\ k \in Keys
      BY <1>3, <3>2, ElementOfSeq DEF N
    <3>4. d[i + 1] = IF x.end = "go" THEN Descend(p) ELSE x
      BY <1>3, <3>2 DEF along
    <3> HIDE DEF x, k
    <3>5. p \in Machines /\ p.end \in {"none", x.end}
      BY <3>3, ProbeFacts
    <3> HIDE DEF p
    <3>6. Descend(p).end = p.end
      BY <3>5, DescendFacts
    <3> QED BY <3>1, <3>4, <3>5, <3>6 DEF x
  <2> HIDE DEF S
  <2>3. \A i \in Nat : i <= N => i \in S
    BY <1>1, <2>1, <2>2, StepByStep
  <2> QED BY <1>1, <2>3 DEF S
<1> HIDE DEF all
<1>7. Above(all.st, m.st, all.count) /\ all.count \in Nat
  BY <1>1, <1>4, <1>6, MachineFacts DEF Carried
<1>8. Cut(all.st, all.count) = m.st
  BY <1>2, <1>7, CutAbove
<1>9. Pop(all, all.count) \in Machines /\ Pop(all, all.count).st = m.st
  BY <1>4, <1>7, <1>8, PopFacts
<1> DEFINE e == IF all.end = "go" THEN "yes" ELSE "no"
           o == Pop(all, all.count)
<1>10. q = [o EXCEPT !.end = e] /\ o \in Machines /\ o.st = m.st
  BY <1>5, <1>9
<1> HIDE DEF q, e, o
<1>11. q.st = m.st /\ q.end = e
  BY <1>10 DEF Machines
<1> QED BY <1>11 DEF q, e, all, d, N

\* Where what lies on the top is no table, nothing is pushed and counted.
LEMMA ValidNowhere ==
    ASSUME NEW m \in Machines, m.end = "go", m.count = 0, At(Descend(m)) \notin TableIds,
           NEW path \in Seq(Keys), path # <<>>
    PROVE  valid(m, path).st = m.st
<1> DEFINE N == Len(path)
           c == Descend(m)
           d == deep("valid", c, path, "none")
           Fine(i) == d[i].st = c.st /\ d[i].count = 0 /\ (i # 0 => d[i].end = "none")
           T == {i \in Nat : i <= N => Fine(i)}
<1>1. N \in Nat /\ N \in 0 .. N /\ N >= 1 /\ "valid" \in PathOperations
  BY PathFacts DEF PathOperations
<1>2. c \in Machines /\ c.st = m.st /\ c.at = Len(m.st) /\ c.count = 0 /\ c.end = "go"
  BY DescendFacts
<1>3. At(c) \notin TableIds
  OBVIOUS
<1>4. valid(m, path) = [Pop(d[N], d[N].count) EXCEPT !.end = IF d[N].end = "go" THEN "yes" ELSE "no"]
  BY DEF valid
<1> HIDE DEF c
<1>5. /\ d \in [0 .. N -> Machines] /\ d[0] = c
      /\ \A i \in 1 .. N : d[i] = along("valid", d[i - 1], path[i], "none")
  BY <1>1, <1>2, DeepFacts
<1>6. \A i \in 1 .. N : path[i] \in Keys
  BY ElementOfSeq
<1> HIDE DEF d, N
<1>7. 0 \in T
  BY <1>2, <1>5
<1>8. ASSUME NEW i \in Nat, i < N, i \in T PROVE i + 1 \in T
  <2>1. i + 1 \in 1 .. N /\ (i + 1) - 1 = i /\ i \in 0 .. N /\ i <= N /\ i + 1 \in Nat
    BY <1>1, <1>8
  <2> DEFINE x == d[i]
             k == path[i + 1]
             p == probe(x, k)
  <2>2. x \in Machines /\ k \in Keys
    BY <1>5, <1>6, <2>1
  <2>3. d[i + 1] = IF x.end = "go" THEN Descend(p) ELSE x
    BY <1>5, <2>1 DEF along
  <2>4. Fine(i)
    BY <1>8, <2>1
  <2>5. CASE i = 0
    <3>1. x = c
      BY <1>5, <2>5
    <3> HIDE DEF x, k
    <3>2. p \in Machines /\ p.end = "none" /\ p.st = c.st /\ p.count = c.count
      BY <1>3, <2>2, <3>1, ProbeFacts
    <3> HIDE DEF p
    <3>3. Descend(p).st = p.st /\ Descend(p).count = p.count /\ Descend(p).end = p.end
      BY <3>2, DescendFacts
    <3>4. d[i + 1] = Descend(p)
      BY <1>2, <2>3, <3>1
    <3> QED BY <1>2, <2>1, <3>2, <3>3, <3>4
  <2>6. CASE i # 0
    <3>1. x.end = "none" /\ x.st = c.st /\ x.count = 0
      BY <2>4, <2>6
    <3> HIDE DEF x, k, p
    <3>2. d[i + 1] = x
      BY <2>3, <3>1
    <3> QED BY <2>1, <3>1, <3>2
  <2> QED BY <2>5, <2>6
<1> HIDE DEF T
<1>9. \A i \in Nat : i < N /\ i \in T => i + 1 \in T
  BY <1>8
<1>10. \A i \in Nat : i <= N => i \in T
  BY <1>1, <1>7, <1>9, StepByStep
<1>11. Fine(N)
  BY <1>1, <1>10 DEF T
<1> DEFINE z == 0
           o == Pop(d[N], z)
           e == IF d[N].end = "go" THEN "yes" ELSE "no"
<1>12. z \in Nat /\ d[N] \in Machines /\ c.st \in Seq(Slots) /\ d[N].st = c.st
  BY <1>1, <1>2, <1>5, <1>11, MachineFacts
<1>13. valid(m, path) = [o EXCEPT !.end = e]
  BY <1>4, <1>11
<1>14. Cut(c.st, z) = c.st
  <2>1. Len(c.st) \in Nat /\ Above(c.st, c.st, z)
    BY <1>12, LenProperties DEF Above
  <2> HIDE DEF z
  <2> QED BY <1>12, <2>1, CutAbove
<1> HIDE DEF z
<1>15. o \in Machines /\ o.st = c.st
  <2> DEFINE x == d[N]
  <2>1. x \in Machines /\ x.st = c.st /\ o = Pop(x, z) /\ z \in Nat
    BY <1>12
  <2> HIDE DEF x, o, d, c
  <2>2. Pop(x, z) \in Machines /\ Pop(x, z).st = Cut(x.st, z)
    BY <2>1, PopFacts
  <2> QED BY <1>14, <2>1, <2>2
<1> HIDE DEF o, e
<1>16. valid(m, path).st = o.st
  BY <1>13, <1>15 DEF Machines
<1> QED BY <1>2, <1>15, <1>16

\* valid() leaves the stack as it was, whatever lies on the top.
LEMMA ValidStands ==
    ASSUME NEW m, Starts(m), NEW path \in Seq(Keys), path # <<>>
    PROVE  valid(m, path).st = m.st
<1> DEFINE c == Descend(m)
<1>1. /\ m \in Machines /\ m.end = "go" /\ m.count = 0
      /\ m.st \in Seq(Slots) /\ m.at \in 1 .. Len(m.st) /\ Len(m.st) \in Nat
  BY MachineFacts, LenProperties DEF Starts
<1>2. c \in Machines /\ c.st = m.st /\ c.at = Len(c.st) /\ c.count = 0 /\ c.end = "go"
  BY <1>1, DescendFacts
<1>3. CASE At(c) \notin TableIds
  BY <1>1, <1>3, ValidNowhere
<1>4. CASE At(c) \in TableIds
  <2>1. Descend(c) = c
    BY <1>2, DescendsToItself
  <2>2. valid(m, path) = valid(c, path)
    BY <2>1 DEF valid
  <2> HIDE DEF c
  <2>3. c.at \in 1 .. Len(c.st)
    BY <1>1, <1>2
  <2>4. Starts(c)
    BY <1>2, <1>4, <2>3 DEF Starts
  <2>5. valid(c, path).st = c.st
    BY <1>2, <2>4, ValidFacts
  <2> QED BY <1>2, <2>2, <2>5
<1> QED BY <1>3, <1>4

\* Its machine is one in any case.
LEMMA ValidTyped ==
    ASSUME NEW m \in Machines, NEW path \in Seq(Keys), path # <<>>
    PROVE  valid(m, path).st \in Seq(Slots)
<1> DEFINE N == Len(path)
           c == Descend(m)
           d == deep("valid", c, path, "none")
           e == IF d[N].end = "go" THEN "yes" ELSE "no"
           o == Pop(d[N], d[N].count)
<1>1. N \in 0 .. N /\ "valid" \in PathOperations
  BY PathFacts DEF PathOperations
<1>2. c \in Machines
  BY DescendFacts
<1>3. valid(m, path) = [o EXCEPT !.end = e]
  BY DEF valid
<1> HIDE DEF c
<1>4. d \in [0 .. N -> Machines]
  BY <1>1, <1>2, DeepFacts
<1> HIDE DEF d, N
<1>5. d[N] \in Machines /\ d[N].count \in Nat
  BY <1>1, <1>4, MachineFacts
<1>6. o \in Machines
  BY <1>5, PopFacts
<1> HIDE DEF o, e
<1>7. valid(m, path).st = o.st /\ o.st \in Seq(Slots)
  BY <1>3, <1>6 DEF Machines
<1> QED BY <1>7

-----------------------------------------------------------------------------
(* The tables Lua keeps.                                                   *)

LEMMA GrownFacts ==
    ASSUME NEW h, NEW S \in SUBSET TableIds
    PROVE  LET g == Grown(h, S)
           IN  /\ Cardinality(TableIds) \in Nat
               /\ g \in [0 .. Cardinality(TableIds) -> SUBSET TableIds] /\ g[0] = S
               /\ \A n \in 1 .. Cardinality(TableIds) :
                     g[n] = g[n - 1] \cup Linked(h, g[n - 1])
<1> DEFINE N == Cardinality(TableIds)
           A == SUBSET TableIds
           next(x) == x \cup Linked(h, x)
           step == [p \in A \X Nat |-> next(p[1])]
           Body(s) == [n \in 0 .. N |-> IF n = 0 THEN S ELSE next(s[n - 1])]
           chosen == CHOOSE s : s = Body(s)
<1>1. N \in Nat
  BY TablesAssumption, FS_CardinalityType
<1>2. Grown(h, S) = chosen
  BY DEF Grown
<1>3. \A x \in A : next(x) \in A
  BY DEF Linked
<1>0. S \in A
  OBVIOUS
<1> HIDE DEF N, next, chosen, A
<1>4. step \in [A \X Nat -> A]
  BY <1>3
<1>5. \A x \in A : \A n \in 1 .. N : step[<<x, n>>] = next(x)
  BY <1>1
<1> HIDE DEF step
<1>6. PICK f \in [0 .. N -> A] : f[0] = S /\ \A n \in 1 .. N : f[n] = step[<<f[n - 1], n>>]
  <2>1. FirstValues(N, A, S, step) # {}
    BY <1>0, <1>1, <1>4, RecursionExists
  <2> QED BY <2>1 DEF FirstValues
<1>7. ASSUME NEW n \in 0 .. N
      PROVE  f[n] = IF n = 0 THEN S ELSE next(f[n - 1])
  <2>1. CASE n = 0
    BY <1>6, <2>1
  <2>2. CASE n # 0
    <3>1. n \in 1 .. N /\ n - 1 \in 0 .. N
      BY <1>1, <2>2
    <3>2. f[n - 1] \in A
      BY <3>1
    <3> QED BY <1>5, <1>6, <2>2, <3>1, <3>2
  <2> QED BY <2>1, <2>2
<1>8. f = Body(f)
  BY <1>7
<1>9. chosen = Body(chosen)
  BY <1>8 DEF chosen
<1>10. DOMAIN chosen = 0 .. N /\ \A n \in 0 .. N : chosen[n] = IF n = 0 THEN S ELSE next(chosen[n - 1])
  BY <1>9
<1>11. chosen[0] = S /\ \A n \in 1 .. N : chosen[n] = next(chosen[n - 1])
  <2>1. 0 \in 0 .. N /\ \A n \in 1 .. N : n \in 0 .. N /\ n # 0
    BY <1>1
  <2> QED BY <1>10, <2>1
<1>12. \A n \in Nat : n <= N => chosen[n] \in A
  <2> DEFINE T == {n \in Nat : chosen[n] \in A}
  <2>1. 0 \in T
    BY <1>0, <1>11
  <2>2. ASSUME NEW n \in Nat, n < N, n \in T PROVE n + 1 \in T
    <3>1. n + 1 \in 1 .. N /\ (n + 1) - 1 = n /\ n + 1 \in Nat
      BY <1>1, <2>2
    <3>2. chosen[n + 1] = next(chosen[n])
      BY <1>11, <3>1
    <3> QED BY <1>3, <2>2, <3>1, <3>2
  <2>3. \A n \in Nat : n < N /\ n \in T => n + 1 \in T
    BY <2>2
  <2> HIDE DEF T
  <2>4. \A n \in Nat : n <= N => n \in T
    BY <1>1, <2>1, <2>3, StepByStep
  <2> QED BY <2>4 DEF T
<1>13. chosen \in [0 .. N -> A]
  <2>1. \A n \in 0 .. N : chosen[n] \in A
    BY <1>1, <1>12
  <2> QED BY <1>9, <2>1
<1> QED BY <1>1, <1>2, <1>11, <1>13 DEF N, next, A

\* What is reached in fewer steps is reached.
LEMMA GrownWithin ==
    ASSUME NEW h, NEW S \in SUBSET TableIds, NEW n \in 0 .. Cardinality(TableIds)
    PROVE  /\ Grown(h, S)[n] \subseteq ReachableFrom(h, S)
           /\ ReachableFrom(h, S) \subseteq TableIds
<1> DEFINE N == Cardinality(TableIds)
           g == Grown(h, S)
           T == {i \in Nat : n + i <= N => g[n] \subseteq g[n + i]}
<1>1. /\ N \in Nat /\ g \in [0 .. N -> SUBSET TableIds]
      /\ \A i \in 1 .. N : g[i] = g[i - 1] \cup Linked(h, g[i - 1])
  BY GrownFacts
<1>2. ReachableFrom(h, S) = g[N]
  BY DEF ReachableFrom
<1> HIDE DEF g, N
<1>3. n \in 0 .. N /\ n \in Nat /\ N - n \in Nat /\ n + (N - n) = N /\ n + 0 = n
      /\ N \in 0 .. N
  BY <1>1 DEF N
<1>4. 0 \in T
  BY <1>3
<1>5. ASSUME NEW i \in Nat, i < N - n, i \in T PROVE i + 1 \in T
  <2>1. n + (i + 1) \in 1 .. N /\ (n + (i + 1)) - 1 = n + i /\ n + i <= N /\ i + 1 \in Nat
    BY <1>1, <1>3, <1>5
  <2>2. g[n + (i + 1)] = g[n + i] \cup Linked(h, g[n + i])
    BY <1>1, <2>1
  <2> QED BY <1>5, <2>1, <2>2
<1>6. \A i \in Nat : i < N - n /\ i \in T => i + 1 \in T
  BY <1>5
<1> HIDE DEF T
<1>7. \A i \in Nat : i <= N - n => i \in T
  BY <1>3, <1>4, <1>6, StepByStep
<1>8. N - n \in T
  BY <1>3, <1>7
<1>9. g[n] \subseteq g[N]
  BY <1>3, <1>8 DEF T
<1>10. g[N] \in SUBSET TableIds
  BY <1>1, <1>3
<1> QED BY <1>2, <1>9, <1>10 DEF g

LEMMA RootsReached ==
    ASSUME NEW h, NEW S \in SUBSET TableIds
    PROVE  S \subseteq ReachableFrom(h, S) /\ ReachableFrom(h, S) \subseteq TableIds
<1>1. Cardinality(TableIds) \in Nat /\ Grown(h, S)[0] = S
  BY GrownFacts
<1>2. 0 \in 0 .. Cardinality(TableIds)
  BY <1>1
<1> QED BY <1>1, <1>2, GrownWithin

\* Fields that hold tables lead to them still, and more do.
LEMMA ReachGrows ==
    ASSUME NEW h, NEW h2, NEW S \in SUBSET TableIds, NEW S2 \in SUBSET TableIds,
           S \subseteq S2,
           \A t \in ReachableFrom(h, S), k \in Keys :
              h[t][k] \in TableIds => h2[t][k] = h[t][k]
    PROVE  ReachableFrom(h, S) \subseteq ReachableFrom(h2, S2)
<1> DEFINE N == Cardinality(TableIds)
           g == Grown(h, S)
           g2 == Grown(h2, S2)
           T == {i \in Nat : g[i] \subseteq g2[i]}
<1>1. /\ N \in Nat /\ g \in [0 .. N -> SUBSET TableIds] /\ g[0] = S
      /\ \A i \in 1 .. N : g[i] = g[i - 1] \cup Linked(h, g[i - 1])
  BY GrownFacts
<1>2. /\ g2 \in [0 .. N -> SUBSET TableIds] /\ g2[0] = S2
      /\ \A i \in 1 .. N : g2[i] = g2[i - 1] \cup Linked(h2, g2[i - 1])
  BY GrownFacts
<1>3. ReachableFrom(h, S) = g[N] /\ ReachableFrom(h2, S2) = g2[N]
  BY DEF ReachableFrom
<1>4. \A i \in 0 .. N : g[i] \subseteq g[N]
  BY <1>3, GrownWithin
<1> HIDE DEF g, g2, N
<1>5. 0 \in T
  BY <1>1, <1>2
<1>6. ASSUME NEW i \in Nat, i < N, i \in T PROVE i + 1 \in T
  <2>1. i + 1 \in 1 .. N /\ (i + 1) - 1 = i /\ i + 1 \in Nat /\ i \in 0 .. N
    BY <1>1, <1>6
  <2>2. g[i + 1] = g[i] \cup Linked(h, g[i]) /\ g2[i + 1] = g2[i] \cup Linked(h2, g2[i])
    BY <1>1, <1>2, <2>1
  <2>3. g[i] \subseteq g2[i] /\ g[i] \subseteq ReachableFrom(h, S)
    BY <1>3, <1>4, <1>6, <2>1
  <2>4. Linked(h, g[i]) \subseteq Linked(h2, g2[i])
    BY <2>3 DEF Linked
  <2> QED BY <2>1, <2>2, <2>3, <2>4
<1>7. \A i \in Nat : i < N /\ i \in T => i + 1 \in T
  BY <1>6
<1> HIDE DEF T
<1>8. \A i \in Nat : i <= N => i \in T
  BY <1>1, <1>5, <1>7, StepByStep
<1>9. N \in T
  BY <1>1, <1>8
<1> QED BY <1>3, <1>9 DEF T

\* What the program and a stack refer to.
Roots(st) == {Root, Globals} \cup (ToSet(st) \cap TableIds)

LEMMA ReachFacts ==
    ASSUME NEW h, NEW st
    PROVE  /\ Roots(st) \in SUBSET TableIds
           /\ Reachable(h, st) = ReachableFrom(h, Roots(st))
           /\ Roots(st) \subseteq Reachable(h, st) /\ Reachable(h, st) \subseteq TableIds
<1>1. Roots(st) \in SUBSET TableIds
  BY TablesAssumption DEF Roots
<1>2. Reachable(h, st) = ReachableFrom(h, Roots(st))
  BY DEF Reachable, Roots
<1> QED BY <1>1, <1>2, RootsReached

LEMMA CollectedFacts ==
    ASSUME NEW h \in Heaps, NEW st
    PROVE  /\ Collected(h, st) \in Heaps
           /\ \A t \in TableIds : Collected(h, st)[t] = IF t \in Reachable(h, st) THEN h[t] ELSE Empty
           /\ \A t \in TableIds : \A k \in Keys : Collected(h, st)[t][k] \in {LuaNil, h[t][k]}
<1>1. \A t \in TableIds : Collected(h, st)[t] = IF t \in Reachable(h, st) THEN h[t] ELSE Empty
  BY DEF Collected
<1>2. Collected(h, st) \in Heaps
  BY EmptyType DEF Collected, Heaps
<1> QED BY <1>1, <1>2, EmptyType

\* After a collection only the tables that are reached have fields.
AllEmptied(h, st) == \A t \in TableIds \ Reachable(h, st) : h[t] = Empty

LEMMA CollectionEmpties ==
    ASSUME NEW h \in Heaps, NEW st
    PROVE  AllEmptied(Collected(h, st), st)
<1> DEFINE c == Collected(h, st)
           S == Roots(st)
<1>1. /\ S \in SUBSET TableIds
      /\ Reachable(h, st) = ReachableFrom(h, S) /\ Reachable(c, st) = ReachableFrom(c, S)
      /\ Reachable(h, st) \subseteq TableIds
  BY ReachFacts
<1>2. \A t \in TableIds : c[t] = IF t \in Reachable(h, st) THEN h[t] ELSE Empty
  BY CollectedFacts
<1> HIDE DEF c, S
<1>3. \A t \in ReachableFrom(h, S), k \in Keys : h[t][k] \in TableIds => c[t][k] = h[t][k]
  BY <1>1, <1>2
<1>4. ReachableFrom(h, S) \subseteq ReachableFrom(c, S)
  BY <1>1, <1>3, ReachGrows
<1> QED BY <1>1, <1>2, <1>4 DEF AllEmptied, c

-----------------------------------------------------------------------------
(* Where a path leads.                                                     *)

Places == Slots \cup {"error"}

LEMMA LedFacts ==
    ASSUME NEW h \in Heaps, NEW t \in Slots, NEW path \in Seq(Keys)
    PROVE  LET l == Led(h, t, path)
           IN  /\ l \in [0 .. Len(path) -> Places] /\ l[0] = t
               /\ \A n \in 1 .. Len(path) :
                     l[n] = IF l[n - 1] \in TableIds THEN h[l[n - 1]][path[n]] ELSE "error"
<1> DEFINE N == Len(path)
           next(x, n) == IF x \in TableIds THEN h[x][path[n]] ELSE "error"
           step == [p \in Places \X Nat |-> IF p[2] \in 1 .. N THEN next(p[1], p[2]) ELSE p[1]]
           Body(s) == [n \in 0 .. N |-> IF n = 0 THEN t ELSE next(s[n - 1], n)]
           chosen == CHOOSE s : s = Body(s)
<1>1. N \in Nat /\ \A n \in 1 .. N : path[n] \in Keys
  BY LenProperties
<1>2. Led(h, t, path) = chosen
  BY DEF Led
<1>3. \A x \in Places : \A n \in 1 .. N : next(x, n) \in Places
  BY <1>1, ValuesAreSlots DEF Heaps, Places
<1>0. t \in Places
  BY DEF Places
<1> HIDE DEF N, next, chosen
<1>4. step \in [Places \X Nat -> Places]
  BY <1>3
<1>5. \A x \in Places : \A n \in 1 .. N : step[<<x, n>>] = next(x, n)
  BY <1>1
<1> HIDE DEF step
<1>6. PICK f \in [0 .. N -> Places] : f[0] = t /\ \A n \in 1 .. N : f[n] = step[<<f[n - 1], n>>]
  <2>1. FirstValues(N, Places, t, step) # {}
    BY <1>0, <1>1, <1>4, RecursionExists
  <2> QED BY <2>1 DEF FirstValues
<1>7. ASSUME NEW n \in 0 .. N
      PROVE  f[n] = IF n = 0 THEN t ELSE next(f[n - 1], n)
  <2>1. CASE n = 0
    BY <1>6, <2>1
  <2>2. CASE n # 0
    <3>1. n \in 1 .. N /\ n - 1 \in 0 .. N
      BY <1>1, <2>2
    <3>2. f[n - 1] \in Places
      BY <3>1
    <3> QED BY <1>5, <1>6, <2>2, <3>1, <3>2
  <2> QED BY <2>1, <2>2
<1>8. f = Body(f)
  BY <1>7
<1>9. chosen = Body(chosen)
  BY <1>8 DEF chosen
<1>10. DOMAIN chosen = 0 .. N /\ \A n \in 0 .. N : chosen[n] = IF n = 0 THEN t ELSE next(chosen[n - 1], n)
  BY <1>9
<1>11. chosen[0] = t /\ \A n \in 1 .. N : chosen[n] = next(chosen[n - 1], n)
  <2>1. 0 \in 0 .. N /\ \A n \in 1 .. N : n \in 0 .. N /\ n # 0
    BY <1>1
  <2> QED BY <1>10, <2>1
<1>12. \A n \in Nat : n <= N => chosen[n] \in Places
  <2> DEFINE T == {n \in Nat : chosen[n] \in Places}
  <2>1. 0 \in T
    BY <1>0, <1>11
  <2>2. ASSUME NEW n \in Nat, n < N, n \in T PROVE n + 1 \in T
    <3>1. n + 1 \in 1 .. N /\ (n + 1) - 1 = n /\ n + 1 \in Nat
      BY <1>1, <2>2
    <3>2. chosen[n + 1] = next(chosen[n], n + 1)
      BY <1>11, <3>1
    <3> QED BY <1>3, <2>2, <3>1, <3>2
  <2>3. \A n \in Nat : n < N /\ n \in T => n + 1 \in T
    BY <2>2
  <2> HIDE DEF T
  <2>4. \A n \in Nat : n <= N => n \in T
    BY <1>1, <2>1, <2>3, StepByStep
  <2> QED BY <2>4 DEF T
<1>13. chosen \in [0 .. N -> Places]
  <2>1. \A n \in 0 .. N : chosen[n] \in Places
    BY <1>1, <1>12
  <2> QED BY <1>9, <2>1
<1> QED BY <1>2, <1>11, <1>13 DEF N, next

\* What is no table leads nowhere, whatever the rest of the path is.
LEMMA LedOnward ==
    ASSUME NEW h \in Heaps, NEW t \in Slots, NEW path \in Seq(Keys),
           NEW i \in 0 .. Len(path), Led(h, t, path)[i] \notin TableIds,
           NEW j \in 0 .. Len(path), i <= j
    PROVE  /\ Led(h, t, path)[j] \notin TableIds
           /\ i # j => Led(h, t, path)[j] = "error"
<1> DEFINE N == Len(path)
           l == Led(h, t, path)
           T == {n \in Nat : i + n <= N =>
                    l[i + n] \notin TableIds /\ (n # 0 => l[i + n] = "error")}
<1>1. N \in Nat /\ i \in 0 .. N /\ j \in 0 .. N
  BY LenProperties
<1>2. \A n \in 1 .. N : l[n] = IF l[n - 1] \in TableIds THEN h[l[n - 1]][path[n]] ELSE "error"
  BY LedFacts
<1>3. "error" \notin TableIds
  BY TablesAssumption
<1>4. l[i] \notin TableIds
  OBVIOUS
<1> HIDE DEF l, N
<1>5. i \in Nat /\ N - i \in Nat /\ i + 0 = i /\ j - i \in Nat /\ j - i <= N - i /\ i + (j - i) = j
      /\ j <= N
  BY <1>1
<1>6. 0 \in T
  BY <1>4, <1>5
<1>7. ASSUME NEW n \in Nat, n < N - i, n \in T PROVE n + 1 \in T
  <2>1. i + (n + 1) \in 1 .. N /\ (i + (n + 1)) - 1 = i + n /\ i + n <= N /\ n + 1 \in Nat
    BY <1>1, <1>5, <1>7
  <2>2. l[i + n] \notin TableIds
    BY <1>7, <2>1
  <2>3. l[i + (n + 1)] = "error"
    BY <1>2, <2>1, <2>2
  <2> QED BY <1>3, <2>1, <2>3
<1>8. \A n \in Nat : n < N - i /\ n \in T => n + 1 \in T
  BY <1>7
<1> HIDE DEF T
<1>9. \A n \in Nat : n <= N - i => n \in T
  BY <1>5, <1>6, <1>8, StepByStep
<1>10. j - i \in T
  BY <1>5, <1>9
<1>11. l[j] \notin TableIds /\ (j - i # 0 => l[j] = "error")
  BY <1>5, <1>10 DEF T
<1>12. i # j => j - i # 0
  BY <1>5
<1> QED BY <1>11, <1>12 DEF l

LEMMA NoPlaceIsError ==
    /\ \A v \in FieldValues : v # "error"
    /\ "error" \notin TableIds /\ LuaNil \notin TableIds /\ Scalar \notin TableIds
BY TablesAssumption DEF FieldValues, LuaNil, Scalar

LEMMA TopIsAt ==
    ASSUME NEW st \in Seq(Slots), NEW v \in Slots, NEW r, r.st = Append(st, v), r.at = Len(r.st)
    PROVE  At(r) = v /\ Top(r) = v
<1> DEFINE a == Append(st, v)
<1>1. Len(a) = Len(st) + 1 /\ a[Len(st) + 1] = v /\ Last(a) = v
  BY AppendFacts
<1> HIDE DEF a
<1>2. r.st = a
  BY DEF a
<1> QED BY <1>1, <1>2 DEF At, Top

\* A key that is looked up, and nothing is created.
LEMMA GetDeepLeads ==
    ASSUME NEW x \in Machines, x.end = "go", NEW k \in Keys, NEW type
    PROVE  LET r == get_deep(x, k, type, "none")
           IN  IF At(x) \in TableIds
               THEN /\ r.end = "go" /\ r.heap = x.heap /\ At(r) = Found(x, k)
                    /\ Top(r) = Found(x, k) /\ Found(x, k) \in FieldValues
               ELSE r.end = "error"
<1> DEFINE mode == "none"
           r == get_deep(x, k, type, mode)
           f == Found(x, k)
<1>1. mode = "none"
  OBVIOUS
<1> HIDE DEF mode
<1>2. /\ At(x) \notin TableIds => r.end = "error"
      /\ At(x) \in TableIds =>
            r.end = "go" /\ r.heap = x.heap /\ r.at = Len(r.st) /\ r.st = Append(x.st, f)
  BY <1>1, GetDeepFacts
<1>3. At(x) \in TableIds => f \in FieldValues
  BY GetFacts
<1>4. x.st \in Seq(Slots) /\ FieldValues \subseteq Slots
  BY MachineFacts, ValuesAreSlots
<1> HIDE DEF r, f
<1>5. At(x) \in TableIds => At(r) = f /\ Top(r) = f
  BY <1>2, <1>3, <1>4, TopIsAt
<1> QED BY <1>2, <1>3, <1>5 DEF r, f, mode

LEMMA GetFieldLeads ==
    ASSUME NEW x \in Machines, x.end = "go", NEW k \in Keys
    PROVE  LET r == Descend(get_field(x, k))
           IN  IF At(x) \in TableIds
               THEN /\ r.end = "go" /\ r.heap = x.heap /\ At(r) = Found(x, k)
                    /\ Top(r) = Found(x, k) /\ Found(x, k) \in FieldValues
               ELSE r.end = "error"
<1> DEFINE n == get_field(x, k)
           r == Descend(n)
           f == Found(x, k)
<1>1. /\ n \in Machines /\ n.heap = x.heap
      /\ At(x) \notin TableIds => n.end = "error"
      /\ At(x) \in TableIds => n.end = x.end /\ n.st = Append(x.st, f) /\ f \in FieldValues
  BY GetFacts
<1> HIDE DEF n
<1>2. r.at = Len(n.st) /\ r.st = n.st /\ r.heap = n.heap /\ r.end = n.end
  BY <1>1, DescendFacts
<1>3. x.st \in Seq(Slots) /\ FieldValues \subseteq Slots
  BY MachineFacts, ValuesAreSlots
<1> HIDE DEF r, f
<1>4. At(x) \in TableIds => At(r) = f /\ Top(r) = f
  BY <1>1, <1>2, <1>3, TopIsAt
<1> QED BY <1>1, <1>2, <1>4 DEF r, f, n

\* The machine x is where Lua comes to, or failed where Lua fails.
Strict(x, place, h) ==
    IF place = "error" THEN x.end = "error"
    ELSE x.end = "go" /\ x.heap = h /\ At(x) = place

LEMMA StrictLeads ==
    ASSUME NEW op \in {"get", "tuple"}, NEW m, Starts(m), NEW path \in Seq(Keys),
           NEW n \in 0 .. Len(path)
    PROVE  LET x == deep(op, m, path, "none")[n]
               place == Led(m.heap, At(m), path)[n]
           IN  /\ Strict(x, place, m.heap) /\ x \in Machines
               /\ n # 0 /\ place # "error" => Top(x) = place
               /\ place # "error" => place \in FieldValues
<1> DEFINE N == Len(path)
           mode == "none"
           d == deep(op, m, path, mode)
           h == m.heap
           t == At(m)
           l == Led(h, t, path)
           Fine(i) == /\ Strict(d[i], l[i], h)
                      /\ (i # 0 /\ l[i] # "error") => Top(d[i]) = l[i]
                      /\ l[i] # "error" => l[i] \in FieldValues
           T == {i \in Nat : i <= N => Fine(i)}
<1>1. /\ m \in Machines /\ h \in Heaps /\ t \in TableIds /\ t \in Slots /\ m.end = "go"
      /\ N \in Nat /\ op \in PathOperations
  BY MachineFacts, ValuesAreSlots, LenProperties DEF Starts, PathOperations
<1>2. /\ d \in [0 .. N -> Machines] /\ d[0] = m
      /\ \A i \in 1 .. N : d[i] = along(op, d[i - 1], path[i], mode)
  BY <1>1, DeepFacts
<1>3. /\ l[0] = t
      /\ \A i \in 1 .. N : l[i] = IF l[i - 1] \in TableIds THEN h[l[i - 1]][path[i]] ELSE "error"
  BY <1>1, LedFacts
<1>4. \A i \in 1 .. N : path[i] \in Keys
  BY ElementOfSeq
<1> HIDE DEF d, l, N
<1>5. 0 \in T
  BY <1>1, <1>2, <1>3, NoPlaceIsError, ValuesAreSlots DEF Strict
<1>6. ASSUME NEW i \in Nat, i < N, i \in T PROVE i + 1 \in T
  <2>1. i + 1 \in 1 .. N /\ (i + 1) - 1 = i /\ i \in 0 .. N /\ i <= N /\ i + 1 # 0 /\ i + 1 \in Nat
    BY <1>1, <1>6
  <2> DEFINE x == d[i]
             k == path[i + 1]
             r == along(op, x, k, mode)
             f == Found(x, k)
  <2>2. x \in Machines /\ k \in Keys /\ d[i + 1] = r
    BY <1>2, <1>4, <2>1
  <2>3. l[i + 1] = IF l[i] \in TableIds THEN h[l[i]][k] ELSE "error"
    BY <1>3, <2>1
  <2>4. Strict(x, l[i], h)
    BY <1>6, <2>1
  <2>5. x.end = "go" =>
           IF At(x) \in TableIds
           THEN r.end = "go" /\ r.heap = x.heap /\ At(r) = f /\ Top(r) = f /\ f \in FieldValues
           ELSE r.end = "error"
    <3>1. CASE op = "get"
      <4>1. r = get_deep(x, k, "table", "none")
        BY <3>1 DEF along
      <4> HIDE DEF x, k, r
      <4> QED BY <2>2, <4>1, GetDeepLeads
    <3>2. CASE op = "tuple"
      <4>1. r = IF x.end = "go" THEN Descend(get_field(x, k)) ELSE x
        BY <3>2 DEF along
      <4> HIDE DEF x, k, r
      <4> QED BY <2>2, <4>1, GetFieldLeads
    <3> QED BY <3>1, <3>2
  <2>6. x.end # "go" => r = x
    <3> HIDE DEF x, k, mode
    <3> QED BY <1>1, <2>2, AlongFacts
  <2>7. f = x.heap[At(x)][k]
    BY DEF Found
  <2> HIDE DEF x, k, r, f, T
  <2>8. CASE l[i] = "error"
    BY <2>2, <2>3, <2>4, <2>6, <2>8, <2>1, NoPlaceIsError DEF Strict, T
  <2>9. CASE l[i] # "error"
    <3>1. x.end = "go" /\ x.heap = h /\ At(x) = l[i]
      BY <2>4, <2>9 DEF Strict
    <3>2. CASE l[i] \in TableIds
      <4>1. l[i + 1] = f /\ f \in FieldValues /\ f # "error"
        BY <2>3, <2>5, <2>7, <3>1, <3>2, NoPlaceIsError
      <4> QED BY <2>1, <2>2, <2>5, <3>1, <3>2, <4>1 DEF Strict, T
    <3>3. CASE l[i] \notin TableIds
      BY <2>1, <2>2, <2>3, <2>5, <3>1, <3>3 DEF Strict, T
    <3> QED BY <3>2, <3>3
  <2> QED BY <2>8, <2>9
<1>7. \A i \in Nat : i < N /\ i \in T => i + 1 \in T
  BY <1>6
<1> HIDE DEF T
<1>8. \A i \in Nat : i <= N => i \in T
  BY <1>1, <1>5, <1>7, StepByStep
<1>9. n \in Nat /\ n <= N /\ n \in 0 .. N
  BY <1>1 DEF N
<1>10. Fine(n)
  BY <1>8, <1>9 DEF T
<1> QED BY <1>2, <1>9, <1>10 DEF d, l, h, t, mode

\* The value a proxy finds in the table of globals comes on the top.
LEMMA InPlaceAgrees ==
    ASSUME NEW m \in Machines, m.end = "go", NEW path \in Seq(Keys), path # <<>>
    PROVE  LET v == Lookup(m.heap, Globals, path)
               p == proxy_push_in_place(m, path)
           IN  IF v = "error" THEN p.end = "error"
               ELSE p.st = Append(m.st, v) /\ v \in Slots
<1> DEFINE N == Len(path)
           h == m.heap
           l == Led(h, Globals, path)
           f == h[Globals][path[1]]
           first == Descend(Push(m, f))
           rest == Tail(path)
           mode == "none"
           d == deep("tuple", first, rest, mode)
           v == Lookup(h, Globals, path)
           p == proxy_push_in_place(m, path)
           Fine(i) == /\ Strict(d[i], l[i + 1], h)
                      /\ l[i + 1] # "error" => Top(d[i]) = l[i + 1] /\ l[i + 1] \in FieldValues
           T == {i \in Nat : i <= N - 1 => Fine(i)}
<1>1. /\ N \in Nat /\ N >= 1 /\ N - 1 \in Nat /\ 1 \in 1 .. N /\ N \in 1 .. N
      /\ "tuple" \in PathOperations
  BY PathFacts DEF PathOperations
<1>2. /\ rest \in Seq(Keys) /\ Len(rest) = N - 1
      /\ \A i \in 1 .. N - 1 : rest[i] = path[i + 1]
  BY HeadTailProperties
<1>3. \A i \in 1 .. N : path[i] \in Keys
  BY ElementOfSeq
<1>4. Globals \in TableIds /\ Globals \in Slots /\ h \in Heaps /\ m.st \in Seq(Slots)
  BY MachineFacts, ValuesAreSlots, TablesAssumption
<1>5. /\ l[0] = Globals
      /\ \A i \in 1 .. N : l[i] = IF l[i - 1] \in TableIds THEN h[l[i - 1]][path[i]] ELSE "error"
  BY <1>4, LedFacts
<1>6. f \in FieldValues /\ f \in Slots /\ f # "error"
  BY <1>1, <1>3, <1>4, HeapUpdated, ValuesAreSlots, NoPlaceIsError
<1>7. v = l[N]
  BY DEF Lookup
<1>8. p = IF d[N - 1].end # "go" THEN d[N - 1] ELSE Push(m, Top(d[N - 1]))
  BY DEF proxy_push_in_place
<1> HIDE DEF l, N, rest, v, p
<1>9. l[1] = f
  <2>1. 1 - 1 = 0
    OBVIOUS
  <2> QED BY <1>1, <1>4, <1>5, <2>1
<1>10. first \in Machines /\ first.end = "go" /\ first.heap = h /\ At(first) = f /\ Top(first) = f
  <2> DEFINE o == Push(m, f)
  <2>1. o \in Machines /\ o.st = Append(m.st, f) /\ o.heap = h /\ o.end = "go"
    BY <1>6, PushFacts
  <2> HIDE DEF o, f
  <2>2. /\ first \in Machines /\ first.at = Len(o.st) /\ first.st = o.st
        /\ first.heap = o.heap /\ first.end = o.end
    BY <2>1, DescendFacts DEF o
  <2> HIDE DEF first
  <2> QED BY <1>4, <1>6, <2>1, <2>2, TopIsAt
<1> HIDE DEF first, f
<1>11. /\ d \in [0 .. N - 1 -> Machines] /\ d[0] = first
       /\ \A i \in 1 .. N - 1 : d[i] = along("tuple", d[i - 1], rest[i], mode)
  <2>1. /\ d \in [0 .. Len(rest) -> Machines] /\ d[0] = first
        /\ \A i \in 1 .. Len(rest) : d[i] = along("tuple", d[i - 1], rest[i], mode)
    <3> HIDE DEF mode
    <3> QED BY <1>1, <1>2, <1>10, DeepFacts
  <2> HIDE DEF d
  <2> QED BY <1>2, <2>1
<1> HIDE DEF d
<1>12. 0 \in T
  <2>1. 0 + 1 = 1
    OBVIOUS
  <2> QED BY <1>6, <1>9, <1>10, <1>11, <2>1 DEF Strict
<1>13. ASSUME NEW i \in Nat, i < N - 1, i \in T PROVE i + 1 \in T
  <2>1. /\ i + 1 \in 1 .. N - 1 /\ (i + 1) - 1 = i /\ i \in 0 .. N - 1 /\ i <= N - 1
        /\ i + 1 \in Nat /\ (i + 1) + 1 \in 1 .. N /\ ((i + 1) + 1) - 1 = i + 1
    BY <1>1, <1>13
  <2> DEFINE j == i + 1
             x == d[i]
             k == rest[i + 1]
             r == Descend(get_field(x, k))
             g == Found(x, k)
  <2>2. x \in Machines /\ k \in Keys /\ k = path[j + 1]
    BY <1>2, <1>3, <1>11, <2>1
  <2>3. d[j] = IF x.end = "go" THEN r ELSE x
    BY <1>11, <2>1 DEF along
  <2>4. l[j + 1] = IF l[j] \in TableIds THEN h[l[j]][k] ELSE "error"
    BY <1>5, <2>1, <2>2
  <2>5. Strict(x, l[j], h)
    BY <1>13, <2>1
  <2>6. g = x.heap[At(x)][k]
    BY DEF Found
  <2>7. x.end = "go" =>
           IF At(x) \in TableIds
           THEN r.end = "go" /\ r.heap = x.heap /\ At(r) = g /\ Top(r) = g /\ g \in FieldValues
           ELSE r.end = "error"
    <3> HIDE DEF x, k
    <3> QED BY <2>2, GetFieldLeads
  <2>8. j \in Nat /\ (Fine(j) => j \in T)
    BY <2>1
  <2> HIDE DEF x, k, r, g, T, j
  <2>9. Fine(j)
    <3>1. CASE l[j] = "error"
      BY <2>3, <2>4, <2>5, <3>1, NoPlaceIsError DEF Strict
    <3>2. CASE l[j] # "error"
      <4>1. x.end = "go" /\ x.heap = h /\ At(x) = l[j]
        BY <2>5, <3>2 DEF Strict
      <4>2. CASE l[j] \in TableIds
        <5>1. l[j + 1] = g /\ g \in FieldValues /\ g # "error"
          BY <2>4, <2>6, <2>7, <4>1, <4>2, NoPlaceIsError
        <5> QED BY <2>3, <2>7, <4>1, <4>2, <5>1 DEF Strict
      <4>3. CASE l[j] \notin TableIds
        BY <2>3, <2>4, <2>7, <4>1, <4>3 DEF Strict
      <4> QED BY <4>2, <4>3
    <3> QED BY <3>1, <3>2
  <2> QED BY <2>8, <2>9 DEF j
<1> HIDE DEF T
<1>14. \A i \in Nat : i < N - 1 /\ i \in T => i + 1 \in T
  BY <1>13
<1>15. \A i \in Nat : i <= N - 1 => i \in T
  BY <1>1, <1>12, <1>14, StepByStep
<1>16. (N - 1) + 1 = N /\ N - 1 <= N - 1
  BY <1>1
<1>17. Fine(N - 1)
  BY <1>1, <1>15, <1>16 DEF T
<1>18. Strict(d[N - 1], l[N], h) /\ (l[N] # "error" => Top(d[N - 1]) = l[N] /\ l[N] \in FieldValues)
  BY <1>16, <1>17
<1>19. CASE v = "error"
  BY <1>7, <1>8, <1>18, <1>19 DEF v, p, Strict
<1>20. CASE v # "error"
  <2>1. l[N] \in Slots /\ p = Push(m, l[N])
    BY <1>7, <1>8, <1>18, <1>20, ValuesAreSlots DEF Strict
  <2>2. p.st = Append(m.st, l[N])
    BY <2>1, PushFacts
  <2> QED BY <1>7, <1>20, <2>1, <2>2 DEF v, p
<1> QED BY <1>19, <1>20

-----------------------------------------------------------------------------
(* Sequences the walks leave.                                              *)

LEMMA TwoMore ==
    ASSUME NEW st \in Seq(Slots), NEW u \in Slots, NEW v \in Slots
    PROVE  /\ st \o <<u>> = Append(st, u)
           /\ st \o <<u, v>> = Append(Append(st, u), v)
<1> DEFINE N == Len(st)
           x == st \o <<u, v>>
           a == Append(st, u)
           y == Append(a, v)
<1>1. <<u, v>> \in Seq(Slots) /\ Len(<<u, v>>) = 2 /\ <<u, v>>[1] = u /\ <<u, v>>[2] = v
  OBVIOUS
<1>2. /\ x \in Seq(Slots) /\ Len(x) = N + Len(<<u, v>>) /\ N \in Nat
      /\ \A i \in 1 .. N + Len(<<u, v>>) : x[i] = IF i <= N THEN st[i] ELSE <<u, v>>[i - N]
  BY <1>1, ConcatProperties, LenProperties
<1>3. /\ a \in Seq(Slots) /\ Len(a) = N + 1 /\ a[N + 1] = u /\ \A i \in 1 .. N : a[i] = st[i]
  BY AppendFacts
<1> HIDE DEF a, x
<1>4. /\ y \in Seq(Slots) /\ Len(y) = Len(a) + 1 /\ y[Len(a) + 1] = v
      /\ \A i \in 1 .. Len(a) : y[i] = a[i]
  BY <1>3, AppendFacts
<1> HIDE DEF y, N
<1>5. Len(y) = N + 2 /\ Len(x) = N + 2 /\ y[N + 2] = v
  BY <1>1, <1>2, <1>3, <1>4
<1>6. ASSUME NEW i \in 1 .. N + 2 PROVE x[i] = y[i]
  <2>1. x[i] = IF i <= N THEN st[i] ELSE <<u, v>>[i - N]
    BY <1>1, <1>2
  <2>2. CASE i <= N
    <3>1. i \in 1 .. N /\ i \in 1 .. Len(a)
      BY <1>2, <1>3, <2>2
    <3> QED BY <1>3, <1>4, <2>1, <2>2, <3>1
  <2>3. CASE i = N + 1
    <3>1. ~(i <= N) /\ i - N = 1 /\ i \in 1 .. Len(a)
      BY <1>2, <1>3, <2>3
    <3> QED BY <1>1, <1>3, <1>4, <2>1, <2>3, <3>1
  <2>4. CASE i = N + 2
    <3>1. ~(i <= N) /\ i - N = 2
      BY <1>2, <2>4
    <3> QED BY <1>1, <1>5, <2>1, <2>4, <3>1
  <2> QED BY <1>2, <2>2, <2>3, <2>4
<1>7. x = y
  BY <1>2, <1>4, <1>5, <1>6, SeqEqual
<1>8. st \o <<u>> = Append(st, u)
  BY AppendIsConcat
<1> QED BY <1>7, <1>8 DEF x, y, a

LEMMA RemovedFacts ==
    ASSUME NEW st \in Seq(Slots), NEW i \in Nat, i <= Len(st) + 1
    PROVE  LET r == removed(st, i)
           IN  /\ r \in Seq(Slots) /\ Len(r) >= Len(st) - 1
               /\ i \in 1 .. Len(st) =>
                     /\ Len(r) = Len(st) - 1
                     /\ \A j \in 1 .. Len(st) - 1 : r[j] = IF j < i THEN st[j] ELSE st[j + 1]
<1> DEFINE N == Len(st)
           r == removed(st, i)
<1>1. N \in Nat /\ i \in Nat /\ i <= N + 1 /\ \A j \in 1 .. N : st[j] \in Slots
  BY LenProperties
<1>2. CASE i = N
  <2> DEFINE c == Cut(st, 1)
  <2>1. r = c
    BY <1>2 DEF removed
  <2>2. c \in Seq(Slots) /\ (1 <= Len(st) => Len(c) = Len(st) - 1 /\ \A j \in 1 .. Len(st) - 1 : c[j] = st[j])
    BY CutFacts
  <2> HIDE DEF r, c, N
  <2>3. Len(c) \in Nat
    BY <2>2, LenProperties
  <2>4. Len(c) >= N - 1
    <3>1. CASE N = 0
      BY <2>3, <3>1
    <3>2. CASE N # 0
      BY <1>1, <2>2, <3>2 DEF N
    <3> QED BY <3>1, <3>2
  <2>5. i \in 1 .. N => Len(c) = N - 1
    BY <1>1, <2>2 DEF N
  <2>6. ASSUME i \in 1 .. N, NEW j \in 1 .. N - 1 PROVE c[j] = IF j < i THEN st[j] ELSE st[j + 1]
    <3>1. j < i /\ 1 <= N
      BY <1>1, <1>2, <2>6
    <3> QED BY <2>2, <2>6, <3>1 DEF N
  <2> QED BY <2>1, <2>2, <2>4, <2>5, <2>6 DEF r, N
<1>3. CASE i # N
  <2> DEFINE a == SubSeq(st, 1, i - 1)
             b == SubSeq(st, i + 1, N)
  <2>1. r = a \o b
    BY <1>3 DEF removed, RemoveAt
  <2>2. /\ i - 1 \in Int /\ i + 1 \in Int /\ N \in Int /\ 1 \in Int
        /\ \A j \in 1 .. i - 1 : j \in 1 .. N
        /\ \A j \in i + 1 .. N : j \in 1 .. N
    BY <1>1
  <2> HIDE DEF N
  <2>3. /\ a \in Seq(Slots)
        /\ Len(a) = IF 1 <= i - 1 THEN i - 1 - 1 + 1 ELSE 0
        /\ \A j \in 1 .. i - 1 - 1 + 1 : a[j] = st[1 + j - 1]
    BY <1>1, <2>2, SubSeqProperties
  <2>4. /\ b \in Seq(Slots)
        /\ Len(b) = IF i + 1 <= N THEN N - (i + 1) + 1 ELSE 0
        /\ \A j \in 1 .. N - (i + 1) + 1 : b[j] = st[(i + 1) + j - 1]
    BY <1>1, <2>2, SubSeqProperties
  <2> HIDE DEF a, b, r
  <2>5. /\ r \in Seq(Slots) /\ Len(r) = Len(a) + Len(b)
        /\ \A j \in 1 .. Len(a) + Len(b) : r[j] = IF j <= Len(a) THEN a[j] ELSE b[j - Len(a)]
    BY <2>1, <2>3, <2>4, ConcatProperties
  <2>6. Len(a) \in Nat /\ Len(b) \in Nat /\ Len(a) + Len(b) >= N - 1
    BY <1>1, <2>3, <2>4
  <2>7. i \in 1 .. N => Len(a) = i - 1 /\ Len(b) = N - i /\ Len(a) + Len(b) = N - 1
    BY <1>1, <1>3, <2>3, <2>4
  <2>8. ASSUME i \in 1 .. N, NEW j \in 1 .. N - 1 PROVE r[j] = IF j < i THEN st[j] ELSE st[j + 1]
    <3>1. /\ j \in 1 .. Len(a) + Len(b) /\ Len(a) = i - 1 /\ Len(b) = N - i
      BY <2>7, <2>8
    <3>2. r[j] = IF j <= Len(a) THEN a[j] ELSE b[j - Len(a)]
      BY <2>5, <3>1
    <3>3. CASE j < i
      <4>1. j <= Len(a) /\ j \in 1 .. i - 1 - 1 + 1 /\ 1 + j - 1 = j
        BY <1>1, <2>8, <3>1, <3>3
      <4> QED BY <2>3, <3>2, <3>3, <4>1
    <3>4. CASE ~(j < i)
      <4>1. ~(j <= Len(a)) /\ j - Len(a) \in 1 .. N - (i + 1) + 1
            /\ (i + 1) + (j - Len(a)) - 1 = j + 1
        BY <1>1, <2>8, <3>1, <3>4
      <4> QED BY <2>4, <3>2, <3>4, <4>1
    <3> QED BY <3>3, <3>4
  <2> QED BY <2>5, <2>6, <2>7, <2>8 DEF r, N
<1> QED BY <1>2, <1>3

LEMMA MinFacts ==
    ASSUME NEW S, S \subseteq Nat, S # {}
    PROVE  Min(S) \in S /\ \A j \in S : Min(S) <= j
<1>1. \E i \in S : \A j \in S : i <= j
  BY LeastOne
<1> QED BY <1>1 DEF Min

\* The key lua_next comes to.
NextKey(st, w) == KeyOrder[Min(Rest(heap, st[w.tableidx], Last(st)))]
AtEnd(st, w) == Rest(heap, st[w.tableidx], Last(st)) = {}
Ended(w) == [w EXCEPT !.ended = TRUE, !.keyidx = -1, !.key = LuaNil]
Met(w, i, k) == [w EXCEPT !.keyidx = i, !.key = k, !.seen = Append(w.seen, k)]

LEMMA EndedFacts ==
    ASSUME NEW w \in Walk
    PROVE  /\ Ended(w) \in Walk /\ Ended(w).kind = w.kind /\ Ended(w).pushed = w.pushed
           /\ Ended(w).table = w.table /\ Ended(w).tableidx = w.tableidx
           /\ Ended(w).ended /\ Ended(w).keyidx = -1 /\ Ended(w).key = LuaNil
           /\ Ended(w).seen = w.seen /\ Ended(w).always = w.always
BY DEF Walk, Ended

LEMMA MetFacts ==
    ASSUME NEW w \in Walk, NEW i \in Nat, NEW k \in Keys
    PROVE  /\ Met(w, i, k) \in Walk /\ Met(w, i, k).kind = w.kind /\ Met(w, i, k).pushed = w.pushed
           /\ Met(w, i, k).table = w.table /\ Met(w, i, k).tableidx = w.tableidx
           /\ Met(w, i, k).ended = w.ended /\ Met(w, i, k).keyidx = i /\ Met(w, i, k).key = k
           /\ Met(w, i, k).seen = Append(w.seen, k) /\ Met(w, i, k).always = w.always
<1>1. Append(w.seen, k) \in Seq(Keys)
  BY AppendProperties DEF Walk
<1> DEFINE q == Append(w.seen, k)
<1>2. q \in Seq(Keys) /\ Met(w, i, k) = [w EXCEPT !.keyidx = i, !.key = k, !.seen = q]
  BY <1>1 DEF Met
<1> HIDE DEF q
<1>3. /\ Met(w, i, k) \in Walk /\ Met(w, i, k).kind = w.kind /\ Met(w, i, k).pushed = w.pushed
      /\ Met(w, i, k).table = w.table /\ Met(w, i, k).tableidx = w.tableidx
      /\ Met(w, i, k).ended = w.ended /\ Met(w, i, k).keyidx = i /\ Met(w, i, k).key = k
      /\ Met(w, i, k).seen = q /\ Met(w, i, k).always = w.always
  BY <1>2 DEF Walk
<1> QED BY <1>3 DEF q

LEMMA NextKeyFacts ==
    ASSUME NEW st, NEW w, ~AtEnd(st, w)
    PROVE  /\ NextKey(st, w) \in Keys
           /\ \E i \in Rest(heap, st[w.tableidx], Last(st)) :
                 /\ NextKey(st, w) = KeyOrder[i] /\ i \in 1 .. Len(KeyOrder)
                 /\ \A j \in Rest(heap, st[w.tableidx], Last(st)) : i <= j
<1> DEFINE R == Rest(heap, st[w.tableidx], Last(st))
<1>1. R \subseteq 1 .. Len(KeyOrder) /\ 1 .. Len(KeyOrder) \subseteq Nat
  BY TablesAssumption DEF Rest
<1>2. NextKey(st, w) = KeyOrder[Min(R)]
  BY DEF NextKey
<1>3. R # {}
  BY DEF AtEnd
<1> HIDE DEF R
<1>4. Min(R) \in R /\ \A j \in R : Min(R) <= j
  BY <1>1, <1>3, MinFacts
<1>5. NextKey(st, w) \in Keys
  BY <1>1, <1>2, <1>4 DEF Keys
<1> QED BY <1>1, <1>2, <1>4, <1>5 DEF R

LEMMA SteppedFacts ==
    ASSUME NEW st \in Seq(Slots), NEW w \in Walk, NEW keep \in {1, 2}
    PROVE  LET s == Stepped(st, w, keep)
               base == Cut(st, 1)
           IN  /\ s.st \in Seq(Slots) /\ s.w \in Walk /\ base \in Seq(Slots)
               /\ AtEnd(st, w) => s.st = base /\ s.w = Ended(w)
               /\ ~AtEnd(st, w) =>
                     /\ s.w = Met(w, Len(base) + 1, NextKey(st, w))
                     /\ s.st = IF keep = 2 THEN Append(Append(base, NextKey(st, w)), Handed)
                               ELSE Append(base, NextKey(st, w))
<1> DEFINE s == Stepped(st, w, keep)
           base == Cut(st, 1)
           next == NextKey(st, w)
<1>1. base \in Seq(Slots) /\ Len(base) \in Nat
  BY CutFacts, LenProperties
<1>2. CASE AtEnd(st, w)
  <2>1. s = [st |-> base, w |-> Ended(w)]
    BY <1>2 DEF Stepped, AtEnd, Ended
  <2>2. s.st = base /\ s.w = Ended(w)
    BY <2>1
  <2> QED BY <1>1, <1>2, <2>2, EndedFacts
<1>3. CASE ~AtEnd(st, w)
  <2>1. s = [st |-> base \o (IF keep = 2 THEN <<next, Handed>> ELSE <<next>>),
             w |-> Met(w, Len(base) + 1, next)]
    BY <1>3 DEF Stepped, AtEnd, Met, NextKey
  <2>2. next \in Keys /\ next \in Slots /\ Handed \in Slots
    BY <1>3, NextKeyFacts, ValuesAreSlots
  <2> HIDE DEF next, s, base
  <2>3. /\ s.st = base \o (IF keep = 2 THEN <<next, Handed>> ELSE <<next>>)
        /\ s.w = Met(w, Len(base) + 1, next)
    BY <2>1
  <2>4. /\ base \o <<next>> = Append(base, next)
        /\ base \o <<next, Handed>> = Append(Append(base, next), Handed)
    BY <1>1, <2>2, TwoMore
  <2>5. Append(base, next) \in Seq(Slots) /\ Append(Append(base, next), Handed) \in Seq(Slots)
    BY <1>1, <2>2, AppendFacts
  <2>6. Len(base) + 1 \in Nat
    BY <1>1
  <2>7. s.w \in Walk
    BY <2>2, <2>3, <2>6, MetFacts
  <2>8. s.st = IF keep = 2 THEN Append(Append(base, next), Handed) ELSE Append(base, next)
    BY <2>3, <2>4
  <2> QED BY <1>1, <1>3, <2>3, <2>5, <2>7, <2>8 DEF s, base, next
<1> QED BY <1>2, <1>3

-----------------------------------------------------------------------------
(* The types.                                                              *)

LEMMA TypesUnfold ==
    TablesTyped <=> /\ stack \in Seq(Slots) /\ heap \in Heaps
                    /\ own \in Seq(Nat) /\ Len(own) <= MaxHeld
                    /\ walks \in [Walks -> Walk \cup {Gone}]
BY DEF TablesTyped, Slots, Heaps

LEMMA PathsAreSequences ==
    ASSUME NEW path \in Paths
    PROVE  path \in Seq(Keys) /\ path # <<>>
<1> DEFINE N == IF Running # {} THEN MaxWalkPath ELSE MaxPath
<1>1. path \in UNION {[1 .. i -> Keys] : i \in 1 .. N}
  BY DEF Paths, PathsOf
<1>2. N \in Nat
  BY TablesAssumption
<1> HIDE DEF N
<1>3. PICK i \in 1 .. N : path \in [1 .. i -> Keys]
  BY <1>1
<1>4. i \in Nat /\ i >= 1
  BY <1>2, <1>3
<1>5. path \in Seq(Keys)
  BY <1>3, <1>4, SeqDef
<1>6. 1 \in DOMAIN path
  BY <1>3, <1>4
<1>7. path # <<>>
  <2>1. SUFFICES ASSUME path = <<>> PROVE FALSE
    OBVIOUS
  <2>2. Len(path) = 0 /\ DOMAIN path = 1 .. Len(path)
    BY <1>5, <2>1, EmptySeq, LenProperties
  <2> QED BY <1>6, <2>2
<1> QED BY <1>5, <1>7

LEMMA OneMoreHeld ==
    ASSUME TablesTyped, MayHold
    PROVE  Len(own) + 1 <= MaxHeld
<1>1. IsFiniteSet(Running)
  BY TablesAssumption, FS_Subset DEF Running
<1>2. Cardinality(Running) \in Nat /\ Len(own) \in Nat /\ MaxHeld \in Nat
  BY <1>1, FS_CardinalityType, LenProperties, TablesAssumption, TypesUnfold
<1> QED BY <1>2 DEF MayHold

LEMMA StartedFacts ==
    ASSUME TablesTyped, NEW s \in Started
    PROVE  /\ s.m \in Machines /\ s.m.heap = heap /\ s.pops \in {0, 1}
           /\ s.m.end = "go" /\ s.m.count = 0
           /\ \/ /\ s.pops = 1 /\ s.m.at = Len(stack) + 1 /\ Starts(s.m)
                 /\ \E t \in Reachable(heap, stack) : s.m.st = Append(stack, t) /\ s.m = Pushed(t)
              \/ /\ s.pops = 0 /\ s.m.st = stack
                 /\ \E i \in 1 .. Len(own) : s.m.at = own[i] /\ s.m = InPlace(own[i])
<1>1. stack \in Seq(Slots) /\ heap \in Heaps /\ own \in Seq(Nat) /\ Len(stack) \in Nat
  BY TypesUnfold, LenProperties
<1>2. CASE \E t \in Reachable(heap, stack) : s = [m |-> Pushed(t), pops |-> 1]
  <2>1. PICK t \in Reachable(heap, stack) : s = [m |-> Pushed(t), pops |-> 1]
    BY <1>2
  <2> DEFINE st == Append(stack, t)
             p == Pushed(t)
             one == 1
  <2>2. t \in TableIds /\ t \in Slots
    BY ReachFacts, ValuesAreSlots
  <2>3. st \in Seq(Slots) /\ Len(st) = Len(stack) + 1 /\ st[Len(stack) + 1] = t
    BY <1>1, <2>2, AppendFacts
  <2>4. p = [st |-> st, heap |-> heap, at |-> Len(stack) + 1, count |-> 0, end |-> "go"]
    BY DEF Pushed, Machine
  <2>5. s.m = p /\ s.pops = one
    BY <2>1
  <2> HIDE DEF st, p
  <2>6. /\ p.st = st /\ p.heap = heap /\ p.at = Len(stack) + 1 /\ p.count = 0 /\ p.end = "go"
        /\ p \in Machines
    BY <1>1, <2>3, <2>4 DEF Machines
  <2>7. p.at \in 1 .. Len(p.st) /\ At(p) = t
    BY <1>1, <2>3, <2>6 DEF At
  <2>8. Starts(p)
    BY <2>2, <2>6, <2>7 DEF Starts
  <2> QED BY <2>5, <2>6, <2>8 DEF st, p
<1>3. CASE \E i \in 1 .. Len(own) : s = [m |-> InPlace(own[i]), pops |-> 0]
  <2>1. PICK i \in 1 .. Len(own) : s = [m |-> InPlace(own[i]), pops |-> 0]
    BY <1>3
  <2>2. own[i] \in Nat
    BY <1>1, ElementOfSeq
  <2> DEFINE p == InPlace(own[i])
             n == own[i]
  <2>3. p = [st |-> stack, heap |-> heap, at |-> n, count |-> 0, end |-> "go"]
    BY DEF InPlace, Machine
  <2>4. s.m = p /\ s.pops = 0
    BY <2>1
  <2>5. n \in Nat
    BY <2>2
  <2> HIDE DEF p, n
  <2>6. /\ p.st = stack /\ p.heap = heap /\ p.at = n /\ p.count = 0 /\ p.end = "go"
        /\ p \in Machines
    BY <1>1, <2>3, <2>5 DEF Machines
  <2> QED BY <2>4, <2>6 DEF n, p
<1> QED BY <1>2, <1>3 DEF Started

\* What an operation that leaves its stack as it began leaves.
LEMMA LeftFacts ==
    ASSUME TablesTyped, NEW s \in Started, NEW r, r.st \in Seq(Slots),
           Starts(s.m) /\ r.end # "error" => r.st = s.m.st
    PROVE  /\ Left(s, r).st \in Seq(Slots) /\ Left(s, r).heap = r.heap /\ Left(s, r).end = r.end
           /\ Starts(s.m) /\ r.end # "error" => Left(s, r).st = stack
<1>1. Left(s, r).st = Cut(r.st, s.pops) /\ Left(s, r).heap = r.heap /\ Left(s, r).end = r.end
  BY DEF Left
<1>2. s.pops \in Nat /\ stack \in Seq(Slots)
  BY StartedFacts, TypesUnfold
<1>3. Cut(r.st, s.pops) \in Seq(Slots)
  BY <1>2, CutFacts
<1>4. ASSUME Starts(s.m), r.end # "error" PROVE Cut(r.st, s.pops) = stack
  <2>1. CASE s.pops = 1
    <3>1. PICK t \in Reachable(heap, stack) : s.m.st = Append(stack, t)
      BY <2>1, StartedFacts
    <3>2. t \in Slots
      BY ReachFacts, ValuesAreSlots
    <3> QED BY <1>2, <1>4, <2>1, <3>1, <3>2, CutAppend
  <2>2. CASE s.pops # 1
    <3>1. s.pops = 0 /\ s.m.st = stack
      BY <2>2, StartedFacts
    <3>2. Cut(stack, 0) = stack
      <4>1. Cut(stack, 0) = SubSeq(stack, 1, Len(stack))
        BY <1>2, LenProperties DEF Cut
      <4> QED BY <1>2, <4>1, SubSeqFull
    <3> QED BY <1>4, <3>1, <3>2
  <2> QED BY <2>1, <2>2
<1> QED BY <1>1, <1>3, <1>4

\* What the program may do through operations on paths that pop what they push.
PathStep ==
    \E st \in Seq(Slots), h \in Heaps :
       /\ stack' = st /\ Changes(h) /\ own' = own
       /\ (\A s \in Started : Starts(s.m)) => st = stack

LEMMA SetIsPathStep ==
    ASSUME TablesTyped, Set
    PROVE  PathStep
<1>1. PICK s \in Started, path \in Paths, mode \in Modes,
           v \in {LuaNil, Scalar} \cup (Stored \cap Reachable(heap, stack)) :
         /\ Left(s, traverse_set(s.m, path, v, mode)).end # "error"
         /\ stack' = Left(s, traverse_set(s.m, path, v, mode)).st
         /\ Changes(Left(s, traverse_set(s.m, path, v, mode)).heap)
         /\ own' = own
  BY DEF Set, Ends
<1> DEFINE r == traverse_set(s.m, path, v, mode)
<1>2. s.m \in Machines /\ path \in Seq(Keys) /\ path # <<>> /\ v \in FieldValues
  BY StartedFacts, PathsAreSequences, ReachFacts DEF FieldValues
<1>3. /\ r.st \in Seq(Slots) /\ r.heap \in Heaps
      /\ Starts(s.m) /\ r.end # "error" => r.st = s.m.st
  BY <1>2, TraverseSetFacts
<1>4. /\ Left(s, r).end # "error" /\ stack' = Left(s, r).st
      /\ Changes(Left(s, r).heap) /\ own' = own
  BY <1>1
<1> HIDE DEF r
<1>5. /\ Left(s, r).st \in Seq(Slots) /\ Left(s, r).heap = r.heap /\ Left(s, r).end = r.end
      /\ Starts(s.m) /\ r.end # "error" => Left(s, r).st = stack
  BY <1>3, LeftFacts
<1> QED BY <1>3, <1>4, <1>5 DEF PathStep

LEMMA GetIsPathStep ==
    ASSUME TablesTyped, Get
    PROVE  PathStep
<1>1. PICK s \in Started, path \in Paths, type \in Types, mode \in LookupModes :
         \E l \in {Taken(Left(s, traverse_get(s.m, path, type, mode))),
                   Taken(Left(s, traverse_get_optional(s.m, path, type, mode)))} :
           l.end # "error" /\ stack' = l.st /\ Changes(l.heap) /\ own' = own
  BY DEF Get, Ends
<1> DEFINE g == traverse_get(s.m, path, type, mode)
           o == traverse_get_optional(s.m, path, type, mode)
<1>2. s.m \in Machines /\ path \in Seq(Keys) /\ path # <<>>
  BY StartedFacts, PathsAreSequences
<1>3. PICK r \in {g, o} :
         Taken(Left(s, r)).end # "error" /\ stack' = Taken(Left(s, r)).st
         /\ Changes(Taken(Left(s, r)).heap) /\ own' = own
  BY <1>1
<1>4. /\ r.st \in Seq(Slots) /\ r.heap \in Heaps
      /\ Starts(s.m) /\ r.end # "error" => r.st = s.m.st
  <2>1. /\ g.st \in Seq(Slots) /\ g.heap \in Heaps
        /\ Starts(s.m) /\ g.end # "error" => g.st = s.m.st
    BY <1>2, TraverseGetFacts
  <2>2. /\ o.st \in Seq(Slots) /\ o.heap \in Heaps
        /\ Starts(s.m) /\ o.end # "error" => o.st = s.m.st
    BY <1>2, TraverseOptionalFacts
  <2> QED BY <1>3, <2>1, <2>2
<1> HIDE DEF g, o
<1>5. /\ Left(s, r).st \in Seq(Slots) /\ Left(s, r).heap = r.heap /\ Left(s, r).end = r.end
      /\ Starts(s.m) /\ r.end # "error" => Left(s, r).st = stack
  BY <1>4, LeftFacts
<1>6. /\ Taken(Left(s, r)).st = Left(s, r).st /\ Taken(Left(s, r)).heap = Left(s, r).heap
      /\ Taken(Left(s, r)).end = IF r.end = "error" THEN r.end ELSE "go"
  BY <1>5 DEF Left, Taken
<1> QED BY <1>3, <1>4, <1>5, <1>6 DEF PathStep

\* Proxies, and what is asked only, leave nothing.
LEMMA PushedFacts ==
    ASSUME TablesTyped, NEW t \in Reachable(heap, stack)
    PROVE  /\ Starts(Pushed(t)) /\ Pushed(t).st = Append(stack, t)
           /\ Pushed(t).at = Len(Pushed(t).st) /\ Cut(Pushed(t).st, 1) = stack
           /\ t \in TableIds /\ t \in Slots /\ stack \in Seq(Slots)
           /\ [m |-> Pushed(t), pops |-> 1] \in Started
<1> DEFINE s == [m |-> Pushed(t), pops |-> 1]
<1>1. s \in Started
  BY DEF Started
<1>2. s.m = Pushed(t) /\ s.pops = 1
  OBVIOUS
<1>3. Starts(Pushed(t)) /\ Pushed(t).at = Len(stack) + 1
  BY <1>1, <1>2, StartedFacts
<1>4. Pushed(t).st = Append(stack, t)
  BY DEF Pushed, Machine
<1>5. t \in TableIds /\ t \in Slots /\ stack \in Seq(Slots)
  BY ReachFacts, ValuesAreSlots, TypesUnfold
<1> QED BY <1>1, <1>3, <1>4, <1>5, AppendFacts, CutAppend

LEMMA ProxyPushLeavesNothing ==
    ASSUME TablesTyped, NEW s \in Started, NEW path \in Paths, ProxyPush(s, path)
    PROVE  stack' = stack
<1> DEFINE m == s.m
           p == pushed_by(s, path)
<1>1. path \in Seq(Keys) /\ path # <<>> /\ stack \in Seq(Slots)
  BY PathsAreSequences, TypesUnfold
<1>2. p.end # "error" /\ stack' = Cut(p.st, 1)
  BY DEF ProxyPush
<1>3. CASE s.pops = 1
  <2> DEFINE v == Top(deep("tuple", m, path, "none")[Len(path)])
  <2>1. PICK t \in Reachable(heap, stack) : m = Pushed(t)
    BY <1>3, StartedFacts
  <2>2. Starts(m) /\ m.at = Len(m.st) /\ Cut(m.st, 1) = stack
    BY <2>1, PushedFacts
  <2>3. p = proxy_push(m, path)
    BY <1>3 DEF pushed_by
  <2>4. p.st = Append(Cut(m.st, 1), v) /\ v \in Slots
    BY <1>1, <1>2, <2>2, <2>3, ProxyFacts
  <2> HIDE DEF m, p, v
  <2> QED BY <1>1, <1>2, <2>2, <2>4, CutAppend
<1>4. CASE s.pops # 1
  <2>1. m \in Machines /\ m.end = "go" /\ m.heap = heap /\ m.st = stack
    BY <1>4, StartedFacts
  <2>2. p = proxy_push_in_place(m, path)
    BY <1>4 DEF pushed_by
  <2> DEFINE v == Lookup(m.heap, Globals, path)
  <2>3. IF v = "error" THEN p.end = v ELSE p.st = Append(m.st, v) /\ v \in Slots
    BY <1>1, <2>1, <2>2, InPlaceAgrees
  <2> HIDE DEF m, p, v
  <2> QED BY <1>1, <1>2, <2>1, <2>3, CutAppend
<1> QED BY <1>3, <1>4

\* What asking does to the stack.
AskStep ==
    /\ stack' \in Seq(Slots) /\ UNCHANGED <<heap, own, walks>>
    /\ (\A s \in Started : Starts(s.m)) => stack' = stack

LEMMA ForceIsPathStep ==
    ASSUME TablesTyped, NEW s \in Started, NEW path \in Paths, ForceProxy(s, path)
    PROVE  AskStep \/ PathStep
<1> DEFINE m == s.m
           asked == valid(m, path)
           again == [m EXCEPT !.st = asked.st]
           u == New(again)
           setting == traverse_set(again, path, u, "none")
<1>1. path \in Seq(Keys) /\ path # <<>>
  BY PathsAreSequences
<1>2. /\ m \in Machines /\ stack \in Seq(Slots) /\ asked.st \in Seq(Slots)
      /\ Starts(m) => asked.st = m.st
  BY <1>1, StartedFacts, TypesUnfold, ValidTyped, ValidStands
<1>3. /\ again \in Machines /\ again.st = asked.st
      /\ Starts(m) => again = m
  <2> HIDE DEF asked, m
  <2> QED BY <1>2 DEF Machines
<1>4. IF asked.end = "yes"
      THEN stack' = Left(s, asked).st /\ UNCHANGED <<heap, own, walks>>
      ELSE Spare(again) # {} /\ Ends({Left(s, setting)})
  BY DEF ForceProxy, Left
<1>5. CASE asked.end = "yes"
  <2>1. stack' = Left(s, asked).st /\ UNCHANGED <<heap, own, walks>>
    BY <1>4, <1>5
  <2>2. Starts(s.m) /\ asked.end # "error" => asked.st = s.m.st
    BY <1>2
  <2>3. asked.end # "error"
    BY <1>5
  <2> HIDE DEF asked, m, again, setting
  <2>4. Left(s, asked).st \in Seq(Slots) /\ (Starts(s.m) => Left(s, asked).st = stack)
    BY <1>2, <2>2, <2>3, LeftFacts
  <2> QED BY <2>1, <2>4 DEF AskStep
<1>6. CASE asked.end # "yes"
  <2>1. Spare(again) # {} /\ Ends({Left(s, setting)})
    BY <1>4, <1>6
  <2>2. u \in FieldValues
    <3> HIDE DEF again
    <3> QED BY <1>3, <2>1, SpareFacts, ValuesAreSlots
  <2>3. /\ setting.st \in Seq(Slots) /\ setting.heap \in Heaps
        /\ Starts(again) /\ setting.end # "error" => setting.st = again.st
    <3> HIDE DEF again, u
    <3> QED BY <1>1, <1>3, <2>2, TraverseSetFacts
  <2>4. Starts(s.m) /\ setting.end # "error" => setting.st = s.m.st
    <3> HIDE DEF setting, again
    <3> QED BY <1>3, <2>3
  <2> HIDE DEF setting, again, m
  <2>5. /\ Left(s, setting).end # "error" /\ stack' = Left(s, setting).st
        /\ Changes(Left(s, setting).heap) /\ own' = own
    BY <2>1 DEF Ends
  <2>6. /\ Left(s, setting).st \in Seq(Slots) /\ Left(s, setting).heap = setting.heap
        /\ Left(s, setting).end = setting.end
        /\ Starts(s.m) /\ setting.end # "error" => Left(s, setting).st = stack
    BY <2>3, <2>4, LeftFacts
  <2> QED BY <2>3, <2>5, <2>6 DEF PathStep
<1> QED BY <1>5, <1>6

LEMMA FilledKeys ==
    ASSUME NEW h, NEW t
    PROVE  Filled(h, t) \subseteq Keys
BY DEF Filled

LEMMA WalkFacts ==
    ASSUME TablesTyped, NEW w \in Walks, Active(w)
    PROVE  walks[w] \in Walk
BY TypesUnfold DEF Active

\* A walk before its first step.
FreshWalk(w, kind, t, i) ==
    /\ w \in Walk /\ w.kind = kind /\ w.table = t /\ w.tableidx = i /\ ~w.ended
    /\ w.seen = <<>> /\ w.key = LuaNil /\ w.always = Filled(heap, t)

LEMMA NewWalkFacts ==
    ASSUME NEW kind \in {"iterator", "for_each"}, NEW t \in TableIds, NEW i \in Nat
    PROVE  /\ FreshWalk(NewWalk(kind, t, TRUE, i), kind, t, i) /\ NewWalk(kind, t, TRUE, i).pushed
           /\ FreshWalk(NewWalk(kind, t, FALSE, i), kind, t, i) /\ ~NewWalk(kind, t, FALSE, i).pushed
<1>1. <<>> \in Seq(Keys)
  BY EmptySeq
<1>2. Filled(heap, t) \in SUBSET Keys
  BY FilledKeys
<1> DEFINE F == Filled(heap, t)
           e == <<>>
           x == NewWalk(kind, t, TRUE, i)
           y == NewWalk(kind, t, FALSE, i)
<1>3. /\ x = [kind |-> kind, pushed |-> TRUE, table |-> t, tableidx |-> i, keyidx |-> 0,
               ended |-> FALSE, key |-> LuaNil, seen |-> e, always |-> F]
      /\ y = [kind |-> kind, pushed |-> FALSE, table |-> t, tableidx |-> i, keyidx |-> 0,
               ended |-> FALSE, key |-> LuaNil, seen |-> e, always |-> F]
      /\ e \in Seq(Keys) /\ F \in SUBSET Keys
  BY <1>1, <1>2 DEF NewWalk
<1> HIDE DEF F, e, x, y
<1>4. x \in Walk /\ y \in Walk
  BY <1>3 DEF Walk
<1>5. /\ x.kind = kind /\ x.table = t /\ x.tableidx = i /\ ~x.ended /\ x.seen = e
      /\ x.key = LuaNil /\ x.always = F /\ x.pushed
  BY <1>3
<1>6. /\ y.kind = kind /\ y.table = t /\ y.tableidx = i /\ ~y.ended /\ y.seen = e
      /\ y.key = LuaNil /\ y.always = F /\ ~y.pushed
  BY <1>3
<1>7. FreshWalk(x, kind, t, i) /\ x.pushed /\ FreshWalk(y, kind, t, i) /\ ~y.pushed
  BY <1>4, <1>5, <1>6 DEF FreshWalk, e, F
<1> QED BY <1>7 DEF x, y

\* A change of fields leaves everything of a walk but what it remembers.
LEMMA ChangesFacts ==
    ASSUME TablesTyped, NEW h \in Heaps, Changes(h)
    PROVE  /\ heap' = Collected(h, stack') /\ heap' \in Heaps
           /\ walks' \in [Walks -> Walk \cup {Gone}]
           /\ \A w \in Walks : ~Active(w) => walks'[w] = Gone
           /\ \A w \in Walks : Active(w) =>
                 walks'[w] = [walks[w] EXCEPT !.always = @ \cap Filled(h, walks[w].table)]
<1>1. /\ heap' = Collected(h, stack')
      /\ walks' = [w \in Walks |->
                      IF ~Active(w) THEN Gone
                      ELSE [walks[w] EXCEPT !.always = @ \cap Filled(h, walks[w].table)]]
  BY DEF Changes
<1>2. heap' \in Heaps
  BY <1>1, CollectedFacts
<1>3. ASSUME NEW w \in Walks, Active(w)
      PROVE  [walks[w] EXCEPT !.always = @ \cap Filled(h, walks[w].table)] \in Walk
  <2> DEFINE r == walks[w]
             F == r.always \cap Filled(h, r.table)
  <2>1. r \in Walk
    BY <1>3, WalkFacts
  <2>2. F \in SUBSET Keys
    BY FilledKeys
  <2>3. [r EXCEPT !.always = F] \in Walk
    <3> HIDE DEF r, F
    <3> QED BY <2>1, <2>2 DEF Walk
  <2> QED BY <2>3
<1> QED BY <1>1, <1>2, <1>3

LEMMA DroppedTyped ==
    ASSUME NEW st \in Seq(Slots), NEW w \in Walk, w.tableidx <= Len(st), w.keyidx <= Len(st)
    PROVE  Dropped(st, w) \in Seq(Slots)
<1> DEFINE mid == IF w.keyidx # -1 THEN removed(st, w.keyidx) ELSE st
<1>1. w.tableidx \in Nat /\ w.keyidx \in Nat \cup {-1} /\ Len(st) \in Nat
  BY LenProperties DEF Walk
<1>2. mid \in Seq(Slots) /\ Len(mid) >= Len(st) - 1
  <2>1. CASE w.keyidx # -1
    <3>1. w.keyidx \in Nat /\ w.keyidx <= Len(st) + 1
      BY <1>1, <2>1
    <3> QED BY <2>1, <3>1, RemovedFacts
  <2>2. CASE w.keyidx = -1
    BY <1>1, <2>2
  <2> QED BY <2>1, <2>2
<1>3. Dropped(st, w) = removed(mid, w.tableidx)
  BY DEF Dropped
<1> HIDE DEF mid
<1>4. w.tableidx <= Len(mid) + 1
  BY <1>1, <1>2, LenProperties
<1> QED BY <1>1, <1>2, <1>3, <1>4, RemovedFacts

\* Cutting the value on the top, where it is the one to be removed.
LEMMA TopRemoved ==
    ASSUME NEW st \in Seq(Slots), NEW v \in Slots
    PROVE  removed(Append(st, v), Len(st) + 1) = st
<1>1. Len(Append(st, v)) = Len(st) + 1
  BY AppendFacts
<1> QED BY <1>1, CutAppend DEF removed

\* What begin() pushes, and what empty() makes of it.
LEMMA BegunFacts ==
    ASSUME TablesTyped, NEW t \in Reachable(heap, stack)
    PROVE  LET w == NewWalk("iterator", t, TRUE, Len(stack) + 1)
               st == stack \o <<t, LuaNil>>
           IN  /\ FreshWalk(w, "iterator", t, Len(stack) + 1) /\ w.pushed
               /\ w \in Walk /\ st \in Seq(Slots) /\ Cut(st, 1) = Append(stack, t)
               /\ Append(stack, t) \in Seq(Slots) /\ Len(Append(stack, t)) = Len(stack) + 1
               /\ st[w.tableidx] = t /\ Last(st) = LuaNil /\ t \in TableIds
               /\ stack \in Seq(Slots) /\ Len(stack) \in Nat
<1> DEFINE b == Append(stack, t)
           w == NewWalk("iterator", t, TRUE, Len(stack) + 1)
           st == stack \o <<t, LuaNil>>
<1>1. stack \in Seq(Slots) /\ t \in TableIds /\ t \in Slots /\ LuaNil \in Slots
      /\ Len(stack) \in Nat
  BY TypesUnfold, ReachFacts, ValuesAreSlots, LenProperties
<1>2. st = Append(b, LuaNil)
  BY <1>1, TwoMore
<1>3. b \in Seq(Slots) /\ Len(b) = Len(stack) + 1 /\ b[Len(stack) + 1] = t
  BY <1>1, AppendFacts
<1>4. w \in Walk /\ w.tableidx = Len(stack) + 1 /\ w.pushed
      /\ FreshWalk(w, "iterator", t, Len(stack) + 1)
  <2> DEFINE i == Len(stack) + 1
             it == "iterator"
  <2>1. i \in Nat /\ it \in {"iterator", "for_each"}
    BY <1>1
  <2>2. FreshWalk(NewWalk(it, t, TRUE, i), it, t, i) /\ NewWalk(it, t, TRUE, i).pushed
    <3> HIDE DEF i, it
    <3> QED BY <1>1, <2>1, NewWalkFacts
  <2> QED BY <2>2 DEF FreshWalk
<1> HIDE DEF st, b, w
<1>5. st \in Seq(Slots) /\ Cut(st, 1) = b /\ Last(st) = LuaNil /\ \A i \in 1 .. Len(b) : st[i] = b[i]
  BY <1>1, <1>2, <1>3, AppendFacts, CutAppend
<1>6. st[w.tableidx] = t
  BY <1>1, <1>3, <1>4, <1>5
<1> QED BY <1>1, <1>3, <1>4, <1>5, <1>6 DEF st, b, w

LEMMA AskEmptyLeavesNothing ==
    ASSUME TablesTyped, NEW t \in Reachable(heap, stack), AskEmpty(t)
    PROVE  stack' = stack
<1> DEFINE w == NewWalk("iterator", t, TRUE, Len(stack) + 1)
           st == stack \o <<t, LuaNil>>
           b == Append(stack, t)
           one == 1
           s == Stepped(st, w, one)
           k == NextKey(st, w)
<1>1. /\ w \in Walk /\ st \in Seq(Slots) /\ Cut(st, 1) = b /\ b \in Seq(Slots)
      /\ Len(b) = Len(stack) + 1 /\ t \in Slots /\ stack \in Seq(Slots) /\ Len(stack) \in Nat
  BY BegunFacts, ValuesAreSlots
<1>2. w.tableidx = Len(stack) + 1
  BY DEF NewWalk
<1>3. stack' = Dropped(s.st, s.w)
  BY DEF AskEmpty, IsEmpty
<1>4. removed(b, Len(stack) + 1) = stack
  BY <1>1, TopRemoved
<1> HIDE DEF w, st, s, k
<1>5. one \in {1, 2} /\ one # 2
  OBVIOUS
<1> HIDE DEF one
<1>6. /\ AtEnd(st, w) => s.st = Cut(st, 1) /\ s.w = Ended(w)
      /\ ~AtEnd(st, w) => /\ s.w = Met(w, Len(Cut(st, 1)) + 1, k)
                          /\ s.st = IF one = 2 THEN Append(Append(Cut(st, 1), k), Handed)
                                    ELSE Append(Cut(st, 1), k)
  BY <1>1, <1>5, SteppedFacts DEF s, k
<1> HIDE DEF b
<1>7. CASE AtEnd(st, w)
  <2>1. s.st = b /\ s.w.keyidx = -1 /\ s.w.tableidx = Len(stack) + 1
    BY <1>1, <1>2, <1>6, <1>7, EndedFacts
  <2> QED BY <1>3, <1>4, <2>1 DEF Dropped
<1>8. CASE ~AtEnd(st, w)
  <2>1. k \in Keys /\ k \in Slots
    BY <1>8, NextKeyFacts, ValuesAreSlots DEF k
  <2>2. s.st = Append(b, k) /\ s.w = Met(w, Len(b) + 1, k)
    BY <1>1, <1>5, <1>6, <1>8
  <2>3. Len(b) + 1 \in Nat /\ Len(b) + 1 # -1
    BY <1>1
  <2> DEFINE n == Len(b) + 1
  <2>4. s.w.keyidx = n /\ s.w.tableidx = Len(stack) + 1
    <3>1. n \in Nat /\ s.w = Met(w, n, k)
      BY <2>2, <2>3
    <3> HIDE DEF n
    <3>2. Met(w, n, k).keyidx = n /\ Met(w, n, k).tableidx = w.tableidx
      BY <1>1, <2>1, <3>1, MetFacts, Zenon
    <3> QED BY <1>2, <3>1, <3>2
  <2>5. removed(Append(b, k), n) = b
    BY <1>1, <2>1, TopRemoved
  <2> QED BY <1>3, <1>4, <2>2, <2>3, <2>4, <2>5 DEF Dropped
<1> QED BY <1>7, <1>8

\* What every step does that takes a walk further or ends one.
LEMMA CollectedTyped ==
    ASSUME TablesTyped, heap' = Collected(heap, stack')
    PROVE  heap' \in Heaps
BY TypesUnfold, CollectedFacts

LEMMA WalkStored ==
    ASSUME TablesTyped, NEW w \in Walks, NEW r \in Walk \cup {Gone},
           walks' = [walks EXCEPT ![w] = r]
    PROVE  /\ walks' \in [Walks -> Walk \cup {Gone}] /\ walks'[w] = r
           /\ \A v \in Walks \ {w} : walks'[v] = walks[v]
BY TypesUnfold

LEMMA PathStepTyped ==
    ASSUME TablesTyped, PathStep
    PROVE  TablesTyped'
<1>1. PICK st \in Seq(Slots), h \in Heaps : stack' = st /\ Changes(h) /\ own' = own
  BY DEF PathStep
<1>2. heap' \in Heaps /\ walks' \in [Walks -> Walk \cup {Gone}]
  BY <1>1, ChangesFacts
<1> QED BY <1>1, <1>2, TypesUnfold DEF TablesTyped, Slots, Heaps

LEMMA BeginTyped ==
    ASSUME TablesTyped, NEW w \in Walks, NEW t \in Reachable(heap, stack), Begin(w, t)
    PROVE  TablesTyped'
<1> DEFINE nw == NewWalk("iterator", t, TRUE, Len(stack) + 1)
           st == stack \o <<t, LuaNil>>
           one == 1
           s == Stepped(st, nw, one)
<1>1. stack' = s.st /\ walks' = [walks EXCEPT ![w] = s.w] /\ heap' = Collected(heap, stack') /\ own' = own
  BY DEF Begin
<1>2. nw \in Walk /\ st \in Seq(Slots)
  BY BegunFacts
<1>3. one \in {1, 2}
  OBVIOUS
<1> HIDE DEF nw, st, one
<1>4. s.st \in Seq(Slots) /\ s.w \in Walk
  BY <1>2, <1>3, SteppedFacts
<1> HIDE DEF s
<1>5. heap' \in Heaps /\ walks' \in [Walks -> Walk \cup {Gone}]
  BY <1>1, <1>4, CollectedTyped, WalkStored
<1> QED BY <1>1, <1>4, <1>5, TypesUnfold DEF TablesTyped, Slots, Heaps

\* for_each begins in the same way; its table may lie at i.
LEMMA BegunEachFacts ==
    ASSUME TablesTyped, NEW t \in Reachable(heap, stack), NEW i \in Nat
    PROVE  LET st == IF i = 0 THEN Append(stack, t) ELSE stack
               w  == NewWalk("for_each", t, i = 0, IF i = 0 THEN Len(st) ELSE i)
           IN  /\ FreshWalk(w, "for_each", t, IF i = 0 THEN Len(st) ELSE i)
               /\ w.pushed <=> i = 0
               /\ w \in Walk /\ Append(st, LuaNil) \in Seq(Slots)
               /\ Cut(Append(st, LuaNil), 1) = st /\ Last(Append(st, LuaNil)) = LuaNil
               /\ st \in Seq(Slots) /\ t \in TableIds
<1> DEFINE st == IF i = 0 THEN Append(stack, t) ELSE stack
           j == IF i = 0 THEN Len(st) ELSE i
           x == NewWalk("for_each", t, TRUE, j)
           y == NewWalk("for_each", t, FALSE, j)
           w == NewWalk("for_each", t, i = 0, j)
<1>1. stack \in Seq(Slots) /\ t \in TableIds /\ t \in Slots /\ LuaNil \in Slots
  BY TypesUnfold, ReachFacts, ValuesAreSlots
<1>2. st \in Seq(Slots)
  BY <1>1, AppendFacts
<1>3. j \in Nat
  BY <1>2, LenProperties
<1>4. (i = 0 => w = x) /\ (i # 0 => w = y)
  BY DEF NewWalk
<1>5. Append(st, LuaNil) \in Seq(Slots) /\ Cut(Append(st, LuaNil), 1) = st
      /\ Last(Append(st, LuaNil)) = LuaNil
  <2> HIDE DEF st
  <2> QED BY <1>1, <1>2, AppendFacts, CutAppend
<1>6. FreshWalk(x, "for_each", t, j) /\ x.pushed /\ FreshWalk(y, "for_each", t, j) /\ ~y.pushed
  <2> DEFINE it == "for_each"
  <2>1. it \in {"iterator", "for_each"}
    OBVIOUS
  <2> HIDE DEF j, it
  <2>2. /\ FreshWalk(NewWalk(it, t, TRUE, j), it, t, j) /\ NewWalk(it, t, TRUE, j).pushed
        /\ FreshWalk(NewWalk(it, t, FALSE, j), it, t, j) /\ ~NewWalk(it, t, FALSE, j).pushed
    BY <1>1, <1>3, <2>1, NewWalkFacts
  <2> QED BY <2>2 DEF it
<1> HIDE DEF x, y, w, j, st
<1>7. FreshWalk(w, "for_each", t, j) /\ (w.pushed <=> i = 0)
  <2>1. CASE i = 0
    BY <1>4, <1>6, <2>1
  <2>2. CASE i # 0
    BY <1>4, <1>6, <2>2
  <2> QED BY <2>1, <2>2
<1>8. w \in Walk
  BY <1>7 DEF FreshWalk
<1> QED BY <1>1, <1>2, <1>5, <1>7, <1>8 DEF st, j, w

LEMMA BeginEachTyped ==
    ASSUME TablesTyped, NEW w \in Walks, NEW t \in Reachable(heap, stack), NEW i \in Nat,
           BeginEach(w, t, i)
    PROVE  TablesTyped'
<1> DEFINE st == IF i = 0 THEN Append(stack, t) ELSE stack
           nw == NewWalk("for_each", t, i = 0, IF i = 0 THEN Len(st) ELSE i)
           b == Append(st, LuaNil)
           two == 2
           s == Stepped(b, nw, two)
<1>1. stack' = s.st /\ walks' = [walks EXCEPT ![w] = s.w] /\ heap' = Collected(heap, stack') /\ own' = own
  BY DEF BeginEach
<1>2. nw \in Walk /\ b \in Seq(Slots)
  BY BegunEachFacts
<1>3. two \in {1, 2}
  OBVIOUS
<1> HIDE DEF nw, b, two
<1>4. s.st \in Seq(Slots) /\ s.w \in Walk
  BY <1>2, <1>3, SteppedFacts
<1> HIDE DEF s
<1>5. heap' \in Heaps /\ walks' \in [Walks -> Walk \cup {Gone}]
  BY <1>1, <1>4, CollectedTyped, WalkStored
<1> QED BY <1>1, <1>4, <1>5, TypesUnfold DEF TablesTyped, Slots, Heaps

\* One step of a walk from the stack st, of which it keeps the key and more.
WalkStep(w, st, keep) ==
    LET s == Stepped(st, walks[w], keep)
    IN  /\ stack' = s.st /\ walks' = [walks EXCEPT ![w] = s.w]
        /\ heap' = Collected(heap, stack') /\ UNCHANGED own

LEMMA WalkStepTyped ==
    ASSUME TablesTyped, NEW w \in Running, NEW st \in Seq(Slots), NEW keep \in {1, 2},
           WalkStep(w, st, keep)
    PROVE  TablesTyped'
<1> DEFINE s == Stepped(st, walks[w], keep)
<1>1. stack' = s.st /\ walks' = [walks EXCEPT ![w] = s.w] /\ heap' = Collected(heap, stack') /\ own' = own
  BY DEF WalkStep
<1>2. w \in Walks /\ walks[w] \in Walk
  BY WalkFacts DEF Running
<1>3. s.st \in Seq(Slots) /\ s.w \in Walk
  BY <1>2, SteppedFacts
<1> HIDE DEF s
<1>4. heap' \in Heaps /\ walks' \in [Walks -> Walk \cup {Gone}]
  BY <1>1, <1>2, <1>3, CollectedTyped, WalkStored
<1> QED BY <1>1, <1>3, <1>4, TypesUnfold DEF TablesTyped, Slots, Heaps

LEMMA WalkGoneTyped ==
    ASSUME TablesTyped, NEW w \in Walks, NEW st \in Seq(Slots), stack' = st,
           walks' = [walks EXCEPT ![w] = Gone], heap' = Collected(heap, stack'), UNCHANGED own
    PROVE  TablesTyped'
<1>1. heap' \in Heaps /\ walks' \in [Walks -> Walk \cup {Gone}]
  BY CollectedTyped, WalkStored
<1> QED BY <1>1, TypesUnfold DEF TablesTyped, Slots, Heaps

LEMMA TypesStep ==
    ASSUME TablesTyped, [TablesNext]_tablevars
    PROVE  TablesTyped'
<1>0. /\ stack \in Seq(Slots) /\ heap \in Heaps /\ own \in Seq(Nat) /\ Len(own) <= MaxHeld
      /\ walks \in [Walks -> Walk \cup {Gone}] /\ Len(stack) \in Nat
  BY TypesUnfold, LenProperties
<1> DEFINE one == 1
           two == 2
<1>n. one \in Nat /\ two \in Nat /\ one \in {1, 2} /\ two \in {1, 2}
  OBVIOUS
<1>1. ASSUME UNCHANGED stack, UNCHANGED <<heap, own, walks>> PROVE TablesTyped'
  BY <1>1 DEF TablesTyped
<1>2. CASE PushOwn
  <2>1. stack' = Append(stack, Root) /\ own' = Append(own, Len(stack) + 1) /\ MayHold
        /\ heap' = heap /\ walks' = walks
    BY <1>2 DEF PushOwn
  <2>2. Root \in Slots
    BY TablesAssumption, ValuesAreSlots
  <2>3. stack' \in Seq(Slots)
    BY <1>0, <2>1, <2>2, AppendProperties
  <2>4. Len(stack) + 1 \in Nat
    BY <1>0
  <2>5. own' \in Seq(Nat) /\ Len(own') = Len(own) + 1
    BY <1>0, <2>1, <2>4, AppendProperties
  <2>6. Len(own') <= MaxHeld
    BY <2>1, <2>5, OneMoreHeld
  <2> QED BY <1>0, <2>1, <2>3, <2>5, <2>6 DEF TablesTyped, Slots, Heaps
<1>3. CASE PopOwn
  <2>1. /\ stack' = Cut(stack, one) /\ own' = Cut(own, one) /\ own # <<>>
        /\ heap' = heap /\ walks' = walks
    BY <1>3 DEF PopOwn, Front, Cut
  <2>2. stack' \in Seq(Slots) /\ own' \in Seq(Nat)
    BY <1>0, <1>n, <2>1, CutFacts
  <2>3. Len(own') <= MaxHeld
    <3>1. Len(own) \in Nat \ {0} /\ MaxHeld \in Nat
      BY <1>0, <2>1, EmptySeq, TablesAssumption
    <3>2. one <= Len(own)
      BY <3>1
    <3>3. Len(own') = Len(own) - one
      <4> HIDE DEF one
      <4> QED BY <1>0, <1>n, <2>1, <3>2, CutFacts
    <3> QED BY <1>0, <3>1, <3>3
  <2> QED BY <1>0, <2>1, <2>2, <2>3 DEF TablesTyped, Slots, Heaps
<1>4. CASE Get \/ Set
  BY <1>4, GetIsPathStep, SetIsPathStep, PathStepTyped
<1>5. ASSUME NEW s \in Started, NEW path \in Paths, ProxyPush(s, path) PROVE TablesTyped'
  <2>1. stack' = stack
    BY <1>5, ProxyPushLeavesNothing
  <2> QED BY <1>1, <1>5, <2>1 DEF ProxyPush
<1>6. ASSUME NEW s \in Started, NEW path \in Paths, ForceProxy(s, path) PROVE TablesTyped'
  <2>1. CASE AskStep
    BY <1>0, <2>1 DEF AskStep, TablesTyped, Slots, Heaps
  <2>2. CASE PathStep
    BY <2>2, PathStepTyped
  <2> QED BY <1>6, <2>1, <2>2, ForceIsPathStep
<1>7. ASSUME NEW t \in Reachable(heap, stack), Clear(t) PROVE TablesTyped'
  <2>1. t \in TableIds
    BY ReachFacts
  <2>2. [heap EXCEPT ![t] = Empty] \in Heaps
    BY <1>0, <2>1, EmptyType DEF Heaps
  <2>3. Changes([heap EXCEPT ![t] = Empty]) /\ stack' = stack /\ own' = own
    BY <1>7 DEF Clear
  <2>4. heap' \in Heaps /\ walks' \in [Walks -> Walk \cup {Gone}]
    BY <2>2, <2>3, ChangesFacts
  <2> QED BY <1>0, <2>3, <2>4 DEF TablesTyped, Slots, Heaps
<1>8. ASSUME NEW t \in Reachable(heap, stack), AskEmpty(t) PROVE TablesTyped'
  <2>1. stack' = stack
    BY <1>8, AskEmptyLeavesNothing
  <2> QED BY <1>1, <1>8, <2>1 DEF AskEmpty
<1>9. ASSUME NEW t \in Reachable(heap, stack), NEW w \in Walks, Begin(w, t) PROVE TablesTyped'
  BY <1>9, BeginTyped
<1>10. ASSUME NEW t \in Reachable(heap, stack), NEW w \in Walks, BeginEach(w, t, 0) PROVE TablesTyped'
  BY <1>10, BeginEachTyped
<1>11. ASSUME NEW w \in Walks, NEW i \in 1 .. Len(own), BeginEach(w, Root, own[i]) PROVE TablesTyped'
  <2>1. own[i] \in Nat
    BY <1>0, ElementOfSeq
  <2>2. Root \in Reachable(heap, stack)
    BY ReachFacts DEF Roots
  <2> QED BY <1>11, <2>1, <2>2, BeginEachTyped
<1>12. ASSUME NEW w \in Running, Advance(w) PROVE TablesTyped'
  <2>1. WalkStep(w, stack, one)
    BY <1>12 DEF Advance, WalkStep
  <2> HIDE DEF one
  <2> QED BY <1>0, <1>n, <2>1, WalkStepTyped
<1>13. ASSUME NEW w \in Running, AdvanceEach(w) PROVE TablesTyped'
  <2>1. WalkStep(w, Cut(stack, one), two)
    BY <1>13 DEF AdvanceEach, WalkStep
  <2> HIDE DEF one, two
  <2>2. Cut(stack, one) \in Seq(Slots)
    BY <1>0, <1>n, CutFacts
  <2> QED BY <1>n, <2>1, <2>2, WalkStepTyped
<1>14. ASSUME NEW w \in Running, DropIterator(w) PROVE TablesTyped'
  <2>1. /\ Active(w) /\ walks[w].tableidx <= Len(stack) /\ walks[w].keyidx <= Len(stack)
        /\ stack' = Dropped(stack, walks[w]) /\ walks' = [walks EXCEPT ![w] = Gone]
        /\ heap' = Collected(heap, stack') /\ own' = own
    BY <1>14 DEF DropIterator
  <2>2. w \in Walks /\ walks[w] \in Walk
    BY <2>1, WalkFacts DEF Running
  <2>3. Dropped(stack, walks[w]) \in Seq(Slots)
    BY <1>0, <2>1, <2>2, DroppedTyped
  <2> QED BY <2>1, <2>2, <2>3, WalkGoneTyped
<1>15. ASSUME NEW w \in Running, NEW st \in Seq(Slots), LeftBy(w, st) PROVE TablesTyped'
  <2> DEFINE c == IF walks[w].pushed THEN Cut(st, one) ELSE st
  <2>1. /\ stack' = c /\ walks' = [walks EXCEPT ![w] = Gone]
        /\ heap' = Collected(heap, stack') /\ own' = own
    BY <1>15 DEF LeftBy
  <2>2. c \in Seq(Slots) /\ w \in Walks
    BY <1>n, CutFacts DEF Running
  <2> HIDE DEF c
  <2> QED BY <2>1, <2>2, WalkGoneTyped
<1>16. ASSUME NEW w \in Running, EndEach(w) PROVE TablesTyped'
  BY <1>0, <1>15, <1>16 DEF EndEach
<1>17. ASSUME NEW w \in Running, ThrowEach(w) PROVE TablesTyped'
  <2>1. LeftBy(w, Cut(stack, one))
    BY <1>17 DEF ThrowEach
  <2>2. Cut(stack, one) \in Seq(Slots)
    BY <1>0, <1>n, CutFacts
  <2> QED BY <1>15, <2>1, <2>2
<1>18. ASSUME NEW w \in Running, NEW v \in Walks \ Running, CopyWalk(v, w) PROVE TablesTyped'
  <2>1. /\ walks' = [walks EXCEPT ![v] = walks[w]] /\ stack' = stack /\ heap' = heap /\ own' = own
        /\ Active(w) /\ w \in Walks
    BY <1>18 DEF CopyWalk, Running
  <2>2. walks' \in [Walks -> Walk \cup {Gone}]
    BY <1>0, <2>1, WalkFacts
  <2> QED BY <1>0, <2>1, <2>2 DEF TablesTyped, Slots, Heaps
<1>19. CASE UNCHANGED tablevars
  BY <1>1, <1>19 DEF tablevars
<1> HIDE DEF one, two
<1> QED BY <1>2, <1>3, <1>4, <1>5, <1>6, <1>7, <1>8, <1>9, <1>10, <1>11, <1>12, <1>13, <1>14,
           <1>16, <1>17, <1>18, <1>19
        DEF TablesNext

LEMMA TypesInitially ==
    ASSUME TablesInit
    PROVE  TablesTyped
<1>1. stack = <<>> /\ own = <<>> /\ heap = [t \in TableIds |-> Empty] /\ walks = [w \in Walks |-> Gone]
  BY DEF TablesInit
<1>2. stack \in Seq(Slots) /\ own \in Seq(Nat) /\ Len(own) = 0
  BY <1>1, EmptySeq
<1>3. heap \in Heaps
  BY <1>1, EmptyType DEF Heaps
<1>4. Len(own) <= MaxHeld
  BY <1>2, TablesAssumption
<1> QED BY <1>1, <1>2, <1>3, <1>4, TypesUnfold

(***************************************************************************)
(* The types of the variables, whatever the program does: also with copied *)
(* iterators and iterators advanced under other values.                    *)
(***************************************************************************)
THEOREM TypesOfTables == TablesSpec => []TablesTyped
<1>1. TablesTyped /\ [TablesNext]_tablevars => TablesTyped'
  BY TypesStep
<1>2. TablesInit => TablesTyped
  BY TypesInitially
<1> QED BY <1>1, <1>2, PTL DEF TablesSpec

-----------------------------------------------------------------------------
(* The stack under the walks.                                              *)

Seats(r) ==
    (IF r.pushed THEN {r.tableidx} ELSE {})
    \cup (IF r.ended THEN {} ELSE
          r.keyidx .. r.keyidx + (IF r.kind = "for_each" THEN 1 ELSE 0))

\* A walk finds its table and its key where it looks for them.
Sits(r, st, ow) ==
    /\ r.ended => r.keyidx = -1
    /\ r.kind = "iterator" => r.pushed
    /\ Seats(r) \subseteq (1 .. Len(st)) \ ToSet(ow)
    /\ ~r.pushed => r.tableidx \in ToSet(ow)
    /\ st[r.tableidx] = r.table
    /\ ~r.ended => st[r.keyidx] = r.key
    /\ ~r.ended /\ r.kind = "for_each" => st[r.keyidx + 1] = Handed
    /\ ~r.ended /\ r.pushed => r.keyidx = r.tableidx + 1

OwnSeated ==
    /\ \A i \in ToSet(own) : i \in 1 .. Len(stack) /\ stack[i] = Root
    /\ \A i, j \in 1 .. Len(own) : own[i] = own[j] => i = j

Seated ==
    /\ OwnSeated
    /\ \A w \in Running : Sits(walks[w], stack, own)
    /\ \A w \in Running : \A v \in Running \ {w} : Seats(walks[v]) \cap Seats(walks[w]) = {}

\* No slot is left over.
Covered ==
    \A i \in 1 .. Len(stack) : i \in ToSet(own) \/ \E w \in Running : i \in Seats(walks[w])

LEMMA SeatFacts ==
    ASSUME NEW r \in Walk
    PROVE  /\ \A i : i \in Seats(r) <=> \/ r.pushed /\ i = r.tableidx
                                        \/ ~r.ended /\ i = r.keyidx
                                        \/ ~r.ended /\ r.kind = "for_each" /\ i = r.keyidx + 1
           /\ r.tableidx \in Nat /\ r.keyidx \in Int
           /\ r.kind \in {"iterator", "for_each"} /\ r.table \in TableIds
           /\ r.seen \in Seq(Keys) /\ r.key \in Keys \cup {LuaNil}
<1> DEFINE k == r.keyidx
           n == IF r.kind = "for_each" THEN 1 ELSE 0
<1>1. /\ r.tableidx \in Nat /\ k \in Int
      /\ r.kind \in {"iterator", "for_each"} /\ r.table \in TableIds
      /\ r.seen \in Seq(Keys) /\ r.key \in Keys \cup {LuaNil}
  BY DEF Walk
<1>2. \A i : i \in k .. k + n <=> i = k \/ (r.kind = "for_each" /\ i = k + 1)
  <2> HIDE DEF k
  <2>1. k .. k + 0 = {k} /\ k .. k + 1 = {k, k + 1}
    BY <1>1
  <2> QED BY <2>1
<1>3. Seats(r) = (IF r.pushed THEN {r.tableidx} ELSE {}) \cup (IF r.ended THEN {} ELSE k .. k + n)
  BY DEF Seats
<1> DEFINE K == k .. k + n
<1>4. /\ \A i : i \in K <=> i = k \/ (r.kind = "for_each" /\ i = k + 1)
      /\ Seats(r) = (IF r.pushed THEN {r.tableidx} ELSE {}) \cup (IF r.ended THEN {} ELSE K)
  BY <1>2, <1>3
<1> HIDE DEF K
<1>5. \A i : i \in Seats(r) <=> \/ r.pushed /\ i = r.tableidx
                                \/ ~r.ended /\ i = k
                                \/ ~r.ended /\ r.kind = "for_each" /\ i = k + 1
  BY <1>4
<1> QED BY <1>1, <1>5

LEMMA RunningWalks ==
    ASSUME TablesTyped, NEW w \in Running
    PROVE  w \in Walks /\ walks[w] \in Walk /\ walks[w] # Gone
BY WalkFacts DEF Running, Active

LEMMA OwnIdx ==
    ASSUME TablesTyped
    PROVE  /\ \A i \in ToSet(own) : i \in Nat /\ \E j \in 1 .. Len(own) : own[j] = i
           /\ \A j \in 1 .. Len(own) : own[j] \in ToSet(own)
           /\ own \in Seq(Nat) /\ Len(own) \in Nat /\ stack \in Seq(Slots) /\ Len(stack) \in Nat
<1>1. own \in Seq(Nat) /\ DOMAIN own = 1 .. Len(own) /\ Len(own) \in Nat
      /\ stack \in Seq(Slots) /\ Len(stack) \in Nat
  BY TypesUnfold, LenProperties
<1>2. \A j \in 1 .. Len(own) : own[j] \in Nat
  BY <1>1, ElementOfSeq
<1> QED BY <1>1, <1>2 DEF ToSet

\* Every operation on a path begins at a table that lies on the stack.
LEMMA AllStart ==
    ASSUME TablesTyped, OwnSeated, NEW s \in Started
    PROVE  Starts(s.m)
<1>1. CASE s.pops = 1
  <2>1. s.pops # 0
    BY <1>1
  <2> QED BY <2>1, StartedFacts
<1>2. CASE s.pops # 1
  <2>1. s.m \in Machines /\ s.m.end = "go" /\ s.m.count = 0 /\ s.m.st = stack
        /\ \E i \in 1 .. Len(own) : s.m.at = own[i]
    BY <1>2, StartedFacts
  <2>2. s.m.at \in 1 .. Len(s.m.st) /\ s.m.st[s.m.at] = Root
    BY <2>1, OwnIdx DEF OwnSeated
  <2> QED BY <2>1, <2>2, TablesAssumption DEF Starts, At
<1> QED BY <1>1, <1>2

\* Where the stack stays, and of the walks only what they remember changes.
Alike(r, q) ==
    /\ q.kind = r.kind /\ q.pushed = r.pushed /\ q.table = r.table /\ q.tableidx = r.tableidx
    /\ q.keyidx = r.keyidx /\ q.ended = r.ended /\ q.key = r.key /\ q.seen = r.seen

LEMMA ChangesAlike ==
    ASSUME TablesTyped, NEW h \in Heaps, Changes(h)
    PROVE  /\ Running' = Running
           /\ \A w \in Running : /\ Alike(walks[w], walks'[w])
                                 /\ walks'[w] \in Walk
                                 /\ walks'[w].always = walks[w].always \cap Filled(h, walks[w].table)
<1>1. \A w \in Walks : ~Active(w) => walks'[w] = Gone
  BY ChangesFacts
<1>2. \A w \in Walks : Active(w) =>
         walks'[w] = [walks[w] EXCEPT !.always = @ \cap Filled(h, walks[w].table)]
  BY ChangesFacts
<1>3. ASSUME NEW w \in Running
      PROVE  /\ Alike(walks[w], walks'[w])
             /\ walks'[w] \in Walk /\ walks'[w] # Gone
             /\ walks'[w].always = walks[w].always \cap Filled(h, walks[w].table)
  <2> DEFINE r == walks[w]
             F == r.always \cap Filled(h, r.table)
             q == walks'[w]
  <2>1. r \in Walk /\ w \in Walks /\ Active(w)
    BY RunningWalks DEF Running
  <2>2. F \in SUBSET Keys /\ q = [r EXCEPT !.always = F]
    BY <1>2, <2>1, FilledKeys
  <2> HIDE DEF r, F, q
  <2>3. q \in Walk /\ Alike(r, q) /\ q.always = F
    BY <2>1, <2>2 DEF Walk, Alike
  <2>4. q.kind \in {"iterator", "for_each"} /\ Gone.kind = "gone"
    BY <2>3, SeatFacts DEF Gone
  <2>5. q # Gone
    BY <2>4
  <2> QED BY <2>3, <2>5 DEF r, q, F
<1>4. Running' = Running
  <2>1. ASSUME NEW w \in Walks PROVE w \in Running' <=> w \in Running
    <3>1. CASE w \in Running
      BY <1>3, <3>1 DEF Running, Active
    <3>2. CASE w \notin Running
      BY <1>1, <3>2 DEF Running, Active
    <3> QED BY <3>1, <3>2
  <2> QED BY <2>1 DEF Running
<1> QED BY <1>3, <1>4

LEMMA SeatedAlike ==
    ASSUME TablesTyped, Seated, Running' = Running, stack' = stack, own' = own,
           \A w \in Running : Alike(walks[w], walks'[w])
    PROVE  Seated' /\ (Covered => Covered')
<1>1. ASSUME NEW w \in Running
      PROVE  Seats(walks'[w]) = Seats(walks[w]) /\ (Sits(walks[w], stack, own) => Sits(walks'[w], stack, own))
  <2> DEFINE r == walks[w]
             q == walks'[w]
  <2>1. Alike(r, q)
    OBVIOUS
  <2> HIDE DEF r, q
  <2>2. Seats(q) = Seats(r)
    BY <2>1 DEF Alike, Seats
  <2>3. Sits(r, stack, own) => Sits(q, stack, own)
    BY <2>1, <2>2 DEF Alike, Sits
  <2> QED BY <2>2, <2>3 DEF r, q
<1>2. OwnSeated'
  BY DEF Seated, OwnSeated
<1>3. \A w \in Running' : Sits(walks[w], stack, own)'
  BY <1>1 DEF Seated
<1>4. (\A w \in Running : \A v \in Running \ {w} : Seats(walks[v]) \cap Seats(walks[w]) = {})'
  BY <1>1 DEF Seated
<1>5. Covered => Covered'
  BY <1>1 DEF Covered
<1> QED BY <1>2, <1>3, <1>4, <1>5 DEF Seated

LEMMA PathStepSeated ==
    ASSUME TablesTyped, Seated, PathStep
    PROVE  stack' = stack /\ Seated' /\ (Covered => Covered')
<1>1. PICK st \in Seq(Slots), h \in Heaps :
         /\ stack' = st /\ Changes(h) /\ own' = own
         /\ (\A s \in Started : Starts(s.m)) => st = stack
  BY DEF PathStep
<1>2. \A s \in Started : Starts(s.m)
  BY AllStart DEF Seated
<1>3. stack' = stack
  BY <1>1, <1>2
<1>4. Running' = Running /\ \A w \in Running : Alike(walks[w], walks'[w])
  BY <1>1, ChangesAlike
<1> QED BY <1>1, <1>3, <1>4, SeatedAlike

LEMMA AskLeavesNothing ==
    ASSUME TablesTyped, Seated, AskStep
    PROVE  UNCHANGED tablevars
<1>1. \A s \in Started : Starts(s.m)
  BY AllStart DEF Seated
<1> QED BY <1>1 DEF AskStep, tablevars

\* The slots the walk w gives up, and those of its new record r.
Given(w) == IF Active(w) THEN Seats(walks[w]) ELSE {}
Taking(r) == IF r = Gone THEN {} ELSE Seats(r)

\* One walk takes a step, begins or ends; the slots of the others stay.
LEMMA WalkChanged ==
    ASSUME TablesTyped, Seated, NEW w \in Walks, NEW r \in Walk \cup {Gone},
           walks' = [walks EXCEPT ![w] = r], own' = own, stack' \in Seq(Slots),
           \A i \in (1 .. Len(stack)) \ Given(w) : i \in 1 .. Len(stack') /\ stack'[i] = stack[i],
           r # Gone => Sits(r, stack', own),
           \A i \in Taking(r) : i \in Given(w) \/ i \notin 1 .. Len(stack)
    PROVE  /\ Seated'
           /\ (Covered /\ \A i \in 1 .. Len(stack') :
                             i \notin 1 .. Len(stack) \/ i \in Given(w) => i \in Taking(r))
              => Covered'
<1>1. /\ walks' \in [Walks -> Walk \cup {Gone}] /\ walks'[w] = r
      /\ \A v \in Walks \ {w} : walks'[v] = walks[v]
  BY WalkStored
<1>2. \A v \in Walks \ {w} : v \in Running' <=> v \in Running
  BY <1>1 DEF Running, Active
<1>3. w \in Running' <=> r # Gone
  BY <1>1 DEF Running, Active
<1>4. /\ \A v \in Running : Sits(walks[v], stack, own)
      /\ \A v \in Running : \A u \in Running \ {v} : Seats(walks[u]) \cap Seats(walks[v]) = {}
      /\ OwnSeated
  BY DEF Seated
<1>5. ASSUME NEW v \in Running \ {w} PROVE Seats(walks[v]) \cap Given(w) = {}
  <2>1. CASE Active(w)
    BY <1>4, <1>5, <2>1 DEF Given, Running
  <2>2. CASE ~Active(w)
    BY <2>2 DEF Given
  <2> QED BY <2>1, <2>2
<1>6. Given(w) \cap ToSet(own) = {}
  <2>1. CASE Active(w)
    <3>1. Sits(walks[w], stack, own)
      BY <1>4, <2>1 DEF Running
    <3> QED BY <2>1, <3>1 DEF Given, Sits
  <2>2. CASE ~Active(w)
    BY <2>2 DEF Given
  <2> QED BY <2>1, <2>2
<1>7. OwnSeated'
  <2>1. \A i \in ToSet(own) : i \in 1 .. Len(stack') /\ stack'[i] = Root
    BY <1>4, <1>6 DEF OwnSeated
  <2> QED BY <1>4, <2>1 DEF OwnSeated
<1>8. ASSUME NEW v \in Running \ {w}
      PROVE  Sits(walks[v], stack', own)
  <2> DEFINE q == walks[v]
  <2>1. q \in Walk
    BY RunningWalks
  <2>2. Sits(q, stack, own) /\ Seats(q) \cap Given(w) = {}
    BY <1>4, <1>5
  <2>3. \A i \in Seats(q) : i \in 1 .. Len(stack) /\ i \notin Given(w) /\ i \notin ToSet(own)
    BY <2>2 DEF Sits
  <2>4. \A i \in Seats(q) : i \in 1 .. Len(stack') /\ stack'[i] = stack[i]
    BY <2>3
  <2>5. \A i \in ToSet(own) : i \in 1 .. Len(stack') /\ stack'[i] = stack[i]
    BY <1>4, <1>6 DEF OwnSeated
  <2> HIDE DEF q
  <2>6. /\ q.pushed => q.tableidx \in Seats(q)
        /\ ~q.ended => q.keyidx \in Seats(q)
        /\ ~q.ended /\ q.kind = "for_each" => q.keyidx + 1 \in Seats(q)
    BY <2>1, SeatFacts
  <2>7. stack'[q.tableidx] = q.table
    BY <2>2, <2>4, <2>5, <2>6 DEF Sits
  <2>8. Seats(q) \subseteq (1 .. Len(stack')) \ ToSet(own)
    BY <2>3, <2>4
  <2>9. /\ ~q.ended => stack'[q.keyidx] = q.key
        /\ ~q.ended /\ q.kind = "for_each" => stack'[q.keyidx + 1] = Handed
    BY <2>2, <2>4, <2>6 DEF Sits
  <2>10. Sits(q, stack', own)
    BY <2>2, <2>7, <2>8, <2>9 DEF Sits
  <2> QED BY <2>10 DEF q
<1>9. \A v \in Running' : Sits(walks'[v], stack', own)
  BY <1>1, <1>2, <1>3, <1>8 DEF Running
<1>10. ASSUME NEW v \in Running \ {w}, r # Gone PROVE Seats(walks[v]) \cap Seats(r) = {}
  <2>1. Taking(r) = Seats(r)
    BY <1>10 DEF Taking
  <2>2. \A i \in Seats(walks[v]) : i \in 1 .. Len(stack) /\ i \notin Given(w)
    BY <1>4, <1>5, <1>10 DEF Sits
  <2> QED BY <2>1, <2>2
<1>11. ASSUME NEW v \in Running', NEW u \in Running' \ {v}
       PROVE  Seats(walks'[u]) \cap Seats(walks'[v]) = {}
  <2>0. v \in Walks /\ u \in Walks
    BY DEF Running
  <2>1. CASE v = w
    <3>1. u \in Running \ {w} /\ walks'[u] = walks[u] /\ walks'[v] = r /\ r # Gone
      BY <1>1, <1>2, <1>3, <2>0, <2>1
    <3> QED BY <1>10, <3>1
  <2>2. CASE u = w
    <3>1. v \in Running \ {w} /\ walks'[v] = walks[v] /\ walks'[u] = r /\ r # Gone
      BY <1>1, <1>2, <1>3, <2>0, <2>2
    <3> QED BY <1>10, <3>1
  <2>3. CASE v # w /\ u # w
    <3>1. v \in Running /\ u \in Running /\ walks'[v] = walks[v] /\ walks'[u] = walks[u]
      BY <1>1, <1>2, <2>0, <2>3
    <3> QED BY <1>4, <3>1
  <2> QED BY <2>1, <2>2, <2>3
<1>12. Seated'
  BY <1>7, <1>9, <1>11 DEF Seated
<1>13. ASSUME Covered,
              \A i \in 1 .. Len(stack') :
                 i \notin 1 .. Len(stack) \/ i \in Given(w) => i \in Taking(r)
       PROVE  Covered'
  <2>1. SUFFICES ASSUME NEW i \in 1 .. Len(stack')
                 PROVE  i \in ToSet(own) \/ \E v \in Running' : i \in Seats(walks'[v])
    BY DEF Covered
  <2>2. CASE i \in Taking(r)
    <3>1. r # Gone /\ i \in Seats(r)
      BY <2>2 DEF Taking
    <3> QED BY <1>1, <1>3, <3>1
  <2>3. CASE i \notin Taking(r)
    <3>1. i \in 1 .. Len(stack) /\ i \notin Given(w)
      BY <1>13, <2>1, <2>3
    <3>2. CASE i \in ToSet(own)
      BY <3>2
    <3>3. CASE i \notin ToSet(own)
      <4>1. PICK v \in Running : i \in Seats(walks[v])
        BY <1>13, <3>1, <3>3 DEF Covered
      <4>2. v # w /\ v \in Walks
        BY <3>1, <4>1 DEF Given, Running
      <4> QED BY <1>1, <1>2, <4>1, <4>2
    <3> QED BY <3>2, <3>3
  <2> QED BY <2>2, <2>3
<1> QED BY <1>12, <1>13

\* A walk q is about to go on from what the stack is without its key.
Ready(q, b) ==
    /\ q \in Walk /\ b \in Seq(Slots) /\ ~q.ended
    /\ q.kind = "iterator" => q.pushed
    /\ \A i \in ToSet(own) : i \in 1 .. Len(b)
    /\ q.tableidx \in 1 .. Len(b) /\ b[q.tableidx] = q.table
    /\ q.pushed => q.tableidx = Len(b) /\ q.tableidx \notin ToSet(own)
    /\ ~q.pushed => q.tableidx \in ToSet(own)

KeepOf(q) == IF q.kind = "for_each" THEN 2 ELSE 1

LEMMA StepSits ==
    ASSUME NEW q, NEW st \in Seq(Slots), Ready(q, Cut(st, 1))
    PROVE  LET s == Stepped(st, q, KeepOf(q))
               b == Cut(st, 1)
           IN  /\ s.st \in Seq(Slots) /\ s.w \in Walk /\ Sits(s.w, s.st, own)
               /\ \A i \in 1 .. Len(b) : i \in 1 .. Len(s.st) /\ s.st[i] = b[i]
               /\ \A i \in Seats(s.w) : (q.pushed /\ i = q.tableidx) \/ i > Len(b)
               /\ q.pushed => q.tableidx \in Seats(s.w)
               /\ \A i \in 1 .. Len(s.st) : i > Len(b) => i \in Seats(s.w)
<1> DEFINE b == Cut(st, 1)
           keep == KeepOf(q)
           s == Stepped(st, q, keep)
           k == NextKey(st, q)
           r == s.w
           z == s.st
<1>1. /\ q \in Walk /\ b \in Seq(Slots) /\ ~q.ended
      /\ q.kind = "iterator" => q.pushed
      /\ \A i \in ToSet(own) : i \in 1 .. Len(b)
      /\ q.tableidx \in 1 .. Len(b) /\ b[q.tableidx] = q.table
      /\ q.pushed => q.tableidx = Len(b) /\ q.tableidx \notin ToSet(own)
      /\ ~q.pushed => q.tableidx \in ToSet(own)
  BY DEF Ready
<1>2. /\ keep \in {1, 2} /\ (keep = 2 <=> q.kind = "for_each")
      /\ q.kind \in {"iterator", "for_each"} /\ q.tableidx \in Nat
  BY <1>1, SeatFacts DEF KeepOf
<1> HIDE DEF keep
<1>3. /\ z \in Seq(Slots) /\ r \in Walk
      /\ AtEnd(st, q) => z = b /\ r = Ended(q)
      /\ ~AtEnd(st, q) => /\ r = Met(q, Len(b) + 1, k)
                          /\ z = IF keep = 2 THEN Append(Append(b, k), Handed) ELSE Append(b, k)
  BY <1>1, <1>2, SteppedFacts
<1>4. Len(b) \in Nat /\ Len(z) \in Nat
  BY <1>1, <1>3, LenProperties
<1> DEFINE Goal == /\ Sits(r, z, own)
                   /\ \A i \in 1 .. Len(b) : i \in 1 .. Len(z) /\ z[i] = b[i]
                   /\ \A i \in Seats(r) : (q.pushed /\ i = q.tableidx) \/ i > Len(b)
                   /\ q.pushed => q.tableidx \in Seats(r)
                   /\ \A i \in 1 .. Len(z) : i > Len(b) => i \in Seats(r)
<1>5. CASE AtEnd(st, q)
  <2> DEFINE e == Ended(q)
  <2>1. /\ e \in Walk /\ e.kind = q.kind /\ e.pushed = q.pushed
        /\ e.table = q.table /\ e.tableidx = q.tableidx /\ e.ended /\ e.keyidx = -1
    BY <1>1, EndedFacts
  <2>2. z = b /\ r = e
    BY <1>3, <1>5
  <2> HIDE DEF b, s, e, r, z
  <2>3. \A i : i \in Seats(e) <=> e.pushed /\ i = e.tableidx
    BY <2>1, SeatFacts
  <2>4. Seats(e) \subseteq (1 .. Len(b)) \ ToSet(own)
    BY <1>1, <2>1, <2>3
  <2>5. Sits(e, b, own)
    BY <1>1, <2>1, <2>4 DEF Sits
  <2>6. \A i \in 1 .. Len(b) : ~(i > Len(b))
    BY <1>4
  <2>7. Goal
    BY <2>1, <2>2, <2>3, <2>5, <2>6
  <2> QED BY <1>3, <2>7 DEF b, keep, s, r, z
<1>6. CASE ~AtEnd(st, q)
  <2> DEFINE n == Len(b) + 1
             e == Met(q, n, k)
             one == Append(b, k)
             two == Append(one, Handed)
  <2>1. k \in Keys /\ k \in Slots /\ Handed \in Slots
    BY <1>6, NextKeyFacts, ValuesAreSlots
  <2>2. r = e /\ z = IF keep = 2 THEN two ELSE one
    BY <1>3, <1>6
  <2>3. n \in Nat /\ n # -1 /\ n = Len(b) + 1
    BY <1>4
  <2> HIDE DEF b, s, r, z, k
  <2>4. /\ one \in Seq(Slots) /\ Len(one) = Len(b) + 1 /\ one[Len(b) + 1] = k
        /\ \A i \in 1 .. Len(b) : one[i] = b[i]
    BY <1>1, <2>1, AppendFacts
  <2> HIDE DEF n, one
  <2>5. /\ two \in Seq(Slots) /\ Len(two) = Len(one) + 1 /\ two[Len(one) + 1] = Handed
        /\ \A i \in 1 .. Len(one) : two[i] = one[i]
    BY <2>1, <2>4, AppendFacts
  <2>6. /\ e \in Walk /\ e.kind = q.kind /\ e.pushed = q.pushed
        /\ e.table = q.table /\ e.tableidx = q.tableidx /\ e.ended = q.ended /\ e.keyidx = n /\ e.key = k
    <3>0. q \in Walk /\ n \in Nat /\ k \in Keys
      BY <1>1, <2>1, <2>3
    <3>1. e \in Walk /\ e.kind = q.kind /\ e.pushed = q.pushed
      BY <3>0, MetFacts, Zenon
    <3>2. e.table = q.table /\ e.tableidx = q.tableidx /\ e.ended = q.ended
      BY <3>0, MetFacts, Zenon
    <3>3. e.keyidx = n /\ e.key = k
      BY <3>0, MetFacts, Zenon
    <3> QED BY <3>1, <3>2, <3>3
  <2> HIDE DEF e, two
  <2>7. /\ Len(one) = n /\ one[n] = k /\ Len(two) = n + 1 /\ two[n + 1] = Handed /\ two[n] = k
        /\ \A i \in 1 .. Len(b) : one[i] = b[i] /\ two[i] = b[i]
    <3>1. n \in 1 .. Len(one) /\ \A i \in 1 .. Len(b) : i \in 1 .. Len(one)
      BY <1>4, <2>3, <2>4
    <3> QED BY <2>3, <2>4, <2>5, <3>1
  <2>8. \A i : i \in Seats(e) <=> \/ q.pushed /\ i = q.tableidx
                                  \/ i = n
                                  \/ keep = 2 /\ i = n + 1
    BY <1>1, <1>2, <2>6, SeatFacts
  <2>9. z[n] = k /\ (keep = 2 => z[n + 1] = Handed) /\ Len(z) = (IF keep = 2 THEN n + 1 ELSE n)
        /\ \A i \in 1 .. Len(b) : z[i] = b[i]
    BY <2>2, <2>7
  <2>10. \A i \in 1 .. Len(b) : i \in 1 .. Len(z)
    BY <1>4, <2>3, <2>9
  <2>11. n \in 1 .. Len(z) /\ (keep = 2 => n + 1 \in 1 .. Len(z)) /\ n > Len(b) /\ n + 1 > Len(b)
    BY <1>4, <2>3, <2>9
  <2>12. n \notin ToSet(own) /\ n + 1 \notin ToSet(own)
    <3>1. n \notin 1 .. Len(b) /\ n + 1 \notin 1 .. Len(b)
      BY <1>4, <2>3
    <3> QED BY <1>1, <3>1
  <2>13. Seats(e) \subseteq (1 .. Len(z)) \ ToSet(own)
    BY <1>1, <2>8, <2>10, <2>11, <2>12
  <2>14. z[q.tableidx] = q.table
    BY <1>1, <2>9
  <2>15. q.pushed => n = q.tableidx + 1
    BY <1>1, <2>3
  <2>16. Sits(e, z, own)
    BY <1>1, <1>2, <2>6, <2>9, <2>13, <2>14, <2>15 DEF Sits
  <2>17. \A i \in Seats(e) : (q.pushed /\ i = q.tableidx) \/ i > Len(b)
    BY <2>8, <2>11
  <2>18. ASSUME NEW i \in 1 .. Len(z), i > Len(b) PROVE i \in Seats(e)
    <3>1. i = n \/ (keep = 2 /\ i = n + 1)
      BY <1>2, <1>4, <2>3, <2>9, <2>18
    <3> QED BY <2>8, <3>1
  <2>19. Goal
    BY <2>2, <2>8, <2>9, <2>10, <2>16, <2>17, <2>18
  <2> QED BY <1>3, <2>19 DEF b, keep, s, r, z
<1> QED BY <1>5, <1>6

\* A walk begins or goes on.
LEMMA StepSeated ==
    ASSUME TablesTyped, Seated, NEW w \in Walks, NEW q, NEW st \in Seq(Slots), Ready(q, Cut(st, 1)),
           stack' = Stepped(st, q, KeepOf(q)).st,
           walks' = [walks EXCEPT ![w] = Stepped(st, q, KeepOf(q)).w], own' = own,
           \A i \in (1 .. Len(stack)) \ Given(w) : i \in 1 .. Len(Cut(st, 1)) /\ Cut(st, 1)[i] = stack[i],
           \A i \in 1 .. Len(stack) : i > Len(Cut(st, 1)) => i \in Given(w),
           q.pushed => q.tableidx \in Given(w) \/ q.tableidx \notin 1 .. Len(stack),
           \A i \in 1 .. Len(Cut(st, 1)) :
              i \notin 1 .. Len(stack) \/ i \in Given(w) => q.pushed /\ i = q.tableidx
    PROVE  Seated' /\ (Covered => Covered')
<1> DEFINE b == Cut(st, 1)
           s == Stepped(st, q, KeepOf(q))
           r == s.w
<1>1. /\ s.st \in Seq(Slots) /\ r \in Walk /\ Sits(r, s.st, own)
      /\ \A i \in 1 .. Len(b) : i \in 1 .. Len(s.st) /\ s.st[i] = b[i]
      /\ \A i \in Seats(r) : (q.pushed /\ i = q.tableidx) \/ i > Len(b)
      /\ q.pushed => q.tableidx \in Seats(r)
      /\ \A i \in 1 .. Len(s.st) : i > Len(b) => i \in Seats(r)
  BY StepSits
<1>2. stack' = s.st /\ walks' = [walks EXCEPT ![w] = r] /\ b \in Seq(Slots) /\ Len(b) \in Nat
  BY LenProperties DEF Ready
<1>3. /\ \A i \in (1 .. Len(stack)) \ Given(w) : i \in 1 .. Len(b) /\ b[i] = stack[i]
      /\ \A i \in 1 .. Len(stack) : i > Len(b) => i \in Given(w)
      /\ q.pushed => q.tableidx \in Given(w) \/ q.tableidx \notin 1 .. Len(stack)
      /\ \A i \in 1 .. Len(b) :
            i \notin 1 .. Len(stack) \/ i \in Given(w) => q.pushed /\ i = q.tableidx
  OBVIOUS
<1>4. r # Gone /\ Taking(r) = Seats(r)
  <2>1. r.kind \in {"iterator", "for_each"} /\ Gone.kind = "gone"
    BY <1>1, SeatFacts DEF Gone
  <2>2. r # Gone
    BY <2>1
  <2> QED BY <2>2 DEF Taking
<1> HIDE DEF b, s, r
<1>5. \A i \in (1 .. Len(stack)) \ Given(w) : i \in 1 .. Len(stack') /\ stack'[i] = stack[i]
  BY <1>1, <1>2, <1>3
<1>6. \A i \in Taking(r) : i \in Given(w) \/ i \notin 1 .. Len(stack)
  BY <1>1, <1>3, <1>4
<1>7. \A i \in 1 .. Len(stack') : i \notin 1 .. Len(stack) \/ i \in Given(w) => i \in Taking(r)
  <2>1. SUFFICES ASSUME NEW i \in 1 .. Len(stack'), i \notin 1 .. Len(stack) \/ i \in Given(w)
                 PROVE  i \in Seats(r)
    BY <1>4
  <2>2. i \in 1 .. Len(s.st) /\ Len(s.st) \in Nat
    BY <1>1, <1>2, LenProperties
  <2>3. CASE i > Len(b)
    BY <1>1, <2>2, <2>3
  <2>4. CASE ~(i > Len(b))
    <3>1. i \in 1 .. Len(b)
      BY <1>2, <2>2, <2>4
    <3> QED BY <1>1, <1>3, <2>1, <3>1
  <2> QED BY <2>3, <2>4
<1>8. r \in Walk \cup {Gone} /\ stack' \in Seq(Slots) /\ (r # Gone => Sits(r, stack', own))
  BY <1>1, <1>2
<1>9. walks' = [walks EXCEPT ![w] = r]
  BY <1>2
<1>10. /\ Seated'
       /\ (Covered /\ \A i \in 1 .. Len(stack') :
                         i \notin 1 .. Len(stack) \/ i \in Given(w) => i \in Taking(r))
          => Covered'
  BY <1>5, <1>6, <1>8, <1>9, WalkChanged
<1> QED BY <1>7, <1>10

LEMMA BeginSeated ==
    ASSUME TablesTyped, Seated, NEW w \in Walks, NEW t \in Reachable(heap, stack), Begin(w, t)
    PROVE  Seated' /\ (Covered => Covered')
<1> DEFINE q == NewWalk("iterator", t, TRUE, Len(stack) + 1)
           st == stack \o <<t, LuaNil>>
           a == Append(stack, t)
           N == Len(stack)
<1>1. /\ FreshWalk(q, "iterator", t, N + 1) /\ q.pushed /\ q \in Walk /\ st \in Seq(Slots)
      /\ Cut(st, 1) = a /\ a \in Seq(Slots) /\ Len(a) = N + 1
      /\ stack \in Seq(Slots) /\ N \in Nat /\ t \in Slots
  BY BegunFacts, ValuesAreSlots
<1>2. \A i \in 1 .. N : a[i] = stack[i] /\ a[N + 1] = t
  BY <1>1, AppendFacts
<1>3. /\ q.kind = "iterator" /\ q.table = t /\ q.tableidx = N + 1 /\ ~q.ended
  BY <1>1 DEF FreshWalk
<1>4. KeepOf(q) = 1
  BY <1>3 DEF KeepOf
<1>5. /\ stack' = Stepped(st, q, 1).st /\ own' = own /\ ~Active(w)
      /\ walks' = [walks EXCEPT ![w] = Stepped(st, q, 1).w]
  BY DEF Begin
<1>6. Given(w) = {}
  BY <1>5 DEF Given
<1> HIDE DEF q, st, a, N
<1>7. \A i \in ToSet(own) : i \in 1 .. N
  BY DEF Seated, OwnSeated, N
<1>8. Ready(q, a)
  <2>1. \A i \in ToSet(own) : i \in 1 .. Len(a)
    BY <1>1, <1>7
  <2>2. q.tableidx \in 1 .. Len(a) /\ q.tableidx \notin ToSet(own) /\ q.tableidx = Len(a)
    BY <1>1, <1>3, <1>7
  <2>3. a[N + 1] = t
    BY <1>1, AppendFacts DEF a, N
  <2> QED BY <1>1, <1>3, <2>1, <2>2, <2>3 DEF Ready
<1>9. /\ \A i \in 1 .. N : i \in 1 .. Len(a) /\ a[i] = stack[i]
      /\ \A i \in 1 .. N : ~(i > Len(a))
      /\ q.tableidx \notin 1 .. N
      /\ \A i \in 1 .. Len(a) : i \notin 1 .. N => i = q.tableidx
  <2>1. N \in Nat /\ Len(a) = N + 1 /\ q.tableidx = N + 1
    BY <1>1, <1>3
  <2>2. \A i \in 1 .. N : i \in 1 .. Len(a) /\ ~(i > Len(a))
    BY <2>1
  <2>3. q.tableidx \notin 1 .. N /\ \A i \in 1 .. Len(a) : i \notin 1 .. N => i = q.tableidx
    BY <2>1
  <2> QED BY <1>2, <2>2, <2>3
<1> QED BY <1>1, <1>4, <1>5, <1>6, <1>8, <1>9, StepSeated DEF N

LEMMA BeginEachSeated ==
    ASSUME TablesTyped, Seated, NEW w \in Walks, NEW t \in Reachable(heap, stack), NEW i \in Nat,
           i = 0 \/ (i \in ToSet(own) /\ t = Root), BeginEach(w, t, i)
    PROVE  Seated' /\ (Covered => Covered')
<1> DEFINE a == IF i = 0 THEN Append(stack, t) ELSE stack
           j == IF i = 0 THEN Len(a) ELSE i
           q == NewWalk("for_each", t, i = 0, j)
           st == Append(a, LuaNil)
           N == Len(stack)
<1>1. /\ FreshWalk(q, "for_each", t, j) /\ (q.pushed <=> i = 0)
      /\ q \in Walk /\ st \in Seq(Slots) /\ Cut(st, 1) = a /\ a \in Seq(Slots)
  BY BegunEachFacts
<1>2. stack \in Seq(Slots) /\ N \in Nat /\ t \in Slots
  BY TypesUnfold, LenProperties, ReachFacts, ValuesAreSlots
<1>3. q.kind = "for_each" /\ q.table = t /\ q.tableidx = j /\ ~q.ended
  BY <1>1 DEF FreshWalk
<1>4. KeepOf(q) = 2
  BY <1>3 DEF KeepOf
<1>5. /\ stack' = Stepped(st, q, 2).st /\ own' = own /\ ~Active(w)
      /\ walks' = [walks EXCEPT ![w] = Stepped(st, q, 2).w]
  BY DEF BeginEach
<1>6. Given(w) = {}
  BY <1>5 DEF Given
<1>7. \A n \in ToSet(own) : n \in 1 .. N /\ stack[n] = Root
  BY DEF Seated, OwnSeated
<1>8. CASE i = 0
  <2>1. /\ Len(a) = N + 1 /\ \A n \in 1 .. N : a[n] = stack[n]
    BY <1>2, <1>8, AppendFacts
  <2>2. a[N + 1] = t
    BY <1>2, <1>8, AppendFacts
  <2>3. j = N + 1
    BY <1>8, <2>1
  <2> HIDE DEF q, st, a, N, j
  <2>4. Ready(q, a)
    <3>1. \A n \in ToSet(own) : n \in 1 .. Len(a)
      BY <1>2, <1>7, <2>1
    <3>2. q.tableidx \in 1 .. Len(a) /\ q.tableidx \notin ToSet(own) /\ q.tableidx = Len(a)
      BY <1>2, <1>3, <1>7, <2>1, <2>3
    <3> QED BY <1>1, <1>3, <1>8, <2>2, <2>3, <3>1, <3>2 DEF Ready
  <2>5. /\ \A n \in 1 .. N : n \in 1 .. Len(a) /\ ~(n > Len(a))
        /\ q.tableidx \notin 1 .. N
        /\ \A n \in 1 .. Len(a) : n \notin 1 .. N => n = q.tableidx
    BY <1>2, <1>3, <2>1, <2>3
  <2> QED BY <1>1, <1>4, <1>5, <1>6, <1>8, <2>1, <2>4, <2>5, StepSeated DEF N
<1>9. CASE i # 0
  <2>1. a = stack /\ j = i /\ t = Root /\ i \in ToSet(own) /\ ~q.pushed
    BY <1>1, <1>9
  <2> HIDE DEF q, st, a, N, j
  <2>4. Ready(q, a)
    BY <1>1, <1>3, <1>7, <2>1 DEF Ready, N
  <2>5. \A n \in 1 .. N : ~(n > Len(a))
    BY <1>2, <2>1 DEF N
  <2> QED BY <1>1, <1>4, <1>5, <1>6, <2>1, <2>4, <2>5, StepSeated DEF N
<1> QED BY <1>8, <1>9

LEMMA CutTwice ==
    ASSUME NEW st \in Seq(Slots), 1 <= Len(st)
    PROVE  /\ Cut(st, 1) \in Seq(Slots) /\ Len(Cut(st, 1)) = Len(st) - 1
           /\ \A i \in 1 .. Len(st) - 1 : Cut(st, 1)[i] = st[i]
<1> DEFINE one == 1
<1>1. one \in Nat /\ one <= Len(st)
  OBVIOUS
<1>2. /\ Cut(st, one) \in Seq(Slots) /\ Len(Cut(st, one)) = Len(st) - one
      /\ \A i \in 1 .. Len(st) - one : Cut(st, one)[i] = st[i]
  <2> HIDE DEF one
  <2> QED BY <1>1, CutFacts
<1> QED BY <1>2

\* A walk whose key, or the value above it, is on the top.
LEMMA TopmostFacts ==
    ASSUME TablesTyped, Seated, NEW w \in Running
    PROVE  LET q == walks[w]
           IN  /\ q \in Walk /\ w \in Walks /\ Given(w) = Seats(q)
               /\ Sits(q, stack, own) /\ OwnSeated
               /\ stack \in Seq(Slots) /\ Len(stack) \in Nat
               /\ q.kind \in {"iterator", "for_each"} /\ q.tableidx \in Nat
               /\ \A i : i \in Given(w) <=>
                     \/ q.pushed /\ i = q.tableidx
                     \/ ~q.ended /\ i = q.keyidx
                     \/ ~q.ended /\ q.kind = "for_each" /\ i = q.keyidx + 1
               /\ \A i \in Given(w) : i \in 1 .. Len(stack) /\ i \notin ToSet(own)
<1> DEFINE q == walks[w]
<1>1. q \in Walk /\ w \in Walks
  BY RunningWalks
<1>2. Sits(q, stack, own) /\ OwnSeated
  BY DEF Seated
<1>3. stack \in Seq(Slots) /\ Len(stack) \in Nat
  BY TypesUnfold, LenProperties
<1>4. Given(w) = Seats(q)
  BY DEF Given, Running
<1> HIDE DEF q
<1>5. /\ \A i : i \in Seats(q) <=>
            \/ q.pushed /\ i = q.tableidx
            \/ ~q.ended /\ i = q.keyidx
            \/ ~q.ended /\ q.kind = "for_each" /\ i = q.keyidx + 1
      /\ q.kind \in {"iterator", "for_each"} /\ q.tableidx \in Nat
  BY <1>1, SeatFacts
<1>6. \A i \in Seats(q) : i \in 1 .. Len(stack) /\ i \notin ToSet(own)
  BY <1>2 DEF Sits
<1> QED BY <1>1, <1>2, <1>3, <1>4, <1>5, <1>6 DEF q

LEMMA AdvanceSeated ==
    ASSUME TablesTyped, Seated, NEW w \in Running, Advance(w), "not_top" \notin Uses
    PROVE  Seated' /\ (Covered => Covered')
<1> DEFINE q == walks[w]
           N == Len(stack)
           b == Cut(stack, 1)
<1>1. /\ q \in Walk /\ w \in Walks
      /\ Sits(q, stack, own) /\ OwnSeated
      /\ stack \in Seq(Slots) /\ N \in Nat
      /\ \A i : i \in Given(w) <=>
            \/ q.pushed /\ i = q.tableidx
            \/ ~q.ended /\ i = q.keyidx
            \/ ~q.ended /\ q.kind = "for_each" /\ i = q.keyidx + 1
      /\ \A i \in Given(w) : i \in 1 .. N /\ i \notin ToSet(own)
  BY TopmostFacts
<1>2. q.kind = "iterator" /\ ~q.ended /\ N = q.keyidx
  BY DEF Advance
<1>3. KeepOf(q) = 1
  BY <1>2 DEF KeepOf
<1>4. /\ stack' = Stepped(stack, q, 1).st /\ own' = own
      /\ walks' = [walks EXCEPT ![w] = Stepped(stack, q, 1).w]
  BY DEF Advance
<1> HIDE DEF q, N
<1>5. q.pushed /\ q.keyidx = q.tableidx + 1 /\ stack[q.tableidx] = q.table
  BY <1>1, <1>2 DEF Sits
<1>6. q.tableidx \in Given(w) /\ N \in Given(w) /\ q.tableidx = N - 1
      /\ \A i \in Given(w) : i = N - 1 \/ i = N
  <2>1. q.tableidx \in Nat
    BY <1>1, SeatFacts
  <2> QED BY <1>1, <1>2, <1>5, <2>1
<1>7. N >= 1 /\ q.tableidx \in 1 .. N - 1
  BY <1>1, <1>6
<1>8. /\ b \in Seq(Slots) /\ Len(b) = N - 1 /\ \A i \in 1 .. N - 1 : b[i] = stack[i]
  BY <1>1, <1>7, CutTwice DEF N
<1> HIDE DEF b
<1>9. \A i \in ToSet(own) : i \in 1 .. Len(b)
  <2>1. \A i \in ToSet(own) : i \in 1 .. N /\ i # N
    BY <1>1, <1>6 DEF OwnSeated, N
  <2> QED BY <1>1, <1>8, <2>1
<1>10. Ready(q, b)
  <2>1. b[q.tableidx] = q.table /\ q.tableidx = Len(b) /\ q.tableidx \in 1 .. Len(b)
        /\ q.tableidx \notin ToSet(own)
    BY <1>1, <1>5, <1>6, <1>7, <1>8
  <2> QED BY <1>1, <1>2, <1>5, <1>8, <1>9, <2>1 DEF Ready
<1>11. /\ \A i \in (1 .. N) \ Given(w) : i \in 1 .. Len(b) /\ b[i] = stack[i]
       /\ \A i \in 1 .. N : i > Len(b) => i \in Given(w)
       /\ \A i \in 1 .. Len(b) : i \notin 1 .. N \/ i \in Given(w) => i = q.tableidx
  <2>1. \A i \in 1 .. N : i # N => i \in 1 .. N - 1
    BY <1>1
  <2>2. \A i \in 1 .. N : i > N - 1 => i = N
    BY <1>1
  <2>3. \A i \in 1 .. N - 1 : i \in 1 .. N /\ i # N
    BY <1>1
  <2> QED BY <1>6, <1>8, <2>1, <2>2, <2>3
<1> QED BY <1>1, <1>3, <1>4, <1>5, <1>6, <1>10, <1>11, StepSeated DEF N, b

LEMMA AdvanceEachSeated ==
    ASSUME TablesTyped, Seated, NEW w \in Running, AdvanceEach(w)
    PROVE  Seated' /\ (Covered => Covered')
<1> DEFINE q == walks[w]
           N == Len(stack)
           st == Cut(stack, 1)
           b == Cut(st, 1)
<1>1. /\ q \in Walk /\ w \in Walks
      /\ Sits(q, stack, own) /\ OwnSeated
      /\ stack \in Seq(Slots) /\ N \in Nat /\ q.tableidx \in Nat
      /\ \A i : i \in Given(w) <=>
            \/ q.pushed /\ i = q.tableidx
            \/ ~q.ended /\ i = q.keyidx
            \/ ~q.ended /\ q.kind = "for_each" /\ i = q.keyidx + 1
      /\ \A i \in Given(w) : i \in 1 .. N /\ i \notin ToSet(own)
  BY TopmostFacts
<1>2. q.kind = "for_each" /\ ~q.ended /\ N = q.keyidx + 1
  BY DEF AdvanceEach
<1>3. KeepOf(q) = 2
  BY <1>2 DEF KeepOf
<1>4. /\ stack' = Stepped(st, q, 2).st /\ own' = own
      /\ walks' = [walks EXCEPT ![w] = Stepped(st, q, 2).w]
  BY DEF AdvanceEach
<1> HIDE DEF q, N
<1>5. /\ q.pushed => q.keyidx = q.tableidx + 1
      /\ ~q.pushed => q.tableidx \in ToSet(own)
      /\ stack[q.tableidx] = q.table
  BY <1>1, <1>2 DEF Sits
<1>6. q.keyidx \in Given(w) /\ N \in Given(w) /\ q.keyidx = N - 1 /\ N - 1 \in Given(w)
  <2>1. q.keyidx \in Int
    BY <1>1, SeatFacts
  <2>2. q.keyidx = N - 1
    BY <1>1, <1>2, <2>1
  <2> QED BY <1>1, <1>2, <2>2
<1>7. N >= 2 /\ N - 1 \in 1 .. N
  BY <1>1, <1>6
<1>8. /\ st \in Seq(Slots) /\ Len(st) = N - 1 /\ \A i \in 1 .. N - 1 : st[i] = stack[i]
  <2>1. 1 <= N
    BY <1>1, <1>7
  <2> QED BY <1>1, <2>1, CutTwice DEF N
<1> HIDE DEF st
<1>9. /\ b \in Seq(Slots) /\ Len(b) = N - 2 /\ \A i \in 1 .. N - 2 : b[i] = stack[i]
  <2>1. 1 <= Len(st) /\ Len(st) - 1 = N - 2 /\ \A i \in 1 .. N - 2 : i \in 1 .. N - 1
    BY <1>1, <1>7, <1>8
  <2>2. /\ b \in Seq(Slots) /\ Len(b) = Len(st) - 1
        /\ \A i \in 1 .. Len(st) - 1 : b[i] = st[i]
    BY <1>8, <2>1, CutTwice
  <2> QED BY <1>8, <2>1, <2>2
<1> HIDE DEF b
<1>10. \A i \in ToSet(own) : i \in 1 .. Len(b)
  <2>1. \A i \in ToSet(own) : i \in 1 .. N /\ i # N /\ i # N - 1
    BY <1>1, <1>6 DEF OwnSeated, N
  <2> QED BY <1>1, <1>9, <2>1
<1>11. q.pushed => q.tableidx = N - 2 /\ q.tableidx \in Given(w) /\ N - 2 \in 1 .. N
  <2>1. ASSUME q.pushed PROVE q.tableidx = N - 2 /\ q.tableidx \in Given(w)
    BY <1>1, <1>5, <1>6, <2>1
  <2> QED BY <1>1, <2>1
<1>12. Ready(q, b)
  <2>1. q.tableidx \in 1 .. Len(b)
    <3>1. CASE q.pushed
      BY <1>1, <1>9, <1>11, <3>1
    <3>2. CASE ~q.pushed
      BY <1>5, <1>10, <3>2
    <3> QED BY <3>1, <3>2
  <2>2. b[q.tableidx] = q.table
    BY <1>5, <1>9, <2>1
  <2>3. q.pushed => q.tableidx = Len(b) /\ q.tableidx \notin ToSet(own)
    BY <1>1, <1>9, <1>11
  <2> QED BY <1>1, <1>2, <1>5, <1>9, <1>10, <2>1, <2>2, <2>3 DEF Ready
<1>13. /\ \A i \in (1 .. N) \ Given(w) : i \in 1 .. Len(b) /\ b[i] = stack[i]
       /\ \A i \in 1 .. N : i > Len(b) => i \in Given(w)
       /\ \A i \in 1 .. Len(b) : i \notin 1 .. N \/ i \in Given(w) => q.pushed /\ i = q.tableidx
  <2>1. \A i \in 1 .. N : i # N /\ i # N - 1 => i \in 1 .. N - 2
    BY <1>1
  <2>2. \A i \in 1 .. N : i > N - 2 => i = N \/ i = N - 1
    BY <1>1
  <2>3. \A i \in 1 .. N - 2 : i \in 1 .. N /\ i # N /\ i # N - 1
    BY <1>1
  <2>4. \A i \in 1 .. N : i \in Given(w) => i = N \/ i = N - 1 \/ (q.pushed /\ i = q.tableidx)
    BY <1>1, <1>2, <1>6
  <2> QED BY <1>6, <1>9, <2>1, <2>2, <2>3, <2>4
<1> QED BY <1>1, <1>3, <1>4, <1>8, <1>11, <1>12, <1>13, StepSeated DEF N, b

\* A walk ends; only slots of its own are gone from the top.
LEMMA WalkEnded ==
    ASSUME TablesTyped, Seated, NEW w \in Running, walks' = [walks EXCEPT ![w] = Gone],
           own' = own, NEW st \in Seq(Slots), stack' = st, Len(st) <= Len(stack),
           \A i \in 1 .. Len(st) : st[i] = stack[i],
           \A i \in 1 .. Len(stack) : i > Len(st) => i \in Given(w)
    PROVE  /\ Seated'
           /\ Covered /\ (\A i \in 1 .. Len(st) : i \notin Given(w)) => Covered'
<1> DEFINE r == Gone
<1>1. r \in Walk \cup {Gone} /\ r = Gone /\ Taking(r) = {}
  BY DEF Taking
<1>2. w \in Walks /\ Len(st) \in Nat /\ Len(stack) \in Nat
  BY RunningWalks, TypesUnfold, LenProperties
<1>3. \A i \in 1 .. Len(stack) : i > Len(st) \/ i \in 1 .. Len(st)
  BY <1>2
<1>4. \A i \in 1 .. Len(st) : i \in 1 .. Len(stack)
  BY <1>2
<1> HIDE DEF r
<1>5. \A i \in (1 .. Len(stack)) \ Given(w) : i \in 1 .. Len(stack') /\ stack'[i] = stack[i]
  BY <1>3
<1>6. walks' = [walks EXCEPT ![w] = r]
  BY <1>1
<1>7. /\ Seated'
      /\ (Covered /\ \A i \in 1 .. Len(stack') :
                        i \notin 1 .. Len(stack) \/ i \in Given(w) => i \in Taking(r))
         => Covered'
  BY <1>1, <1>2, <1>5, <1>6, WalkChanged
<1> QED BY <1>4, <1>7

LEMMA DropSeated ==
    ASSUME TablesTyped, Seated, NEW w \in Running, DropIterator(w), "copy" \notin Uses
    PROVE  Seated' /\ (Covered => Covered')
<1> DEFINE q == walks[w]
           N == Len(stack)
           b == Cut(stack, 1)
           c == Cut(b, 1)
<1>1. /\ q \in Walk /\ w \in Walks
      /\ Sits(q, stack, own) /\ OwnSeated
      /\ stack \in Seq(Slots) /\ N \in Nat /\ q.tableidx \in Nat
      /\ \A i : i \in Given(w) <=>
            \/ q.pushed /\ i = q.tableidx
            \/ ~q.ended /\ i = q.keyidx
            \/ ~q.ended /\ q.kind = "for_each" /\ i = q.keyidx + 1
      /\ \A i \in Given(w) : i \in 1 .. N /\ i \notin ToSet(own)
  BY TopmostFacts
<1>2. /\ q.kind = "iterator" /\ N = (IF q.ended THEN q.tableidx ELSE q.keyidx)
      /\ stack' = Dropped(stack, q) /\ own' = own /\ walks' = [walks EXCEPT ![w] = Gone]
  BY DEF DropIterator, Topmost
<1>3. q.pushed /\ (q.ended => q.keyidx = -1) /\ (~q.ended => q.keyidx = q.tableidx + 1)
  BY <1>1, <1>2 DEF Sits
<1>4. q.tableidx \in Given(w) /\ q.tableidx \in 1 .. N
  BY <1>1, <1>3
<1>5. N >= 1
  BY <1>1, <1>4
<1> HIDE DEF q
<1>6. /\ b \in Seq(Slots) /\ Len(b) = N - 1 /\ \A i \in 1 .. N - 1 : b[i] = stack[i]
  BY <1>1, <1>5, CutTwice
<1>7. CASE q.ended
  <2>1. stack' = b
    <3>1. Dropped(stack, q) = removed(stack, q.tableidx)
      BY <1>3, <1>7 DEF Dropped
    <3> QED BY <1>2, <1>7, <3>1 DEF removed
  <2> HIDE DEF b, N
  <2>2. Len(b) <= N /\ (\A i \in 1 .. N : i > Len(b) => i = N) /\ (\A i \in 1 .. Len(b) : i # N)
    BY <1>1, <1>6
  <2>3. N \in Given(w) /\ \A i \in Given(w) : i = N
    BY <1>1, <1>2, <1>4, <1>7
  <2>4. /\ \A i \in 1 .. Len(b) : b[i] = stack[i]
        /\ \A i \in 1 .. N : i > Len(b) => i \in Given(w)
        /\ \A i \in 1 .. Len(b) : i \notin Given(w)
    BY <1>6, <2>2, <2>3
  <2> QED BY <1>2, <1>6, <2>1, <2>2, <2>4, WalkEnded DEF N
<1>8. CASE ~q.ended
  <2>1. N >= 2 /\ q.tableidx = N - 1 /\ q.keyidx = N
    BY <1>1, <1>2, <1>3, <1>4, <1>8
  <2>2. stack' = c
    <3>1. q.keyidx # -1
      BY <1>1, <2>1
    <3>2. removed(stack, q.keyidx) = b
      BY <2>1 DEF removed
    <3>3. Dropped(stack, q) = removed(b, q.tableidx)
      BY <3>1, <3>2 DEF Dropped
    <3> QED BY <1>2, <1>6, <2>1, <3>3 DEF removed
  <2> HIDE DEF b
  <2>3. /\ c \in Seq(Slots) /\ Len(c) = N - 2 /\ \A i \in 1 .. N - 2 : c[i] = stack[i]
    <3>1. 1 <= Len(b) /\ Len(b) - 1 = N - 2 /\ \A i \in 1 .. N - 2 : i \in 1 .. N - 1
      BY <1>1, <1>6, <2>1
    <3>2. /\ c \in Seq(Slots) /\ Len(c) = Len(b) - 1 /\ \A i \in 1 .. Len(b) - 1 : c[i] = b[i]
      BY <1>6, <3>1, CutTwice
    <3> QED BY <1>6, <3>1, <3>2
  <2> HIDE DEF c, N
  <2>4. /\ Len(c) <= N /\ (\A i \in 1 .. N : i > Len(c) => i = N \/ i = N - 1)
        /\ (\A i \in 1 .. Len(c) : i # N /\ i # N - 1)
    BY <1>1, <2>1, <2>3
  <2>5. N \in Given(w) /\ N - 1 \in Given(w) /\ \A i \in Given(w) : i = N \/ i = N - 1
    BY <1>1, <1>2, <1>4, <1>8, <2>1
  <2>6. /\ \A i \in 1 .. Len(c) : c[i] = stack[i]
        /\ \A i \in 1 .. N : i > Len(c) => i \in Given(w)
        /\ \A i \in 1 .. Len(c) : i \notin Given(w)
    BY <2>3, <2>4, <2>5
  <2> QED BY <1>2, <2>2, <2>3, <2>4, <2>6, WalkEnded DEF N
<1> QED BY <1>7, <1>8

LEMMA EndEachSeated ==
    ASSUME TablesTyped, Seated, NEW w \in Running, EndEach(w)
    PROVE  Seated' /\ (Covered => Covered')
<1> DEFINE q == walks[w]
           N == Len(stack)
           b == Cut(stack, 1)
<1>1. /\ q \in Walk /\ w \in Walks
      /\ Sits(q, stack, own) /\ OwnSeated
      /\ stack \in Seq(Slots) /\ N \in Nat /\ q.tableidx \in Nat
      /\ \A i : i \in Given(w) <=>
            \/ q.pushed /\ i = q.tableidx
            \/ ~q.ended /\ i = q.keyidx
            \/ ~q.ended /\ q.kind = "for_each" /\ i = q.keyidx + 1
      /\ \A i \in Given(w) : i \in 1 .. N /\ i \notin ToSet(own)
  BY TopmostFacts
<1>2. /\ q.kind = "for_each" /\ q.ended /\ (N = q.tableidx \/ ~q.pushed)
      /\ stack' = (IF q.pushed THEN b ELSE stack)
      /\ own' = own /\ walks' = [walks EXCEPT ![w] = Gone]
  BY DEF EndEach, LeftBy
<1> HIDE DEF q
<1>3. CASE q.pushed
  <2>1. N \in Given(w) /\ N \in 1 .. N /\ \A i \in Given(w) : i = N
    BY <1>1, <1>2, <1>3
  <2>2. N >= 1
    BY <1>1, <2>1
  <2>3. /\ b \in Seq(Slots) /\ Len(b) = N - 1 /\ \A i \in 1 .. N - 1 : b[i] = stack[i]
    BY <1>1, <2>2, CutTwice
  <2> HIDE DEF b, N
  <2>4. Len(b) <= N /\ (\A i \in 1 .. N : i > Len(b) => i = N) /\ (\A i \in 1 .. Len(b) : i # N)
    BY <1>1, <2>3
  <2>5. /\ \A i \in 1 .. Len(b) : b[i] = stack[i]
        /\ \A i \in 1 .. N : i > Len(b) => i \in Given(w)
        /\ \A i \in 1 .. Len(b) : i \notin Given(w)
    BY <2>1, <2>3, <2>4
  <2> QED BY <1>2, <1>3, <2>3, <2>4, <2>5, WalkEnded DEF N
<1>4. CASE ~q.pushed
  <2>1. \A i : i \notin Given(w)
    BY <1>1, <1>2, <1>4
  <2>2. N <= N /\ \A i \in 1 .. N : ~(i > N)
    BY <1>1
  <2>3. stack' = stack
    BY <1>2, <1>4
  <2> HIDE DEF b
  <2> QED BY <1>1, <1>2, <2>1, <2>2, <2>3, WalkEnded
<1> QED BY <1>3, <1>4

\* An exception leaves a slot behind, which is nobody's then.
LEMMA ThrowEachSeated ==
    ASSUME TablesTyped, Seated, NEW w \in Running, ThrowEach(w)
    PROVE  Seated'
<1> DEFINE q == walks[w]
           N == Len(stack)
           b == Cut(stack, 1)
           c == Cut(b, 1)
<1>1. /\ q \in Walk /\ w \in Walks
      /\ Sits(q, stack, own) /\ OwnSeated
      /\ stack \in Seq(Slots) /\ N \in Nat /\ q.tableidx \in Nat
      /\ \A i : i \in Given(w) <=>
            \/ q.pushed /\ i = q.tableidx
            \/ ~q.ended /\ i = q.keyidx
            \/ ~q.ended /\ q.kind = "for_each" /\ i = q.keyidx + 1
      /\ \A i \in Given(w) : i \in 1 .. N /\ i \notin ToSet(own)
  BY TopmostFacts
<1>2. /\ q.kind = "for_each" /\ ~q.ended /\ N = q.keyidx + 1
      /\ stack' = (IF q.pushed THEN c ELSE b)
      /\ own' = own /\ walks' = [walks EXCEPT ![w] = Gone]
  BY DEF ThrowEach, LeftBy
<1> HIDE DEF q
<1>3. N \in Given(w) /\ N - 1 \in Given(w) /\ N >= 2
  <2>1. q.keyidx \in Int
    BY <1>1, SeatFacts
  <2>2. q.keyidx = N - 1
    BY <1>1, <1>2, <2>1
  <2>3. N \in Given(w) /\ N - 1 \in Given(w)
    BY <1>1, <1>2, <2>2
  <2>4. N - 1 \in 1 .. N
    BY <1>1, <2>3
  <2> QED BY <1>1, <2>3, <2>4
<1>4. /\ b \in Seq(Slots) /\ Len(b) = N - 1 /\ \A i \in 1 .. N - 1 : b[i] = stack[i]
  <2>1. 1 <= N
    BY <1>1, <1>3
  <2> QED BY <1>1, <2>1, CutTwice
<1> HIDE DEF b
<1>5. /\ c \in Seq(Slots) /\ Len(c) = N - 2 /\ \A i \in 1 .. N - 2 : c[i] = stack[i]
  <2>1. 1 <= Len(b) /\ Len(b) - 1 = N - 2 /\ \A i \in 1 .. N - 2 : i \in 1 .. N - 1
    BY <1>1, <1>3, <1>4
  <2>2. /\ c \in Seq(Slots) /\ Len(c) = Len(b) - 1 /\ \A i \in 1 .. Len(b) - 1 : c[i] = b[i]
    BY <1>4, <2>1, CutTwice
  <2> QED BY <1>4, <2>1, <2>2
<1> HIDE DEF c, N
<1>6. /\ Len(b) <= N /\ (\A i \in 1 .. N : i > Len(b) => i = N)
      /\ Len(c) <= N /\ (\A i \in 1 .. N : i > Len(c) => i = N \/ i = N - 1)
  BY <1>1, <1>3, <1>4, <1>5
<1>7. CASE q.pushed
  <2>1. /\ \A i \in 1 .. Len(c) : c[i] = stack[i]
        /\ \A i \in 1 .. N : i > Len(c) => i \in Given(w)
    BY <1>3, <1>5, <1>6
  <2> QED BY <1>2, <1>5, <1>6, <1>7, <2>1, WalkEnded DEF N
<1>8. CASE ~q.pushed
  <2>1. /\ \A i \in 1 .. Len(b) : b[i] = stack[i]
        /\ \A i \in 1 .. N : i > Len(b) => i \in Given(w)
    BY <1>3, <1>4, <1>6
  <2> QED BY <1>2, <1>4, <1>6, <1>8, <2>1, WalkEnded DEF N
<1> QED BY <1>7, <1>8

LEMMA PushOwnSeated ==
    ASSUME TablesTyped, Seated, PushOwn
    PROVE  Seated' /\ (Covered => Covered')
<1> DEFINE N == Len(stack)
           i0 == N + 1
           st == Append(stack, Root)
           ow == Append(own, i0)
           M == Len(own)
<1>1. stack' = st /\ own' = ow /\ walks' = walks
  BY DEF PushOwn
<1>2. /\ stack \in Seq(Slots) /\ N \in Nat /\ own \in Seq(Nat) /\ M \in Nat
      /\ \A i \in ToSet(own) : i \in Nat /\ \E j \in 1 .. M : own[j] = i
      /\ \A j \in 1 .. M : own[j] \in ToSet(own)
  BY OwnIdx
<1>3. Root \in Slots /\ i0 \in Nat
  BY <1>2, TablesAssumption, ValuesAreSlots
<1>4. /\ st \in Seq(Slots) /\ Len(st) = N + 1 /\ st[N + 1] = Root /\ \A i \in 1 .. N : st[i] = stack[i]
  BY <1>2, <1>3, AppendFacts
<1>5. OwnSeated /\ (\A w \in Running : Sits(walks[w], stack, own))
      /\ \A w \in Running : \A v \in Running \ {w} : Seats(walks[v]) \cap Seats(walks[w]) = {}
  BY DEF Seated
<1> HIDE DEF i0
<1>6. /\ ow \in Seq(Nat) /\ Len(ow) = M + 1 /\ ow[M + 1] = i0 /\ \A j \in 1 .. M : ow[j] = own[j]
  BY <1>2, <1>3, AppendProperties
<1>7. DOMAIN ow = 1 .. M + 1
  BY <1>6, LenProperties
<1> HIDE DEF st, ow, N, M
<1>8. \A j \in 1 .. M + 1 : j = M + 1 \/ j \in 1 .. M
  BY <1>2
<1>9. \A i : i \in ToSet(ow) <=> i \in ToSet(own) \/ i = i0
  <2>1. \A i \in ToSet(ow) : i \in ToSet(own) \/ i = i0
    BY <1>2, <1>6, <1>7, <1>8 DEF ToSet
  <2>2. M + 1 \in 1 .. M + 1 /\ \A j \in 1 .. M : j \in 1 .. M + 1
    BY <1>2
  <2>3. i0 \in ToSet(ow)
    BY <1>6, <1>7, <2>2 DEF ToSet
  <2>4. \A i \in ToSet(own) : i \in ToSet(ow)
    <3>1. SUFFICES ASSUME NEW i \in ToSet(own) PROVE i \in ToSet(ow)
      OBVIOUS
    <3>2. PICK j \in 1 .. M : own[j] = i
      BY <1>2
    <3>3. j \in DOMAIN ow /\ ow[j] = i
      BY <1>6, <1>7, <2>2, <3>2
    <3> QED BY <3>3 DEF ToSet
  <2> QED BY <2>1, <2>3, <2>4
<1>10. /\ \A i \in ToSet(own) : i \in 1 .. N /\ stack[i] = Root
       /\ \A i, j \in 1 .. M : own[i] = own[j] => i = j
  BY <1>5 DEF OwnSeated, N, M
<1>11. i0 = N + 1 /\ i0 \in 1 .. N + 1 /\ i0 \notin 1 .. N /\ \A i \in 1 .. N : i \in 1 .. N + 1
  BY <1>2 DEF i0
<1>12. \A i, j \in 1 .. M + 1 : ow[i] = ow[j] => i = j
  <2>1. \A j \in 1 .. M : ow[j] # i0
    <3>1. SUFFICES ASSUME NEW j \in 1 .. M PROVE ow[j] # i0
      OBVIOUS
    <3>2. own[j] \in ToSet(own)
      BY <1>2
    <3>3. own[j] \in 1 .. N
      BY <1>10, <3>2
    <3> QED BY <1>6, <1>11, <3>3
  <2> QED BY <1>6, <1>8, <1>10, <2>1
<1>13. OwnSeated'
  BY <1>1, <1>4, <1>6, <1>9, <1>10, <1>11, <1>12 DEF OwnSeated
<1>14. ASSUME NEW w \in Running PROVE Sits(walks[w], st, ow)
  <2> DEFINE q == walks[w]
  <2>1. q \in Walk /\ Sits(q, stack, own)
    BY <1>5, RunningWalks
  <2> HIDE DEF q
  <2>2. \A i \in Seats(q) : i \in 1 .. N /\ i \notin ToSet(own)
    BY <2>1 DEF Sits, N
  <2>3. Seats(q) \subseteq (1 .. Len(st)) \ ToSet(ow)
    BY <1>4, <1>9, <1>11, <2>2
  <2>4. /\ q.pushed => q.tableidx \in Seats(q)
        /\ ~q.ended => q.keyidx \in Seats(q)
        /\ ~q.ended /\ q.kind = "for_each" => q.keyidx + 1 \in Seats(q)
    BY <2>1, SeatFacts
  <2>5. q.tableidx \in 1 .. N
    BY <1>10, <2>1, <2>2, <2>4 DEF Sits
  <2>6. /\ st[q.tableidx] = q.table
        /\ ~q.ended => st[q.keyidx] = q.key
        /\ ~q.ended /\ q.kind = "for_each" => st[q.keyidx + 1] = Handed
    BY <1>4, <2>1, <2>2, <2>4, <2>5 DEF Sits
  <2>7. ~q.pushed => q.tableidx \in ToSet(ow)
    BY <1>9, <2>1 DEF Sits
  <2>8. Sits(q, st, ow)
    BY <2>1, <2>3, <2>6, <2>7 DEF Sits
  <2> QED BY <2>8 DEF q
<1>15. Running' = Running
  BY <1>1 DEF Running, Active
<1>16. Seated'
  BY <1>1, <1>5, <1>13, <1>14, <1>15 DEF Seated
<1>17. ASSUME Covered PROVE Covered'
  <2>1. \A i \in 1 .. N : i \in ToSet(own) \/ \E w \in Running : i \in Seats(walks[w])
    BY <1>17 DEF Covered, N
  <2>2. \A i \in 1 .. N + 1 : i = i0 \/ i \in 1 .. N
    BY <1>2, <1>11
  <2>3. \A i \in 1 .. N + 1 : i \in ToSet(ow) \/ \E w \in Running : i \in Seats(walks[w])
    BY <1>9, <2>1, <2>2
  <2> QED BY <1>1, <1>4, <1>15, <2>3 DEF Covered
<1> QED BY <1>16, <1>17

LEMMA PopOwnSeated ==
    ASSUME TablesTyped, Seated, PopOwn
    PROVE  Seated' /\ (Covered => Covered')
<1> DEFINE N == Len(stack)
           M == Len(own)
           st == Front(stack)
           ow == Front(own)
<1>1. /\ stack' = st /\ own' = ow /\ walks' = walks
      /\ own # <<>> /\ Last(own) = N /\ \A w \in Running : walks[w].tableidx # Last(own)
  BY DEF PopOwn
<1>2. /\ stack \in Seq(Slots) /\ N \in Nat /\ own \in Seq(Nat) /\ M \in Nat
      /\ \A i \in ToSet(own) : i \in Nat /\ \E j \in 1 .. M : own[j] = i
      /\ \A j \in 1 .. M : own[j] \in ToSet(own)
  BY OwnIdx
<1>3. M >= 1 /\ Last(own) = own[M] /\ M \in 1 .. M
  <2>1. M # 0
    BY <1>1, <1>2, EmptySeq
  <2>2. Last(own) = own[M]
    BY DEF Last
  <2> HIDE DEF M
  <2> QED BY <1>2, <2>1, <2>2
<1>4. OwnSeated /\ (\A w \in Running : Sits(walks[w], stack, own))
      /\ \A w \in Running : \A v \in Running \ {w} : Seats(walks[v]) \cap Seats(walks[w]) = {}
  BY DEF Seated
<1>5. /\ \A i \in ToSet(own) : i \in 1 .. N /\ stack[i] = Root
      /\ \A i, j \in 1 .. M : own[i] = own[j] => i = j
  BY <1>4 DEF OwnSeated
<1>6. own[M] = N /\ N \in ToSet(own)
  BY <1>1, <1>2, <1>3
<1>7. N \in 1 .. N
  BY <1>5, <1>6
<1>8. N >= 1
  BY <1>2, <1>7
<1>9. st = SubSeq(stack, 1, N - 1) /\ ow = SubSeq(own, 1, M - 1)
  BY DEF Front
<1> HIDE DEF st, ow
<1>10. /\ st \in Seq(Slots) /\ Len(st) = N - 1 /\ \A i \in 1 .. N - 1 : st[i] = stack[i]
  <2>1. st = Cut(stack, 1)
    BY <1>9 DEF Cut
  <2> QED BY <1>2, <1>8, <2>1, CutTwice
<1>11. /\ ow \in Seq(Nat) /\ Len(ow) = M - 1 /\ \A j \in 1 .. M - 1 : ow[j] = own[j]
  <2> DEFINE one == 1
  <2>0. ow = Cut(own, one) /\ one \in Nat /\ one <= Len(own)
    BY <1>3, <1>9 DEF Cut
  <2>1. own \in Seq(Nat)
    BY <1>2
  <2> HIDE DEF one
  <2>2. Cut(own, one) \in Seq(Nat) /\ Len(Cut(own, one)) = Len(own) - one
        /\ \A i \in 1 .. Len(own) - one : Cut(own, one)[i] = own[i]
    BY <2>0, <2>1, CutFacts
  <2> QED BY <2>0, <2>2 DEF one
<1>12. DOMAIN ow = 1 .. M - 1
  BY <1>11, LenProperties
<1> HIDE DEF N, M
<1>13. \A j \in 1 .. M - 1 : j \in 1 .. M /\ j # M
  BY <1>2
<1>14. \A j \in 1 .. M : j = M \/ j \in 1 .. M - 1
  BY <1>2
<1>15. \A i : i \in ToSet(ow) <=> i \in ToSet(own) /\ i # N
  <2>1. ASSUME NEW i \in ToSet(ow) PROVE i \in ToSet(own) /\ i # N
    <3>1. PICK j \in 1 .. M - 1 : ow[j] = i
      BY <1>12 DEF ToSet
    <3>2. i = own[j] /\ j \in 1 .. M /\ j # M
      BY <1>11, <1>13, <3>1
    <3> QED BY <1>2, <1>3, <1>5, <1>6, <3>2
  <2>2. ASSUME NEW i \in ToSet(own), i # N PROVE i \in ToSet(ow)
    <3>1. PICK j \in 1 .. M : own[j] = i
      BY <1>2
    <3>2. j \in DOMAIN ow /\ ow[j] = i
      BY <1>6, <1>11, <1>12, <1>14, <2>2, <3>1
    <3> QED BY <3>2 DEF ToSet
  <2> QED BY <2>1, <2>2
<1>16. \A i \in 1 .. N : i # N => i \in 1 .. N - 1
  BY <1>2
<1>17. OwnSeated'
  <2>1. \A i \in ToSet(ow) : i \in 1 .. Len(st) /\ st[i] = Root
    BY <1>5, <1>10, <1>15, <1>16
  <2>2. \A i, j \in 1 .. Len(ow) : ow[i] = ow[j] => i = j
    BY <1>5, <1>11, <1>13
  <2> QED BY <1>1, <2>1, <2>2 DEF OwnSeated
<1>18. ASSUME NEW w \in Running PROVE Sits(walks[w], st, ow)
  <2> DEFINE q == walks[w]
  <2>1. q \in Walk /\ Sits(q, stack, own) /\ q.tableidx # N
    BY <1>1, <1>4, RunningWalks DEF N
  <2> HIDE DEF q
  <2>2. \A i \in Seats(q) : i \in 1 .. N /\ i \notin ToSet(own) /\ i # N
    BY <1>6, <2>1 DEF Sits, N
  <2>3. Seats(q) \subseteq (1 .. Len(st)) \ ToSet(ow)
    BY <1>10, <1>15, <1>16, <2>2
  <2>4. /\ q.pushed => q.tableidx \in Seats(q)
        /\ ~q.ended => q.keyidx \in Seats(q)
        /\ ~q.ended /\ q.kind = "for_each" => q.keyidx + 1 \in Seats(q)
    BY <2>1, SeatFacts
  <2>5. q.tableidx \in 1 .. N - 1
    BY <1>5, <1>16, <2>1, <2>2, <2>4 DEF Sits
  <2>6. /\ st[q.tableidx] = q.table
        /\ ~q.ended => st[q.keyidx] = q.key
        /\ ~q.ended /\ q.kind = "for_each" => st[q.keyidx + 1] = Handed
    BY <1>10, <1>16, <2>1, <2>2, <2>4, <2>5 DEF Sits
  <2>7. ~q.pushed => q.tableidx \in ToSet(ow)
    BY <1>15, <2>1 DEF Sits
  <2>8. Sits(q, st, ow)
    BY <2>1, <2>3, <2>6, <2>7 DEF Sits
  <2> QED BY <2>8 DEF q
<1>19. Running' = Running
  BY <1>1 DEF Running, Active
<1>20. Seated'
  BY <1>1, <1>4, <1>17, <1>18, <1>19 DEF Seated
<1>21. ASSUME Covered PROVE Covered'
  <2>1. \A i \in 1 .. N : i \in ToSet(own) \/ \E w \in Running : i \in Seats(walks[w])
    BY <1>21 DEF Covered, N
  <2>2. \A i \in 1 .. N - 1 : i # N /\ i \in 1 .. N
    BY <1>2
  <2>3. \A i \in 1 .. N - 1 : i \in ToSet(ow) \/ \E w \in Running : i \in Seats(walks[w])
    BY <1>15, <2>1, <2>2
  <2> QED BY <1>1, <1>10, <1>19, <2>3 DEF Covered
<1> QED BY <1>20, <1>21

LEMMA InitiallySeated ==
    ASSUME TablesInit
    PROVE  Seated /\ Covered
<1>1. stack = <<>> /\ own = <<>> /\ walks = [w \in Walks |-> Gone]
  BY DEF TablesInit
<1>2. Running = {}
  BY <1>1 DEF Running, Active
<1>3. Len(stack) = 0 /\ Len(own) = 0 /\ ToSet(own) = {}
  BY <1>1 DEF ToSet
<1>4. \A i \in 1 .. 0 : FALSE
  OBVIOUS
<1> QED BY <1>2, <1>3, <1>4 DEF Seated, Covered, OwnSeated

\* The slots stay with whose they are, where no iterator is copied and each
\* is advanced with its key on the top.
LEMMA SeatedStep ==
    ASSUME TablesTyped, Seated, [TablesNext]_tablevars, "copy" \notin Uses, "not_top" \notin Uses
    PROVE  Seated' /\ (Covered /\ "throw" \notin Uses => Covered')
<1>0. ASSUME UNCHANGED tablevars PROVE Seated' /\ (Covered => Covered')
  <2>1. stack' = stack /\ own' = own /\ walks' = walks
    BY <1>0 DEF tablevars
  <2>2. Running' = Running /\ \A w \in Running : Alike(walks[w], walks'[w])
    BY <2>1 DEF Running, Active, Alike
  <2> QED BY <2>1, <2>2, SeatedAlike
<1>1. CASE UNCHANGED tablevars
  BY <1>0, <1>1
<1>2. CASE PushOwn \/ PopOwn
  BY <1>2, PushOwnSeated, PopOwnSeated
<1>3. CASE Get \/ Set
  BY <1>3, GetIsPathStep, SetIsPathStep, PathStepSeated
<1>4. ASSUME NEW s \in Started, NEW path \in Paths, ProxyPush(s, path)
      PROVE  Seated' /\ (Covered => Covered')
  <2>1. stack' = stack /\ own' = own /\ walks' = walks
    BY <1>4, ProxyPushLeavesNothing DEF ProxyPush
  <2>2. Running' = Running /\ \A w \in Running : Alike(walks[w], walks'[w])
    BY <2>1 DEF Running, Active, Alike
  <2> QED BY <2>1, <2>2, SeatedAlike
<1>5. ASSUME NEW s \in Started, NEW path \in Paths, ForceProxy(s, path)
      PROVE  Seated' /\ (Covered => Covered')
  <2>1. AskStep => UNCHANGED tablevars
    BY AskLeavesNothing
  <2>2. AskStep \/ PathStep
    BY <1>5, ForceIsPathStep
  <2> QED BY <1>0, <2>1, <2>2, PathStepSeated
<1>6. ASSUME NEW t \in Reachable(heap, stack), Clear(t)
      PROVE  Seated' /\ (Covered => Covered')
  <2> DEFINE h == [heap EXCEPT ![t] = Empty]
  <2>1. stack' = stack /\ own' = own /\ Changes(h)
    BY <1>6 DEF Clear
  <2>2. h \in Heaps
    <3>1. heap \in Heaps /\ Empty \in [Keys -> FieldValues]
      BY TypesUnfold, EmptyType
    <3> QED BY <3>1 DEF Heaps
  <2> HIDE DEF h
  <2>3. Running' = Running /\ \A w \in Running : Alike(walks[w], walks'[w])
    BY <2>1, <2>2, ChangesAlike
  <2> QED BY <2>1, <2>3, SeatedAlike
<1>7. ASSUME NEW t \in Reachable(heap, stack), AskEmpty(t)
      PROVE  Seated' /\ (Covered => Covered')
  <2>1. stack' = stack /\ own' = own /\ walks' = walks
    BY <1>7, AskEmptyLeavesNothing DEF AskEmpty
  <2>2. Running' = Running /\ \A w \in Running : Alike(walks[w], walks'[w])
    BY <2>1 DEF Running, Active, Alike
  <2> QED BY <2>1, <2>2, SeatedAlike
<1>8. ASSUME NEW t \in Reachable(heap, stack), NEW w \in Walks, Begin(w, t) \/ BeginEach(w, t, 0)
      PROVE  Seated' /\ (Covered => Covered')
  <2> DEFINE z == 0
  <2>1. z \in Nat /\ z = 0 /\ (Begin(w, t) \/ BeginEach(w, t, z))
    BY <1>8
  <2> HIDE DEF z
  <2> QED BY <2>1, BeginSeated, BeginEachSeated
<1>9. ASSUME NEW w \in Walks, NEW i \in 1 .. Len(own), BeginEach(w, Root, own[i])
      PROVE  Seated' /\ (Covered => Covered')
  <2> DEFINE n == own[i]
             t == Root
  <2>1. n \in ToSet(own) /\ n \in Nat /\ t = Root /\ BeginEach(w, t, n)
    BY <1>9, OwnIdx
  <2>2. t \in Reachable(heap, stack)
    BY ReachFacts DEF Roots
  <2> HIDE DEF n, t
  <2> QED BY <2>1, <2>2, BeginEachSeated
<1>10. ASSUME NEW w \in Running,
              Advance(w) \/ DropIterator(w) \/ AdvanceEach(w) \/ EndEach(w) \/ ThrowEach(w)
       PROVE  Seated' /\ (Covered /\ "throw" \notin Uses => Covered')
  <2>1. ThrowEach(w) => "throw" \in Uses
    BY DEF ThrowEach
  <2> QED BY <1>10, <2>1, AdvanceSeated, DropSeated, AdvanceEachSeated, EndEachSeated, ThrowEachSeated
<1>11. ASSUME NEW w \in Running, NEW v \in Walks \ Running, CopyWalk(v, w)
       PROVE  FALSE
  BY <1>11 DEF CopyWalk
<1> QED BY <1>1, <1>2, <1>3, <1>4, <1>5, <1>6, <1>7, <1>8, <1>9, <1>10, <1>11 DEF TablesNext

LEMMA SeatedAlways ==
    ASSUME "copy" \notin Uses, "not_top" \notin Uses
    PROVE  TablesSpec => [](TablesTyped /\ Seated)
<1>1. TablesInit => TablesTyped /\ Seated
  BY TypesInitially, InitiallySeated
<1>2. TablesTyped /\ Seated /\ [TablesNext]_tablevars => TablesTyped' /\ Seated'
  BY TypesStep, SeatedStep
<1> QED BY <1>1, <1>2, PTL DEF TablesSpec

(***************************************************************************)
(* The stack under tables, with any tables, paths and walks of a program   *)
(* that copies no iterator, advances none under other values and throws    *)
(* no exception through for_each: it belongs to the walks and to the       *)
(* program, slot by slot.                                                  *)
(***************************************************************************)
THEOREM StackOfTables ==
    ASSUME Uses \subseteq {"stack_push", "stack_valid"}
    PROVE  TablesSpec => []StackPartitioned
<1>0. "copy" \notin Uses /\ "not_top" \notin Uses /\ "throw" \notin Uses
  OBVIOUS
<1>1. TablesInit => TablesTyped /\ Seated /\ Covered
  BY TypesInitially, InitiallySeated
<1>2. TablesTyped /\ Seated /\ Covered /\ [TablesNext]_tablevars => TablesTyped' /\ Seated' /\ Covered'
  BY <1>0, TypesStep, SeatedStep
<1>3. TablesTyped /\ Seated /\ Covered => StackPartitioned
  <2>1. SUFFICES ASSUME TablesTyped, Seated, Covered PROVE StackPartitioned
    OBVIOUS
  <2>2. \A w \in Running : SlotsOf(w) = Seats(walks[w])
    BY DEF SlotsOf, Seats
  <2>3. ASSUME NEW w \in Running
        PROVE  /\ SlotsOf(w) \subseteq (1 .. Len(stack)) \ ToSet(own)
               /\ stack[walks[w].tableidx] = walks[w].table
               /\ ~walks[w].ended =>
                     /\ stack[walks[w].keyidx] = walks[w].key
                     /\ walks[w].kind = "for_each" => stack[walks[w].keyidx + 1] = Handed
               /\ \A v \in Running \ {w} : SlotsOf(v) \cap SlotsOf(w) = {}
    <3>1. Sits(walks[w], stack, own)
      BY <2>1 DEF Seated
    <3>2. \A v \in Running \ {w} : SlotsOf(v) \cap SlotsOf(w) = {}
      BY <2>1, <2>2 DEF Seated
    <3> QED BY <2>2, <3>1, <3>2 DEF Sits
  <2>4. \A i \in ToSet(own) : i \in 1 .. Len(stack) /\ stack[i] = Root
    BY <2>1 DEF Seated, OwnSeated
  <2>5. 1 .. Len(stack) = ToSet(own) \cup UNION {SlotsOf(w) : w \in Running}
    <3>1. \A w \in Running : \A i \in SlotsOf(w) : i \in 1 .. Len(stack)
      BY <2>3
    <3>2. \A i \in 1 .. Len(stack) : i \in ToSet(own) \/ \E w \in Running : i \in SlotsOf(w)
      BY <2>1, <2>2 DEF Covered
    <3> QED BY <2>4, <3>1, <3>2
  <2> QED BY <2>3, <2>4, <2>5 DEF StackPartitioned
<1> QED BY <1>1, <1>2, <1>3, PTL DEF TablesSpec

-----------------------------------------------------------------------------
(* What the walks hand out.                                                *)

\* The order in which lua_next goes through the keys.
Before(a, b) ==
    \E i, j \in 1 .. Len(KeyOrder) : i < j /\ KeyOrder[i] = a /\ KeyOrder[j] = b

LEMMA BeforeFacts ==
    /\ \A a : ~Before(a, a)
    /\ \A a, b, c : Before(a, b) /\ Before(b, c) => Before(a, c)
    /\ LuaNil \notin Keys
<1> DEFINE N == Len(KeyOrder)
<1>1. /\ N \in Nat /\ \A i, j \in 1 .. N : KeyOrder[i] = KeyOrder[j] => i = j
      /\ \A i \in 1 .. N : KeyOrder[i] # "nil"
  BY TablesAssumption
<1>2. LuaNil \notin Keys
  BY <1>1 DEF Keys, LuaNil
<1> HIDE DEF N
<1>3. ASSUME NEW a, Before(a, a) PROVE FALSE
  <2>1. PICK i, j \in 1 .. N : i < j /\ KeyOrder[i] = a /\ KeyOrder[j] = a
    BY <1>3 DEF Before, N
  <2> QED BY <1>1, <2>1
<1>4. ASSUME NEW a, NEW b, NEW c, Before(a, b), Before(b, c) PROVE Before(a, c)
  <2>1. PICK i, j \in 1 .. N : i < j /\ KeyOrder[i] = a /\ KeyOrder[j] = b
    BY <1>4 DEF Before, N
  <2>2. PICK m, n \in 1 .. N : m < n /\ KeyOrder[m] = b /\ KeyOrder[n] = c
    BY <1>4 DEF Before, N
  <2>3. j = m
    BY <1>1, <2>1, <2>2
  <2>4. i < n
    BY <1>1, <2>1, <2>2, <2>3
  <2> QED BY <2>1, <2>2, <2>4 DEF Before, N
<1> QED BY <1>2, <1>3, <1>4

\* A walk hands the fields out in that order, and those that stay are behind
\* it or still before it.
Remembers(q, h) ==
    /\ q.always \subseteq Filled(h, q.table)
    /\ \A i, j \in 1 .. Len(q.seen) : i < j => Before(q.seen[i], q.seen[j])
    /\ \A i \in 1 .. Len(q.seen) :
          q.ended \/ (q.key # LuaNil /\ (q.seen[i] = q.key \/ Before(q.seen[i], q.key)))
    /\ \A k \in q.always :
          \/ k \in ToSet(q.seen)
          \/ ~q.ended /\ (q.key = LuaNil \/ Before(q.key, k))

LEMMA RestFacts ==
    ASSUME NEW st, NEW q, Last(st) = q.key, st[q.tableidx] = q.table
    PROVE  \A j : j \in Rest(heap, st[q.tableidx], Last(st)) <=>
                     /\ j \in 1 .. Len(KeyOrder)
                     /\ q.key = LuaNil \/ Before(q.key, KeyOrder[j])
                     /\ heap[q.table][KeyOrder[j]] # LuaNil
<1> DEFINE R == Rest(heap, st[q.tableidx], Last(st))
           k == q.key
           N == Len(KeyOrder)
<1>1. \A j : j \in R <=> /\ j \in 1 .. N
                         /\ k = LuaNil \/ \E i \in 1 .. j - 1 : KeyOrder[i] = k
                         /\ heap[q.table][KeyOrder[j]] # LuaNil
  BY DEF Rest
<1>2. N \in Nat /\ \A i, j \in 1 .. N : KeyOrder[i] = KeyOrder[j] => i = j
  BY TablesAssumption
<1>3. ASSUME NEW j \in 1 .. N
      PROVE  (\E i \in 1 .. j - 1 : KeyOrder[i] = k) <=> Before(k, KeyOrder[j])
  <2>1. ASSUME NEW i \in 1 .. j - 1, KeyOrder[i] = k PROVE Before(k, KeyOrder[j])
    <3> HIDE DEF k, N
    <3>1. i \in 1 .. N /\ i < j
      BY <1>2, <2>1
    <3> QED BY <2>1, <3>1 DEF Before, N
  <2>2. ASSUME Before(k, KeyOrder[j]) PROVE \E i \in 1 .. j - 1 : KeyOrder[i] = k
    <3>1. PICK m, n \in 1 .. N : m < n /\ KeyOrder[m] = k /\ KeyOrder[n] = KeyOrder[j]
      BY <2>2 DEF Before
    <3> HIDE DEF k, N
    <3>2. n = j
      BY <1>2, <3>1
    <3>3. m \in 1 .. j - 1
      BY <1>2, <3>1, <3>2
    <3> QED BY <3>1, <3>3
  <2> QED BY <2>1, <2>2
<1> QED BY <1>1, <1>3

LEMMA StepRemembers ==
    ASSUME NEW q \in Walk, ~q.ended, Remembers(q, heap), NEW st \in Seq(Slots), NEW keep \in {1, 2},
           st[q.tableidx] = q.table, Last(st) = q.key
    PROVE  Stepped(st, q, keep).w \in Walk /\ Remembers(Stepped(st, q, keep).w, heap)
<1> DEFINE r == Stepped(st, q, keep).w
           b == Cut(st, 1)
           k == NextKey(st, q)
           R == Rest(heap, st[q.tableidx], Last(st))
           N == Len(KeyOrder)
<1>1. /\ r \in Walk /\ Len(b) \in Nat
      /\ AtEnd(st, q) => r = Ended(q)
      /\ ~AtEnd(st, q) => r = Met(q, Len(b) + 1, k)
  BY SteppedFacts, LenProperties
<1>2. /\ q.always \subseteq Filled(heap, q.table) /\ q.always \subseteq Keys
      /\ \A i, j \in 1 .. Len(q.seen) : i < j => Before(q.seen[i], q.seen[j])
      /\ \A i \in 1 .. Len(q.seen) : q.key # LuaNil /\ (q.seen[i] = q.key \/ Before(q.seen[i], q.key))
      /\ \A x \in q.always : x \in ToSet(q.seen) \/ q.key = LuaNil \/ Before(q.key, x)
  BY FilledKeys DEF Remembers
<1>3. q.seen \in Seq(Keys) /\ Len(q.seen) \in Nat
  BY LenProperties DEF Walk
<1>4. \A j : j \in R <=> /\ j \in 1 .. N
                         /\ q.key = LuaNil \/ Before(q.key, KeyOrder[j])
                         /\ heap[q.table][KeyOrder[j]] # LuaNil
  BY RestFacts
<1>5. ASSUME NEW x \in q.always, x \notin ToSet(q.seen)
      PROVE  \E j \in R : KeyOrder[j] = x
  <2>1. PICK j \in 1 .. N : KeyOrder[j] = x
    BY <1>2 DEF Keys
  <2>2. heap[q.table][x] # LuaNil
    BY <1>2 DEF Filled
  <2> QED BY <1>2, <1>4, <1>5, <2>1, <2>2
<1> HIDE DEF R
<1>6. CASE AtEnd(st, q)
  <2>1. R = {}
    BY <1>6 DEF AtEnd, R
  <2>2. q.always \subseteq ToSet(q.seen)
    BY <1>5, <2>1
  <2> DEFINE e == Ended(q)
  <2>3. e.ended /\ e.seen = q.seen /\ e.always = q.always /\ e.table = q.table
    BY EndedFacts
  <2> HIDE DEF e
  <2>4. Remembers(e, heap)
    BY <1>2, <2>2, <2>3 DEF Remembers
  <2> QED BY <1>1, <1>6, <2>4 DEF e
<1>7. CASE ~AtEnd(st, q)
  <2>1. k \in Keys /\ \E i \in R : k = KeyOrder[i] /\ i \in 1 .. N /\ \A j \in R : i <= j
    BY <1>7, NextKeyFacts DEF R
  <2>2. PICK i \in R : k = KeyOrder[i] /\ i \in 1 .. N /\ \A j \in R : i <= j
    BY <2>1
  <2>3. q.key = LuaNil \/ Before(q.key, k)
    BY <1>4, <2>2
  <2> DEFINE n == Len(b) + 1
             e == Met(q, n, k)
             s == Append(q.seen, k)
             M == Len(q.seen)
  <2>4. n \in Nat
    BY <1>1
  <2> HIDE DEF k, n
  <2>5. q \in Walk /\ n \in Nat /\ k \in Keys
    BY <2>1, <2>4
  <2>6. e.table = q.table /\ e.always = q.always /\ e.ended = q.ended
    BY <2>5, MetFacts, Zenon
  <2>7. e.seen = s /\ e.key = k
    BY <2>5, MetFacts, Zenon
  <2>8. /\ s \in Seq(Keys) /\ Len(s) = M + 1 /\ s[M + 1] = k /\ \A j \in 1 .. M : s[j] = q.seen[j]
    BY <1>3, <2>1, AppendProperties
  <2>9. \A x : x \in ToSet(s) <=> x \in ToSet(q.seen) \/ x = k
    <3>1. DOMAIN s = 1 .. M + 1 /\ DOMAIN q.seen = 1 .. M
      BY <1>3, <2>8, LenProperties
    <3> HIDE DEF s, M
    <3>2. M \in Nat
      BY <1>3 DEF M
    <3>3. \A j \in 1 .. M + 1 : j = M + 1 \/ j \in 1 .. M
      BY <3>2
    <3>4. M + 1 \in 1 .. M + 1 /\ \A j \in 1 .. M : j \in 1 .. M + 1
      BY <3>2
    <3>5. \A x \in ToSet(s) : x \in ToSet(q.seen) \/ x = k
      BY <2>8, <3>1, <3>3 DEF ToSet
    <3>6. \A x \in ToSet(q.seen) : x \in ToSet(s)
      <4>1. SUFFICES ASSUME NEW j \in 1 .. M PROVE q.seen[j] \in ToSet(s)
        BY <3>1 DEF ToSet
      <4>2. j \in DOMAIN s /\ s[j] = q.seen[j]
        BY <2>8, <3>1, <3>4
      <4> QED BY <4>2 DEF ToSet
    <3>7. k \in ToSet(s)
      BY <2>8, <3>1, <3>4 DEF ToSet
    <3> QED BY <3>5, <3>6, <3>7
  <2> HIDE DEF e, s, M, b, r, N
  <2>10. \A j \in 1 .. M : Before(q.seen[j], k)
    BY <1>2, <2>3, BeforeFacts DEF M
  <2>11. M \in Nat
    BY <1>3 DEF M
  <2>12. \A j \in 1 .. M + 1 : j = M + 1 \/ j \in 1 .. M
    BY <2>11
  <2>13. \A a, j \in 1 .. M + 1 : a < j => Before(s[a], s[j])
    <3>1. SUFFICES ASSUME NEW a \in 1 .. M + 1, NEW j \in 1 .. M + 1, a < j PROVE Before(s[a], s[j])
      OBVIOUS
    <3>2. a \in 1 .. M
      BY <2>11, <3>1
    <3>3. CASE j = M + 1
      BY <2>8, <2>10, <3>2, <3>3
    <3>4. CASE j \in 1 .. M
      <4>1. Before(q.seen[a], q.seen[j])
        BY <1>2, <3>1, <3>2, <3>4 DEF M
      <4> QED BY <2>8, <3>2, <3>4, <4>1
    <3> QED BY <2>12, <3>3, <3>4
  <2>14. k # LuaNil /\ \A j \in 1 .. M + 1 : s[j] = k \/ Before(s[j], k)
    <3>1. k # LuaNil
      BY <2>1, BeforeFacts
    <3>2. \A j \in 1 .. M + 1 : s[j] = k \/ Before(s[j], k)
      BY <2>8, <2>10, <2>12
    <3> QED BY <3>1, <3>2
  <2>15. ASSUME NEW x \in q.always PROVE x \in ToSet(s) \/ Before(k, x)
    <3>1. CASE x \in ToSet(q.seen)
      BY <2>9, <3>1
    <3>2. CASE x \notin ToSet(q.seen)
      <4>1. PICK j \in R : KeyOrder[j] = x
        BY <1>5, <3>2
      <4>2. j \in 1 .. N /\ i <= j
        BY <1>4, <2>2, <4>1 DEF N
      <4>3. CASE i = j
        BY <2>2, <2>9, <4>1, <4>3
      <4>4. CASE i # j
        <5>1. i < j
          BY <2>2, <4>2, <4>4, TablesAssumption DEF N
        <5> QED BY <2>2, <4>1, <4>2, <5>1 DEF Before, N
      <4> QED BY <4>3, <4>4
    <3> QED BY <3>1, <3>2
  <2>16. Remembers(e, heap)
    <3>1. e.always \subseteq Filled(heap, e.table)
      BY <1>2, <2>6
    <3>2. \A a, j \in 1 .. Len(e.seen) : a < j => Before(e.seen[a], e.seen[j])
      BY <2>7, <2>8, <2>13
    <3>3. \A j \in 1 .. Len(e.seen) : e.key # LuaNil /\ (e.seen[j] = e.key \/ Before(e.seen[j], e.key))
      BY <2>7, <2>8, <2>14
    <3>4. \A x \in e.always : x \in ToSet(e.seen) \/ (~e.ended /\ Before(e.key, x))
      BY <2>6, <2>7, <2>15
    <3> QED BY <3>1, <3>2, <3>3, <3>4 DEF Remembers
  <2> QED BY <1>1, <1>7, <2>16 DEF e, n, r, k, b
<1> QED BY <1>6, <1>7

\* The table of a walk lies on the stack, so it is never collected.
LEMMA WalkedIsReached ==
    ASSUME NEW st \in Seq(Slots), NEW ow, NEW q \in Walk, Sits(q, st, ow),
           \A i \in ToSet(ow) : i \in 1 .. Len(st), NEW h
    PROVE  q.table \in Reachable(h, st) /\ q.table \in TableIds
<1>1. q.table \in TableIds /\ q.pushed => q.tableidx \in Seats(q)
  BY SeatFacts
<1>2. q.tableidx \in 1 .. Len(st) /\ st[q.tableidx] = q.table
  BY <1>1, SeatFacts DEF Sits
<1>3. DOMAIN st = 1 .. Len(st)
  BY LenProperties
<1>4. q.table \in ToSet(st)
  BY <1>2, <1>3 DEF ToSet
<1>5. q.table \in TableIds
  BY SeatFacts
<1>6. q.table \in Roots(st)
  BY <1>4, <1>5 DEF Roots
<1> QED BY <1>5, <1>6, ReachFacts

LEMMA KeptRemembers ==
    ASSUME NEW h \in Heaps, NEW st, NEW q \in Walk, q.table \in Reachable(h, st), Remembers(q, h)
    PROVE  Remembers(q, Collected(h, st))
<1> DEFINE c == Collected(h, st)
<1>1. q.table \in TableIds
  BY SeatFacts
<1>2. c[q.table] = h[q.table]
  BY <1>1, CollectedFacts
<1> HIDE DEF c
<1>3. Filled(c, q.table) = Filled(h, q.table)
  BY <1>2 DEF Filled
<1>4. Remembers(q, c)
  BY <1>3 DEF Remembers
<1> QED BY <1>4 DEF c

AllRemember == \A w \in Running : Remembers(walks[w], heap)

\* Every walk's table is reached after a step.
LEMMA WalkedAreReached ==
    ASSUME TablesTyped, Seated, NEW h, NEW w \in Running
    PROVE  walks[w].table \in Reachable(h, stack)
<1>1. walks[w] \in Walk /\ stack \in Seq(Slots)
  BY RunningWalks, TypesUnfold
<1>2. Sits(walks[w], stack, own) /\ \A i \in ToSet(own) : i \in 1 .. Len(stack)
  BY DEF Seated, OwnSeated
<1> QED BY <1>1, <1>2, WalkedIsReached

LEMMA ReachedNext ==
    ASSUME TablesTyped', Seated', NEW w \in Running', NEW h
    PROVE  walks'[w] \in Walk /\ walks'[w].table \in Reachable(h, stack')
<1>1. walks'[w] \in Walk /\ stack' \in Seq(Slots)
  <2>1. w \in Walks /\ walks'[w] # Gone
    BY DEF Running, Active
  <2>2. walks' \in [Walks -> Walk \cup {Gone}] /\ stack' \in Seq(FieldValues \cup Keys \cup {Handed})
    BY DEF TablesTyped
  <2> QED BY <2>1, <2>2 DEF Slots
<1>2. Sits(walks'[w], stack', own') /\ \A i \in ToSet(own') : i \in 1 .. Len(stack')
  BY DEF Seated, OwnSeated
<1> DEFINE q == walks'[w]
           st == stack'
           ow == own'
<1>3. q \in Walk /\ st \in Seq(Slots) /\ Sits(q, st, ow) /\ \A i \in ToSet(ow) : i \in 1 .. Len(st)
  BY <1>1, <1>2
<1> HIDE DEF q, st, ow
<1>4. q.table \in Reachable(h, st)
  BY <1>3, WalkedIsReached
<1> QED BY <1>3, <1>4 DEF q, st

\* One walk steps, begins or ends.
LEMMA WalkRemembered ==
    ASSUME TablesTyped, TablesTyped', Seated', AllRemember, NEW w \in Walks,
           NEW r \in Walk \cup {Gone}, walks' = [walks EXCEPT ![w] = r],
           heap' = Collected(heap, stack'), r # Gone => Remembers(r, heap)
    PROVE  AllRemember'
<1>1. SUFFICES ASSUME NEW v \in Running' PROVE Remembers(walks'[v], heap')
  BY DEF AllRemember
<1>2. v \in Walks /\ walks'[v] # Gone
  BY DEF Running, Active
<1>3. walks'[w] = r /\ (v # w => walks'[v] = walks[v])
  BY <1>2, WalkStored
<1>4. Remembers(walks'[v], heap)
  <2>1. CASE v = w
    BY <1>2, <1>3, <2>1
  <2>2. CASE v # w
    <3>1. v \in Running /\ walks'[v] = walks[v]
      BY <1>2, <1>3, <2>2 DEF Running, Active
    <3> QED BY <3>1 DEF AllRemember
  <2> QED BY <2>1, <2>2
<1>5. walks'[v] \in Walk /\ walks'[v].table \in Reachable(heap, stack') /\ heap \in Heaps
  BY ReachedNext, TypesUnfold
<1> QED BY <1>4, <1>5, KeptRemembers

\* Where a walk goes on.
LEMMA OnRemembered ==
    ASSUME TablesTyped, TablesTyped', Seated', AllRemember, NEW w \in Walks,
           NEW q \in Walk, ~q.ended, Remembers(q, heap), NEW st \in Seq(Slots), NEW keep \in {1, 2},
           st[q.tableidx] = q.table, Last(st) = q.key,
           walks' = [walks EXCEPT ![w] = Stepped(st, q, keep).w],
           heap' = Collected(heap, stack')
    PROVE  AllRemember'
<1> DEFINE r == Stepped(st, q, keep).w
<1>1. r \in Walk /\ Remembers(r, heap)
  BY StepRemembers
<1>2. walks' = [walks EXCEPT ![w] = r]
  OBVIOUS
<1> HIDE DEF r
<1> QED BY <1>1, <1>2, WalkRemembered

LEMMA FreshRemembers ==
    ASSUME NEW q, NEW kind, NEW t, NEW i, FreshWalk(q, kind, t, i)
    PROVE  Remembers(q, heap) /\ ~q.ended /\ q \in Walk /\ q.key = LuaNil
<1>1. q.seen = <<>> /\ q.key = LuaNil /\ q.always = Filled(heap, q.table) /\ ~q.ended /\ q \in Walk
  BY DEF FreshWalk
<1>2. \A j \in 1 .. Len(q.seen) : FALSE
  <2>1. Len(q.seen) = 0
    BY <1>1
  <2> QED BY <2>1
<1> QED BY <1>1, <1>2 DEF Remembers

LEMMA BeginRemembered ==
    ASSUME TablesTyped, TablesTyped', Seated', AllRemember,
           NEW w \in Walks, NEW t \in Reachable(heap, stack), Begin(w, t)
    PROVE  AllRemember'
<1> DEFINE q == NewWalk("iterator", t, TRUE, Len(stack) + 1)
           st == stack \o <<t, LuaNil>>
           one == 1
<1>1. /\ FreshWalk(q, "iterator", t, Len(stack) + 1) /\ st \in Seq(Slots)
      /\ st[q.tableidx] = t /\ Last(st) = LuaNil
  BY BegunFacts
<1>2. /\ walks' = [walks EXCEPT ![w] = Stepped(st, q, one).w]
      /\ heap' = Collected(heap, stack') /\ one \in {1, 2}
  BY DEF Begin
<1> HIDE DEF q, st, one
<1>3. Remembers(q, heap) /\ ~q.ended /\ q \in Walk /\ q.key = LuaNil /\ q.table = t
  BY <1>1, FreshRemembers DEF FreshWalk
<1>4. st[q.tableidx] = q.table /\ Last(st) = q.key
  BY <1>1, <1>3
<1> QED BY <1>1, <1>2, <1>3, <1>4, OnRemembered

LEMMA BeginEachRemembered ==
    ASSUME TablesTyped, TablesTyped', Seated, Seated', AllRemember,
           NEW w \in Walks, NEW t \in Reachable(heap, stack), NEW i \in Nat,
           i = 0 \/ (i \in ToSet(own) /\ t = Root), BeginEach(w, t, i)
    PROVE  AllRemember'
<1> DEFINE a == IF i = 0 THEN Append(stack, t) ELSE stack
           j == IF i = 0 THEN Len(a) ELSE i
           q == NewWalk("for_each", t, i = 0, j)
           st == Append(a, LuaNil)
           two == 2
<1>1. /\ FreshWalk(q, "for_each", t, j) /\ st \in Seq(Slots) /\ Last(st) = LuaNil
      /\ a \in Seq(Slots)
  BY BegunEachFacts
<1>2. /\ walks' = [walks EXCEPT ![w] = Stepped(st, q, two).w]
      /\ heap' = Collected(heap, stack') /\ two \in {1, 2}
  BY DEF BeginEach
<1>3. stack \in Seq(Slots) /\ Len(stack) \in Nat /\ t \in Slots /\ LuaNil \in Slots
  BY TypesUnfold, LenProperties, ReachFacts, ValuesAreSlots
<1>4. j \in 1 .. Len(a) /\ a[j] = t
  <2>1. CASE i = 0
    <3>1. Len(a) = Len(stack) + 1 /\ a[Len(stack) + 1] = t /\ j = Len(a)
      BY <1>3, <2>1, AppendFacts
    <3> HIDE DEF a, j
    <3> QED BY <1>3, <3>1
  <2>2. CASE i # 0
    <3>1. a = stack /\ j = i /\ i \in ToSet(own) /\ t = Root
      BY <2>2
    <3> QED BY <3>1 DEF Seated, OwnSeated
  <2> QED BY <2>1, <2>2
<1> HIDE DEF a, j, q, two
<1>5. st[j] = t
  BY <1>1, <1>3, <1>4, AppendFacts
<1> HIDE DEF st
<1>6. Remembers(q, heap) /\ ~q.ended /\ q \in Walk /\ q.key = LuaNil /\ q.table = t /\ q.tableidx = j
  BY <1>1, FreshRemembers DEF FreshWalk
<1>7. st[q.tableidx] = q.table /\ Last(st) = q.key
  BY <1>1, <1>5, <1>6
<1> QED BY <1>1, <1>2, <1>6, <1>7, OnRemembered

LEMMA AdvanceRemembered ==
    ASSUME TablesTyped, TablesTyped', Seated, Seated', AllRemember,
           NEW w \in Running, Advance(w), "not_top" \notin Uses
    PROVE  AllRemember'
<1> DEFINE q == walks[w]
           one == 1
<1>1. /\ q \in Walk /\ w \in Walks /\ Sits(q, stack, own) /\ stack \in Seq(Slots)
  BY TopmostFacts
<1>2. ~q.ended /\ Len(stack) = q.keyidx
  BY DEF Advance
<1>3. /\ walks' = [walks EXCEPT ![w] = Stepped(stack, q, one).w]
      /\ heap' = Collected(heap, stack') /\ one \in {1, 2}
  BY DEF Advance
<1>4. Remembers(q, heap)
  BY DEF AllRemember
<1> HIDE DEF q, one
<1>5. stack[q.tableidx] = q.table /\ Last(stack) = q.key
  BY <1>1, <1>2 DEF Sits, Last
<1> QED BY <1>1, <1>2, <1>3, <1>4, <1>5, OnRemembered

LEMMA AdvanceEachRemembered ==
    ASSUME TablesTyped, TablesTyped', Seated, Seated', AllRemember,
           NEW w \in Running, AdvanceEach(w)
    PROVE  AllRemember'
<1> DEFINE q == walks[w]
           two == 2
           st == Cut(stack, 1)
           N == Len(stack)
<1>1. /\ q \in Walk /\ w \in Walks /\ Sits(q, stack, own) /\ OwnSeated
      /\ stack \in Seq(Slots) /\ N \in Nat
      /\ \A i : i \in Given(w) <=>
            \/ q.pushed /\ i = q.tableidx
            \/ ~q.ended /\ i = q.keyidx
            \/ ~q.ended /\ q.kind = "for_each" /\ i = q.keyidx + 1
      /\ \A i \in Given(w) : i \in 1 .. N /\ i \notin ToSet(own)
  BY TopmostFacts
<1>2. ~q.ended /\ N = q.keyidx + 1 /\ q.kind = "for_each"
  BY DEF AdvanceEach
<1>3. /\ walks' = [walks EXCEPT ![w] = Stepped(st, q, two).w]
      /\ heap' = Collected(heap, stack') /\ two \in {1, 2}
  BY DEF AdvanceEach
<1>4. Remembers(q, heap)
  BY DEF AllRemember
<1>5. q.tableidx \in Nat /\ q.keyidx \in Int
  BY <1>1, SeatFacts
<1> HIDE DEF q, two, N
<1>6. q.keyidx = N - 1 /\ q.keyidx \in 1 .. N /\ N \in 1 .. N
  BY <1>1, <1>2, <1>5
<1>7. q.tableidx \in 1 .. N - 1
  <2>1. CASE q.pushed
    <3>1. q.keyidx = q.tableidx + 1 /\ q.tableidx \in 1 .. N
      BY <1>1, <1>2, <2>1 DEF Sits
    <3> QED BY <1>1, <1>6, <3>1
  <2>2. CASE ~q.pushed
    <3>1. q.tableidx \in ToSet(own) /\ N \notin ToSet(own)
      BY <1>1, <1>2, <2>2 DEF Sits
    <3>2. q.tableidx \in 1 .. N /\ q.tableidx # N
      BY <1>1, <3>1 DEF OwnSeated, N
    <3> QED BY <1>1, <3>2
  <2> QED BY <2>1, <2>2
<1>8. /\ st \in Seq(Slots) /\ Len(st) = N - 1 /\ \A i \in 1 .. N - 1 : st[i] = stack[i]
  <2>1. 1 <= N
    BY <1>1, <1>6
  <2> QED BY <1>1, <2>1, CutTwice DEF N
<1> HIDE DEF st
<1>9. N - 1 \in 1 .. N - 1
  BY <1>1, <1>6
<1>10. st[q.tableidx] = q.table /\ Last(st) = q.key
  BY <1>1, <1>2, <1>6, <1>7, <1>8, <1>9 DEF Sits, Last
<1> QED BY <1>1, <1>2, <1>3, <1>4, <1>8, <1>10, OnRemembered

LEMMA GoneRemembered ==
    ASSUME TablesTyped, TablesTyped', Seated', AllRemember, NEW w \in Running,
           DropIterator(w) \/ EndEach(w) \/ ThrowEach(w)
    PROVE  AllRemember'
<1> DEFINE r == Gone
<1>1. walks' = [walks EXCEPT ![w] = r] /\ heap' = Collected(heap, stack')
  BY DEF DropIterator, EndEach, ThrowEach, LeftBy
<1>2. r \in Walk \cup {Gone} /\ ~(r # Gone) /\ w \in Walks
  BY DEF Running
<1> HIDE DEF r
<1> QED BY <1>1, <1>2, WalkRemembered

\* Lua adds no field to a table that is walked; of those that are taken away
\* the history takes note.
LEMMA ChangesRemembered ==
    ASSUME TablesTyped, TablesTyped', Seated', AllRemember, NEW h \in Heaps, Changes(h)
    PROVE  AllRemember'
<1>1. SUFFICES ASSUME NEW w \in Running' PROVE Remembers(walks'[w], heap')
  BY DEF AllRemember
<1>2. /\ w \in Running /\ Alike(walks[w], walks'[w])
      /\ walks'[w].always = walks[w].always \cap Filled(h, walks[w].table)
  BY ChangesAlike
<1>3. heap' = Collected(h, stack')
  BY ChangesFacts
<1>4. walks'[w] \in Walk /\ walks'[w].table \in Reachable(h, stack')
  BY ReachedNext
<1> DEFINE q == walks'[w]
           p == walks[w]
<1>5. Remembers(p, heap)
  BY <1>2 DEF AllRemember
<1>6. Alike(p, q) /\ q.always = p.always \cap Filled(h, p.table)
  BY <1>2
<1> HIDE DEF q, p
<1>7. Remembers(q, h)
  BY <1>5, <1>6 DEF Remembers, Alike
<1> QED BY <1>3, <1>4, <1>7, KeptRemembers DEF q

LEMMA RememberStep ==
    ASSUME TablesTyped, TablesTyped', Seated, Seated', AllRemember, [TablesNext]_tablevars,
           "copy" \notin Uses, "not_top" \notin Uses
    PROVE  AllRemember'
<1>0. ASSUME walks' = walks, heap' = heap PROVE AllRemember'
  BY <1>0 DEF AllRemember, Running, Active
<1>1. CASE UNCHANGED tablevars
  BY <1>0, <1>1 DEF tablevars
<1>2. CASE PushOwn \/ PopOwn
  BY <1>0, <1>2 DEF PushOwn, PopOwn
<1>10. ASSUME PathStep PROVE AllRemember'
  <2>1. PICK h \in Heaps : Changes(h)
    BY <1>10 DEF PathStep
  <2> QED BY <2>1, ChangesRemembered
<1>3. CASE Get \/ Set
  BY <1>3, <1>10, GetIsPathStep, SetIsPathStep
<1>4. ASSUME NEW s \in Started, NEW path \in Paths, ProxyPush(s, path) \/ ForceProxy(s, path)
      PROVE  AllRemember'
  <2>1. CASE ProxyPush(s, path)
    BY <1>0, <2>1 DEF ProxyPush
  <2>2. CASE ForceProxy(s, path)
    <3>1. AskStep \/ PathStep
      BY <2>2, ForceIsPathStep
    <3> QED BY <1>0, <1>10, <3>1 DEF AskStep
  <2> QED BY <1>4, <2>1, <2>2
<1>5. ASSUME NEW t \in Reachable(heap, stack), Clear(t) \/ AskEmpty(t)
      PROVE  AllRemember'
  <2>1. CASE AskEmpty(t)
    BY <1>0, <2>1 DEF AskEmpty
  <2>2. CASE Clear(t)
    <3> DEFINE h == [heap EXCEPT ![t] = Empty]
    <3>1. Changes(h)
      BY <2>2 DEF Clear
    <3>2. heap \in Heaps /\ Empty \in [Keys -> FieldValues]
      BY TypesUnfold, EmptyType
    <3>3. h \in Heaps
      BY <3>2 DEF Heaps
    <3> HIDE DEF h
    <3> QED BY <3>1, <3>3, ChangesRemembered
  <2> QED BY <1>5, <2>1, <2>2
<1>6. ASSUME NEW t \in Reachable(heap, stack), NEW w \in Walks, Begin(w, t) \/ BeginEach(w, t, 0)
      PROVE  AllRemember'
  <2> DEFINE z == 0
  <2>1. z \in Nat /\ z = 0 /\ (Begin(w, t) \/ BeginEach(w, t, z))
    BY <1>6
  <2> HIDE DEF z
  <2> QED BY <2>1, BeginRemembered, BeginEachRemembered
<1>7. ASSUME NEW w \in Walks, NEW i \in 1 .. Len(own), BeginEach(w, Root, own[i])
      PROVE  AllRemember'
  <2> DEFINE n == own[i]
             t == Root
  <2>1. n \in ToSet(own) /\ n \in Nat /\ t = Root /\ BeginEach(w, t, n)
    BY <1>7, OwnIdx
  <2>2. t \in Reachable(heap, stack)
    BY ReachFacts DEF Roots
  <2> HIDE DEF n, t
  <2> QED BY <2>1, <2>2, BeginEachRemembered
<1>8. ASSUME NEW w \in Running,
             Advance(w) \/ DropIterator(w) \/ AdvanceEach(w) \/ EndEach(w) \/ ThrowEach(w)
      PROVE  AllRemember'
  BY <1>8, AdvanceRemembered, AdvanceEachRemembered, GoneRemembered
<1>9. ASSUME NEW w \in Running, NEW v \in Walks \ Running, CopyWalk(v, w)
      PROVE  FALSE
  BY <1>9 DEF CopyWalk
<1> QED BY <1>1, <1>2, <1>3, <1>4, <1>5, <1>6, <1>7, <1>8, <1>9 DEF TablesNext

(***************************************************************************)
(* The walks, with any tables, keys and number of walks: every field that  *)
(* stays is handed out, and none twice, also where functions throw.        *)
(***************************************************************************)
THEOREM FieldsOfWalks ==
    ASSUME "copy" \notin Uses, "not_top" \notin Uses
    PROVE  TablesSpec => []EachFieldOnce
<1>1. TablesInit => TablesTyped /\ Seated /\ AllRemember
  <2>1. TablesInit => Running = {}
    BY DEF TablesInit, Running, Active
  <2> QED BY <2>1, TypesInitially, InitiallySeated DEF AllRemember
<1>2. TablesTyped /\ Seated /\ AllRemember /\ [TablesNext]_tablevars
      => TablesTyped' /\ Seated' /\ AllRemember'
  BY TypesStep, SeatedStep, RememberStep
<1>3. TablesTyped /\ AllRemember => EachFieldOnce
  <2>1. SUFFICES ASSUME TablesTyped, AllRemember, NEW w \in Running
                 PROVE  /\ \A i, j \in 1 .. Len(walks[w].seen) :
                              walks[w].seen[i] = walks[w].seen[j] => i = j
                        /\ walks[w].ended => walks[w].always \subseteq ToSet(walks[w].seen)
    BY DEF EachFieldOnce
  <2> DEFINE q == walks[w]
             N == Len(q.seen)
  <2>2. q \in Walk /\ Remembers(q, heap)
    BY <2>1, RunningWalks DEF AllRemember
  <2>3. N \in Nat
    <3>1. q.seen \in Seq(Keys)
      BY <2>2, SeatFacts
    <3> QED BY <3>1, LenProperties
  <2>4. \A i, j \in 1 .. N : i < j => Before(q.seen[i], q.seen[j])
    BY <2>2 DEF Remembers
  <2>5. q.ended => q.always \subseteq ToSet(q.seen)
    BY <2>2 DEF Remembers
  <2> HIDE DEF q, N
  <2>6. ASSUME NEW i \in 1 .. N, NEW j \in 1 .. N, q.seen[i] = q.seen[j] PROVE i = j
    <3>1. ~(i < j) /\ ~(j < i)
      BY <2>4, <2>6, BeforeFacts
    <3> QED BY <2>3, <3>1
  <2> QED BY <2>5, <2>6 DEF q, N
<1> QED BY <1>1, <1>2, <1>3, PTL DEF TablesSpec

-----------------------------------------------------------------------------
(* Reading along a path.                                                   *)

\* A probe is where Lua comes to, or stopped where there is nothing.
Probes(x, place, h) ==
    IF place \in {"error", LuaNil} THEN x.end = "none"
    ELSE x.end = "go" /\ x.heap = h /\ At(x) = place

LEMMA ProbeLeads ==
    ASSUME NEW op \in {"optional", "valid"}, NEW m, Starts(m), NEW path \in Seq(Keys),
           NEW n \in 0 .. Len(path)
    PROVE  LET x == deep(op, m, path, "none")[n]
               place == Led(m.heap, At(m), path)[n]
           IN  /\ Probes(x, place, m.heap) /\ x \in Machines
               /\ n # 0 /\ place \notin {"error", LuaNil} => Top(x) = place
               /\ place # "error" => place \in FieldValues
<1> DEFINE N == Len(path)
           mode == "none"
           d == deep(op, m, path, mode)
           h == m.heap
           t == At(m)
           l == Led(h, t, path)
           Fine(i) == /\ Probes(d[i], l[i], h)
                      /\ (i # 0 /\ l[i] \notin {"error", LuaNil}) => Top(d[i]) = l[i]
                      /\ l[i] # "error" => l[i] \in FieldValues
           T == {i \in Nat : i <= N => Fine(i)}
<1>1. /\ m \in Machines /\ h \in Heaps /\ t \in TableIds /\ t \in Slots /\ m.end = "go"
      /\ N \in Nat /\ op \in PathOperations
  BY MachineFacts, ValuesAreSlots, LenProperties DEF Starts, PathOperations
<1>2. /\ d \in [0 .. N -> Machines] /\ d[0] = m
      /\ \A i \in 1 .. N : d[i] = along(op, d[i - 1], path[i], mode)
  BY <1>1, DeepFacts
<1>3. /\ l[0] = t
      /\ \A i \in 1 .. N : l[i] = IF l[i - 1] \in TableIds THEN h[l[i - 1]][path[i]] ELSE "error"
  BY <1>1, LedFacts
<1>4. \A i \in 1 .. N : path[i] \in Keys
  BY ElementOfSeq
<1> HIDE DEF d, l, N
<1>5. 0 \in T
  BY <1>1, <1>2, <1>3, NoPlaceIsError, ValuesAreSlots DEF Probes
<1>6. ASSUME NEW i \in Nat, i < N, i \in T PROVE i + 1 \in T
  <2>1. i + 1 \in 1 .. N /\ (i + 1) - 1 = i /\ i \in 0 .. N /\ i <= N /\ i + 1 # 0 /\ i + 1 \in Nat
    BY <1>1, <1>6
  <2> DEFINE x == d[i]
             k == path[i + 1]
             r == along(op, x, k, mode)
             f == Found(x, k)
  <2>2. x \in Machines /\ k \in Keys /\ d[i + 1] = r
    BY <1>2, <1>4, <2>1
  <2>3. l[i + 1] = IF l[i] \in TableIds THEN h[l[i]][k] ELSE "error"
    BY <1>3, <2>1
  <2>4. Probes(x, l[i], h)
    BY <1>6, <2>1
  <2>5. x.end = "go" =>
           IF At(x) \in TableIds
           THEN /\ f \in FieldValues
                /\ IF f = LuaNil THEN r.end = "none"
                   ELSE r.end = "go" /\ r.heap = x.heap /\ At(r) = f /\ Top(r) = f
           ELSE r.end = "none"
    <3>0. /\ x.st \in Seq(Slots) /\ FieldValues \subseteq Slots
          /\ At(x) \in TableIds => f \in FieldValues
      <4> HIDE DEF x, k
      <4> QED BY <2>2, MachineFacts, ValuesAreSlots, GetFacts
    <3>1. CASE op = "optional"
      <4> DEFINE type == "object"
      <4>1. r = get_deep_optional(x, k, type, mode)
        BY <3>1 DEF along
      <4>2. Fits(f, type) <=> f # LuaNil
        BY DEF Fits
      <4> HIDE DEF x, k, r, type, f
      <4>3. mode = "none"
        OBVIOUS
      <4> HIDE DEF mode
      <4>4. x.end = "go" =>
               /\ r.heap = x.heap /\ Onward(x, r, 1)
               /\ At(x) \notin TableIds => r.end = "none"
               /\ At(x) \in TableIds =>
                     IF f # LuaNil /\ Fits(f, type) THEN r.end = "go" /\ Top(r) = f
                     ELSE r.end = "none"
        BY <2>2, <4>1, <4>3, OptionalFacts DEF f
      <4>5. x.end = "go" /\ r.end = "go" => At(r) = Top(r)
        BY <4>4 DEF Onward, At, Top, Last
      <4> QED BY <3>0, <4>2, <4>4, <4>5
    <3>2. CASE op = "valid"
      <4> DEFINE p == probe(x, k)
      <4>1. r = IF x.end = "go" THEN Descend(p) ELSE x
        BY <3>2 DEF along
      <4> HIDE DEF x, k, r
      <4>2. /\ p \in Machines /\ p.heap = x.heap
            /\ At(x) \notin TableIds => p.end = "none"
            /\ At(x) \in TableIds =>
                  /\ p.st = Append(x.st, f)
                  /\ p.end = (IF f = LuaNil THEN "none" ELSE x.end)
        BY <2>2, ProbeFacts
      <4> HIDE DEF p
      <4>3. /\ Descend(p).at = Len(p.st) /\ Descend(p).st = p.st /\ Descend(p).heap = p.heap
            /\ Descend(p).end = p.end
        BY <4>2, DescendFacts
      <4> HIDE DEF f
      <4>4. x.end = "go" /\ At(x) \in TableIds => At(r) = f /\ Top(r) = f
        BY <3>0, <4>1, <4>2, <4>3, TopIsAt
      <4> QED BY <3>0, <4>1, <4>2, <4>3, <4>4
    <3> QED BY <3>1, <3>2
  <2>6. x.end # "go" => r = x
    <3> HIDE DEF x, k, mode
    <3> QED BY <1>1, <2>2, AlongFacts
  <2>7. f = x.heap[At(x)][k]
    BY DEF Found
  <2> HIDE DEF x, k, r, f, T
  <2>8. CASE l[i] \in {"error", LuaNil}
    BY <2>2, <2>3, <2>4, <2>6, <2>8, <2>1, NoPlaceIsError DEF Probes, T
  <2>9. CASE l[i] \notin {"error", LuaNil}
    <3>1. x.end = "go" /\ x.heap = h /\ At(x) = l[i]
      BY <2>4, <2>9 DEF Probes
    <3>2. CASE l[i] \in TableIds
      <4>1. l[i + 1] = f /\ f \in FieldValues /\ f # "error"
        BY <2>3, <2>5, <2>7, <3>1, <3>2, NoPlaceIsError
      <4> QED BY <2>1, <2>2, <2>5, <3>1, <3>2, <4>1 DEF Probes, T
    <3>3. CASE l[i] \notin TableIds
      BY <2>1, <2>2, <2>3, <2>5, <3>1, <3>3 DEF Probes, T
    <3> QED BY <3>2, <3>3
  <2> QED BY <2>8, <2>9
<1>7. \A i \in Nat : i < N /\ i \in T => i + 1 \in T
  BY <1>6
<1> HIDE DEF T
<1>8. \A i \in Nat : i <= N => i \in T
  BY <1>1, <1>5, <1>7, StepByStep
<1>9. n \in Nat /\ n <= N /\ n \in 0 .. N
  BY <1>1 DEF N
<1>10. Fine(n)
  BY <1>8, <1>9 DEF T
<1> QED BY <1>2, <1>9, <1>10 DEF d, l, h, t, mode

LEMMA GetAgrees ==
    ASSUME NEW m, Starts(m), NEW path \in Seq(Keys), path # <<>>
    PROVE  LET v == Lookup(m.heap, At(m), path)
               g == traverse_get(m, path, "object", "none")
           IN  /\ v # "error" => v \in FieldValues
               /\ g.end = v /\ (v # "error" => g.st = m.st)
<1> DEFINE N == Len(path)
           op == "get"
           type == "object"
           mode == "none"
           l == Led(m.heap, At(m), path)
           x == deep(op, m, path, mode)[N - 1]
           k == Last(path)
           final == get_deep(x, k, type, mode)
           g == traverse_get(m, path, type, mode)
<1>1. /\ N \in Nat /\ N - 1 \in 0 .. N /\ N \in 1 .. N /\ k \in Keys /\ k = path[N]
  <2>1. N \in Nat /\ N >= 1 /\ N - 1 \in 0 .. N /\ k \in Keys /\ k = path[N]
    BY PathFacts
  <2> HIDE DEF N
  <2> QED BY <2>1
<1>2. /\ m \in Machines /\ m.heap \in Heaps /\ At(m) \in Slots
  BY MachineFacts, ValuesAreSlots DEF Starts
<1>3. l[N] = IF l[N - 1] \in TableIds THEN m.heap[l[N - 1]][k] ELSE "error"
  BY <1>1, <1>2, LedFacts
<1>4. Strict(x, l[N - 1], m.heap) /\ x \in Machines
  BY <1>1, StrictLeads
<1>5. g = [final EXCEPT !.st = IF final.end = "error" THEN @ ELSE Cut(@, N),
                       !.end = IF @ = "error" THEN @ ELSE Top(final)]
  BY DEF traverse_get
<1>6. Starts(m) /\ g.end # "error" => g.st = m.st
  <2> HIDE DEF type, mode
  <2> QED BY <1>2, TraverseGetFacts
<1>7. final \in Machines
  <2> HIDE DEF x, type, mode, k
  <2> QED BY <1>1, <1>4, GetDeepFacts
<1>8. x.end = "go" =>
         IF At(x) \in TableIds
         THEN /\ final.end = "go" /\ Top(final) = Found(x, k) /\ Found(x, k) \in FieldValues
         ELSE final.end = "error"
  <2> HIDE DEF x, type, k
  <2> QED BY <1>1, <1>4, GetDeepLeads
<1>9. x.end # "go" => final = x
  <2> HIDE DEF x, type, mode, k
  <2> QED BY <1>1, <1>4, GetDeepFacts
<1> DEFINE top == Top(final)
<1>10. g.end = IF final.end = "error" THEN "error" ELSE top
  <2> HIDE DEF final, g, top, N
  <2>1. final = [st |-> final.st, heap |-> final.heap, at |-> final.at, count |-> final.count, end |-> final.end]
    BY <1>7 DEF Machines
  <2> QED BY <1>5, <2>1 DEF top
<1>11. Found(x, k) = x.heap[At(x)][k]
  BY DEF Found
<1>12. Lookup(m.heap, At(m), path) = l[N]
  BY DEF Lookup
<1> HIDE DEF x, final, g, l, N, top, k
<1>13. CASE l[N - 1] = "error"
  <2>1. x.end = "error" /\ final = x /\ l[N] = "error"
    BY <1>3, <1>4, <1>9, <1>13, NoPlaceIsError DEF Strict
  <2> QED BY <1>10, <1>12, <2>1 DEF g, type, mode
<1>14. CASE l[N - 1] # "error"
  <2>1. x.end = "go" /\ x.heap = m.heap /\ At(x) = l[N - 1]
    BY <1>4, <1>14 DEF Strict
  <2>2. CASE l[N - 1] \in TableIds
    <3>1. l[N] \in FieldValues /\ l[N] # "error" /\ g.end = l[N]
      BY <1>3, <1>8, <1>10, <1>11, <2>1, <2>2, NoPlaceIsError DEF top
    <3> QED BY <1>6, <1>12, <3>1 DEF g, type, mode
  <2>3. CASE l[N - 1] \notin TableIds
    <3>1. l[N] = "error" /\ g.end = "error"
      BY <1>3, <1>8, <1>10, <2>1, <2>3
    <3> QED BY <1>12, <3>1 DEF g, type, mode
  <2> QED BY <2>2, <2>3
<1> QED BY <1>13, <1>14

LEMMA OptionalAgrees ==
    ASSUME NEW m, Starts(m), NEW path \in Seq(Keys), path # <<>>
    PROVE  LET v == Lookup(m.heap, At(m), path)
               o == traverse_get_optional(m, path, "object", "none")
           IN  o.end = (IF v = "error" THEN LuaNil ELSE v) /\ o.st = m.st
<1> DEFINE N == Len(path)
           op == "optional"
           type == "object"
           mode == "none"
           l == Led(m.heap, At(m), path)
           d == deep(op, m, path, mode)
           x == d[N - 1]
           k == Last(path)
           final == get_deep_optional(x, k, type, mode)
           o == traverse_get_optional(m, path, type, mode)
<1>1. /\ N \in Nat /\ N \in 0 .. N /\ N \in 1 .. N /\ k = path[N] /\ N # 0
  <2>1. N \in Nat /\ N >= 1 /\ k = path[N]
    BY PathFacts
  <2> HIDE DEF N
  <2> QED BY <2>1
<1>2. m \in Machines
  BY DEF Starts
<1>3. final = d[N]
  <2>1. op \in PathOperations
    BY DEF PathOperations
  <2>2. d[N] = along(op, x, k, mode)
    <3> HIDE DEF op, mode
    <3> QED BY <1>1, <1>2, <2>1, DeepFacts
  <2> QED BY <2>2 DEF along
<1>4. /\ Probes(d[N], l[N], m.heap) /\ d[N] \in Machines
      /\ l[N] \notin {"error", LuaNil} => Top(d[N]) = l[N]
      /\ l[N] # "error" => l[N] \in FieldValues
  BY <1>1, ProbeLeads
<1>5. o = [final EXCEPT !.st = IF final.end = "error" THEN @ ELSE Cut(@, final.count),
                       !.end = CASE @ = "go" /\ Fits(Top(final), type) -> Top(final)
                                 [] @ = "error" -> @
                                 [] OTHER -> LuaNil]
  BY DEF traverse_get_optional
<1>6. Starts(m) /\ o.end # "error" => o.st = m.st
  <2> HIDE DEF type, mode
  <2> QED BY <1>2, TraverseOptionalFacts
<1>7. Lookup(m.heap, At(m), path) = l[N]
  BY DEF Lookup
<1> DEFINE top == Top(final)
           fits == Fits(top, type)
<1>8. fits <=> top # LuaNil
  BY DEF Fits
<1> HIDE DEF fits
<1>9. o.end = CASE final.end = "go" /\ fits -> top
                [] final.end = "error" -> final.end
                [] OTHER -> LuaNil
  <2> HIDE DEF final, o, top
  <2>1. final = [st |-> final.st, heap |-> final.heap, at |-> final.at, count |-> final.count, end |-> final.end]
    BY <1>3, <1>4 DEF Machines
  <2> QED BY <1>5, <2>1 DEF fits, top
<1> HIDE DEF final, o, top, d, l, N
<1>10. CASE l[N] \in {"error", LuaNil}
  <2>1. final.end = "none"
    BY <1>3, <1>4, <1>10 DEF Probes
  <2>2. o.end = LuaNil
    BY <1>9, <2>1
  <2>3. o.end # "error"
    BY <2>2 DEF LuaNil
  <2> QED BY <1>6, <1>7, <1>10, <2>2, <2>3 DEF o, type, mode
<1>11. CASE l[N] \notin {"error", LuaNil}
  <2>1. final.end = "go" /\ top = l[N]
    BY <1>3, <1>4, <1>11 DEF Probes, top
  <2>2. o.end = l[N]
    BY <1>8, <1>9, <1>11, <2>1
  <2> QED BY <1>6, <1>7, <1>11, <2>2 DEF o, type, mode
<1> QED BY <1>10, <1>11

LEMMA ValidAgrees ==
    ASSUME NEW m, Starts(m), m.at = Len(m.st), NEW path \in Seq(Keys), path # <<>>
    PROVE  LET v == Lookup(m.heap, At(m), path)
               q == valid(m, path)
           IN  q.end = (IF v \in {"error", LuaNil} THEN "no" ELSE "yes") /\ q.st = m.st
<1> DEFINE N == Len(path)
           l == Led(m.heap, At(m), path)
           x == deep("valid", m, path, "none")[N]
           q == valid(m, path)
<1>1. N \in 0 .. N
  BY PathFacts
<1>2. Probes(x, l[N], m.heap)
  BY <1>1, ProbeLeads
<1>3. q.st = m.st /\ q.end = IF x.end = "go" THEN "yes" ELSE "no"
  BY ValidFacts
<1>4. Lookup(m.heap, At(m), path) = l[N]
  BY DEF Lookup
<1> HIDE DEF x, q, l, N
<1>5. q.end = (IF l[N] \in {"error", LuaNil} THEN "no" ELSE "yes") /\ q.st = m.st
  BY <1>2, <1>3 DEF Probes
<1> QED BY <1>4, <1>5 DEF q

LEMMA ProxyAgrees ==
    ASSUME NEW m, Starts(m), m.at = Len(m.st), NEW path \in Seq(Keys), path # <<>>
    PROVE  LET v == Lookup(m.heap, At(m), path)
               p == proxy_push(m, path)
           IN  IF v = "error" THEN p.end = "error"
               ELSE p.st = Append(Cut(m.st, 1), v) /\ v \in Slots
<1> DEFINE N == Len(path)
           l == Led(m.heap, At(m), path)
           x == deep("tuple", m, path, "none")[N]
           p == proxy_push(m, path)
<1>1. N \in 0 .. N /\ N # 0
  <2>1. N \in 0 .. N /\ N \in Nat /\ N >= 1
    BY PathFacts
  <2> HIDE DEF N
  <2> QED BY <2>1
<1>2. /\ Strict(x, l[N], m.heap)
      /\ l[N] # "error" => Top(x) = l[N] /\ l[N] \in FieldValues
  BY <1>1, StrictLeads
<1>3. /\ p.end # "error" <=> x.end # "error"
      /\ x.end # "error" => p.st = Append(Cut(m.st, 1), Top(x))
  BY ProxyFacts
<1>4. Lookup(m.heap, At(m), path) = l[N]
  BY DEF Lookup
<1> HIDE DEF x, p, l, N
<1>5. /\ l[N] = "error" => p.end = "error"
      /\ l[N] # "error" => p.st = Append(Cut(m.st, 1), l[N]) /\ l[N] \in Slots
  BY <1>2, <1>3, ValuesAreSlots DEF Strict
<1> QED BY <1>4, <1>5 DEF p

\* What a proxy pushes, of a table in the registry or on the stack.
LEMMA PushAgrees ==
    ASSUME TablesTyped, OwnSeated, "stack_push" \notin Uses, NEW s \in Started, NEW path \in Paths
    PROVE  LET v == Lookup(heap, At(s.m), path)
               p == pushed_by(s, path)
               base == Cut(s.m.st, s.pops)
           IN  /\ p.end # "error" => Cut(p.st, 1) = base
               /\ Pushable(s) => IF v = "error" THEN p.end = v ELSE p.st = Append(base, v)
<1> DEFINE m == s.m
           v == Lookup(heap, At(m), path)
           p == pushed_by(s, path)
           base == Cut(m.st, s.pops)
<1>1. /\ Starts(m) /\ path \in Seq(Keys) /\ path # <<>> /\ m.heap = heap /\ m \in Machines
      /\ m.st \in Seq(Slots) /\ m.end = "go" /\ s.pops \in {0, 1} /\ stack \in Seq(Slots)
  BY AllStart, PathsAreSequences, StartedFacts, MachineFacts, TypesUnfold
<1>2. s.pops \in Nat
  BY <1>1
<1>3. base \in Seq(Slots)
  BY <1>1, <1>2, CutFacts
<1>4. CASE s.pops = 1
  <2>1. PICK t \in Reachable(heap, stack) : m = Pushed(t)
    BY <1>4, StartedFacts
  <2>2. m.at = Len(m.st)
    BY <2>1, PushedFacts
  <2>3. p = proxy_push(m, path)
    BY <1>4 DEF pushed_by
  <2> HIDE DEF m, p
  <2>4. IF v = "error" THEN p.end = "error" ELSE p.st = Append(Cut(m.st, 1), v) /\ v \in Slots
    BY <1>1, <2>2, <2>3, ProxyAgrees
  <2> HIDE DEF v
  <2>5. IF v = "error" THEN p.end = "error" ELSE p.st = Append(base, v) /\ v \in Slots
    BY <1>4, <2>4
  <2> HIDE DEF base
  <2>6. v # "error" => Cut(p.st, 1) = base
    BY <1>3, <2>5, CutAppend
  <2> QED BY <2>5, <2>6 DEF m, p, v, base
<1>5. CASE s.pops = 0
  <2> DEFINE u == Lookup(heap, Globals, path)
  <2>1. p = proxy_push_in_place(m, path)
    BY <1>5 DEF pushed_by
  <2>2. m.st = stack
    BY <1>5, StartedFacts
  <2>3. base = m.st
    <3>1. Cut(stack, 0) = SubSeq(stack, 1, Len(stack))
      BY <1>1, LenProperties DEF Cut
    <3>2. Cut(stack, 0) = stack
      BY <1>1, <3>1, SubSeqFull
    <3> QED BY <1>5, <2>2, <3>2
  <2>4. Pushable(s) => At(m) = Globals
    BY <1>5 DEF Pushable, At
  <2> HIDE DEF m, p, base
  <2>5. IF u = "error" THEN p.end = "error" ELSE p.st = Append(m.st, u) /\ u \in Slots
    BY <1>1, <2>1, InPlaceAgrees
  <2>6. Pushable(s) => u = v
    BY <2>4
  <2> HIDE DEF u, v
  <2>7. IF u = "error" THEN p.end = "error" ELSE p.st = Append(base, u) /\ u \in Slots
    BY <2>3, <2>5
  <2>8. u # "error" => Cut(p.st, 1) = base
    BY <1>3, <2>7, CutAppend
  <2> QED BY <2>6, <2>7, <2>8 DEF m, p, v, base
<1> QED BY <1>1, <1>4, <1>5

\* Each way of reading gives what Lua gives.
LEMMA ReadsAlwaysAgree ==
    ASSUME TablesTyped, OwnSeated, NEW s \in Started, NEW path \in Paths,
           "stack_push" \notin Uses, "stack_valid" \notin Uses
    PROVE  ReadsAgree(s, path)
<1> DEFINE m == s.m
           v == Lookup(heap, At(m), path)
           g == traverse_get(m, path, "object", "none")
           o == traverse_get_optional(m, path, "object", "none")
           p == pushed_by(s, path)
           q == valid(m, path)
<1>1. /\ Starts(m) /\ path \in Seq(Keys) /\ path # <<>> /\ m.heap = heap
  BY AllStart, PathsAreSequences, StartedFacts
<1>2. Probed(s) => m.at = Len(m.st)
  BY DEF Probed
<1>3. g.end = v /\ (v # "error" => g.st = m.st)
  BY <1>1, GetAgrees
<1>4. o.end = (IF v = "error" THEN LuaNil ELSE v) /\ o.st = m.st
  BY <1>1, OptionalAgrees
<1>5. q.st = m.st /\ (Probed(s) => q.end = (IF v \in {"error", LuaNil} THEN "no" ELSE "yes"))
  BY <1>1, <1>2, ValidStands, ValidAgrees
<1>6. /\ p.end # "error" => Cut(p.st, 1) = Cut(m.st, s.pops)
      /\ Pushable(s) => IF v = "error" THEN p.end = v ELSE p.st = Append(Cut(m.st, s.pops), v)
  BY PushAgrees
<1>7. At(m) = s.m.st[s.m.at]
  BY DEF At
<1> QED BY <1>3, <1>4, <1>5, <1>6, <1>7 DEF ReadsAgree, ReadRight

-----------------------------------------------------------------------------
(* Writing along a path.                                                   *)

LEMMA AppendedSet ==
    ASSUME NEW st \in Seq(Slots), NEW v \in Slots
    PROVE  \A x : x \in ToSet(Append(st, v)) <=> x \in ToSet(st) \/ x = v
<1> DEFINE s == Append(st, v)
           M == Len(st)
<1>1. /\ s \in Seq(Slots) /\ Len(s) = M + 1 /\ s[M + 1] = v /\ M \in Nat
      /\ \A j \in 1 .. M : s[j] = st[j]
  BY AppendFacts
<1>2. DOMAIN s = 1 .. M + 1 /\ DOMAIN st = 1 .. M
  BY <1>1, LenProperties
<1> HIDE DEF s, M
<1>3. \A j \in 1 .. M + 1 : j = M + 1 \/ j \in 1 .. M
  BY <1>1
<1>4. M + 1 \in 1 .. M + 1 /\ \A j \in 1 .. M : j \in 1 .. M + 1
  BY <1>1
<1>5. \A x \in ToSet(s) : x \in ToSet(st) \/ x = v
  BY <1>1, <1>2, <1>3 DEF ToSet
<1>6. \A x \in ToSet(st) : x \in ToSet(s)
  <2>1. SUFFICES ASSUME NEW j \in 1 .. M PROVE st[j] \in ToSet(s)
    BY <1>2 DEF ToSet
  <2>2. j \in DOMAIN s /\ s[j] = st[j]
    BY <1>1, <1>2, <1>4
  <2> QED BY <2>2 DEF ToSet
<1>7. v \in ToSet(s)
  BY <1>1, <1>2, <1>4 DEF ToSet
<1> QED BY <1>5, <1>6, <1>7 DEF s

LEMMA PutEntries ==
    ASSUME NEW h \in Heaps, NEW t \in TableIds, NEW k \in Keys, NEW u \in TableIds, t # u
    PROVE  /\ Put(h, t, k, u) \in Heaps /\ Put(h, t, k, u)[u] = Empty /\ Put(h, t, k, u)[t][k] = u
           /\ \A x \in TableIds, j \in Keys :
                 x # u /\ (x # t \/ j # k) => Put(h, t, k, u)[x][j] = h[x][j]
<1> DEFINE e == [h EXCEPT ![u] = Empty]
           p == [e EXCEPT ![t][k] = u]
<1>1. e \in Heaps /\ e[u] = Empty /\ \A x \in TableIds : x # u => e[x] = h[x]
  <2>1. Empty \in [Keys -> FieldValues]
    BY EmptyType
  <2> QED BY <2>1 DEF Heaps
<1>2. Put(h, t, k, u) = p
  BY DEF Put
<1>3. u \in FieldValues
  BY ValuesAreSlots
<1> HIDE DEF e
<1>4. /\ p \in Heaps /\ p[u] = e[u] /\ p[t][k] = u
      /\ \A x \in TableIds, j \in Keys : x # t \/ j # k => p[x][j] = e[x][j]
  BY <1>1, <1>3 DEF Heaps
<1> HIDE DEF p
<1> QED BY <1>1, <1>2, <1>4

LEMMA ReplacesFacts ==
    ASSUME NEW v, NEW mode \in Modes
    PROVE  /\ replaces(v, mode) => v \notin TableIds /\ mode # "none"
           /\ replaces(v, mode) /\ mode # "override_value" => v = LuaNil
           /\ mode # "none" /\ v = LuaNil => replaces(v, mode)
BY NoPlaceIsError DEF replaces, Modes

\* What r is after x went on to what is stored for k.
WentOn(x, k, mode, r) ==
    LET old == x.heap[At(x)][k]
    IN  /\ r \in Machines /\ r.end = "go" /\ r.at \in 1 .. Len(r.st)
        /\ At(x) \in TableIds /\ r.heap[At(x)][k] = At(r)
        /\ \A y : y \in ToSet(r.st) <=> y \in ToSet(x.st) \/ y = At(r)
        /\ \A u \in ToSet(x.st) : u \in TableIds =>
              \A j \in Keys : x.heap[u][j] \in TableIds => r.heap[u][j] = x.heap[u][j]
        /\ \/ r.heap = x.heap /\ At(r) = old /\ ~replaces(old, mode)
           \/ /\ replaces(old, mode) /\ r.heap[At(r)] = Empty
              /\ At(r) \in TableIds \ Reachable(x.heap, x.st)
              /\ At(r) # At(x) /\ r.heap = Put(x.heap, At(x), k, At(r))

\* A key before the last, with what is stored for it.
LEMMA SetOnward ==
    ASSUME NEW x \in Machines, x.end = "go", x.at \in 1 .. Len(x.st), NEW k \in Keys,
           NEW mode \in Modes, set_deep(x, k, mode).end # "error"
    PROVE  WentOn(x, k, mode, set_deep(x, k, mode))
<1> DEFINE r == set_deep(x, k, mode)
           old == x.heap[At(x)][k]
<1>1. x.st \in Seq(Slots) /\ x.heap \in Heaps /\ Len(x.st) \in Nat /\ FieldValues \subseteq Slots
      /\ x.st[x.at] = At(x)
  BY MachineFacts, ValuesAreSlots, LenProperties DEF At
<1>2. Found(x, k) = old
  BY DEF Found
<1>3. /\ r \in Machines /\ r.end # "error" /\ At(x) \in TableIds
      /\ ~replaces(old, mode) =>
            r.end = "go" /\ r.heap = x.heap /\ r.at = Len(r.st) /\ r.st = Append(x.st, old)
      /\ replaces(old, mode) =>
            \E p \in Machines : \E u \in Spare(p) :
               /\ p.st = x.st /\ p.heap = x.heap
               /\ r.end = "go" /\ r.at = Len(r.st) /\ r.st = Append(x.st, u)
               /\ r.heap = Put(x.heap, Append(x.st, u)[x.at], k, u)
  BY <1>2, SetDeepFacts
<1> HIDE DEF r
<1>4. At(x) \in ToSet(x.st) /\ At(x) \in Roots(x.st)
  <2>1. DOMAIN x.st = 1 .. Len(x.st)
    BY <1>1, LenProperties
  <2>2. At(x) \in ToSet(x.st)
    BY <1>1, <2>1 DEF ToSet
  <2> QED BY <1>3, <2>2 DEF Roots
<1>5. ASSUME NEW f \in Slots, r.st = Append(x.st, f), r.at = Len(r.st)
      PROVE  /\ At(r) = f /\ r.at \in 1 .. Len(r.st)
             /\ \A y : y \in ToSet(r.st) <=> y \in ToSet(x.st) \/ y = f
  <2>1. At(r) = f
    BY <1>1, <1>5, TopIsAt
  <2>2. Len(Append(x.st, f)) = Len(x.st) + 1
    BY <1>1, AppendFacts
  <2>3. Len(r.st) = Len(x.st) + 1
    BY <1>5, <2>2
  <2>4. r.at \in 1 .. Len(r.st)
    BY <1>1, <1>5, <2>3
  <2>5. \A y : y \in ToSet(r.st) <=> y \in ToSet(x.st) \/ y = f
    BY <1>1, <1>5, AppendedSet
  <2> QED BY <2>1, <2>4, <2>5
<1>6. CASE ~replaces(old, mode)
  <2>1. old \in Slots
    BY <1>1, <1>3 DEF Heaps
  <2>2. At(r) = old /\ r.at \in 1 .. Len(r.st) /\ \A y : y \in ToSet(r.st) <=> y \in ToSet(x.st) \/ y = old
    BY <1>3, <1>5, <1>6, <2>1
  <2> HIDE DEF old
  <2>3. r.heap[At(x)][k] = At(r)
    BY <1>3, <1>6, <2>2 DEF old
  <2> QED BY <1>3, <1>6, <2>2, <2>3 DEF r, old, WentOn
<1>7. CASE replaces(old, mode)
  <2>1. PICK p \in Machines : \E u \in Spare(p) :
           /\ p.st = x.st /\ p.heap = x.heap
           /\ r.end = "go" /\ r.at = Len(r.st) /\ r.st = Append(x.st, u)
           /\ r.heap = Put(x.heap, Append(x.st, u)[x.at], k, u)
    BY <1>3, <1>7
  <2>2. PICK u \in Spare(p) :
           /\ p.st = x.st /\ p.heap = x.heap
           /\ r.end = "go" /\ r.at = Len(r.st) /\ r.st = Append(x.st, u)
           /\ r.heap = Put(x.heap, Append(x.st, u)[x.at], k, u)
    BY <2>1
  <2>3. u \in TableIds \ Reachable(x.heap, x.st)
    BY <2>2 DEF Spare
  <2>4. u \in Slots
    BY <2>3, ValuesAreSlots
  <2>5. Append(x.st, u)[x.at] = At(x)
    BY <1>1, <2>4, AppendFacts
  <2>6. At(r) = u /\ r.at \in 1 .. Len(r.st) /\ \A y : y \in ToSet(r.st) <=> y \in ToSet(x.st) \/ y = u
    BY <1>5, <2>2, <2>4
  <2>7. \A y \in ToSet(x.st) : y \in TableIds => y # u
    <3>1. Roots(x.st) \subseteq Reachable(x.heap, x.st)
      BY ReachFacts
    <3> QED BY <2>3, <3>1 DEF Roots
  <2>8. At(x) # u /\ r.heap = Put(x.heap, At(x), k, u)
    BY <1>3, <1>4, <2>2, <2>5, <2>7
  <2>9. /\ r.heap[u] = Empty /\ r.heap[At(x)][k] = u
        /\ \A y \in TableIds, j \in Keys :
              y # u /\ (y # At(x) \/ j # k) => r.heap[y][j] = x.heap[y][j]
    <3> DEFINE t == At(x)
               h == x.heap
               g == r.heap
    <3>1. h \in Heaps /\ t \in TableIds /\ k \in Keys /\ u \in TableIds /\ t # u /\ g = Put(h, t, k, u)
      BY <1>1, <1>3, <2>3, <2>8
    <3> HIDE DEF t, h, g
    <3>2. /\ g[u] = Empty /\ g[t][k] = u
          /\ \A y \in TableIds, j \in Keys : y # u /\ (y # t \/ j # k) => g[y][j] = h[y][j]
      BY <3>1, PutEntries
    <3> QED BY <3>2 DEF t, h, g
  <2>10. old \notin TableIds
    BY <1>7, ReplacesFacts
  <2>11. \A y \in ToSet(x.st) : y \in TableIds =>
            \A j \in Keys : x.heap[y][j] \in TableIds => r.heap[y][j] = x.heap[y][j]
    BY <2>7, <2>9, <2>10
  <2> HIDE DEF old
  <2> QED BY <1>3, <1>7, <2>2, <2>3, <2>6, <2>8, <2>9, <2>11 DEF r, old, WentOn
<1> QED BY <1>6, <1>7

\* Every field that was not nil is as it was.
Keeps(h, g) == \A u \in TableIds, j \in Keys : h[u][j] \in {LuaNil, g[u][j]}

LEMMA KeepsOnward ==
    ASSUME NEW h \in Heaps, NEW g \in Heaps, NEW st \in Seq(Slots), NEW st2 \in Seq(Slots),
           AllEmptied(h, st), ToSet(st) \subseteq ToSet(st2), Keeps(h, g),
           NEW t \in TableIds, NEW k \in Keys, g[t][k] = LuaNil,
           NEW u \in TableIds \ Reachable(g, st2), t # u
    PROVE  Keeps(h, Put(g, t, k, u))
<1> DEFINE p == Put(g, t, k, u)
           S == Roots(st)
           S2 == Roots(st2)
<1>1. /\ S \in SUBSET TableIds /\ S2 \in SUBSET TableIds
      /\ Reachable(h, st) = ReachableFrom(h, S) /\ Reachable(g, st2) = ReachableFrom(g, S2)
      /\ Reachable(h, st) \subseteq TableIds
  BY ReachFacts
<1>2. S \subseteq S2
  BY DEF Roots
<1> HIDE DEF S, S2
<1>3. \A a \in ReachableFrom(h, S), j \in Keys : h[a][j] \in TableIds => g[a][j] = h[a][j]
  BY <1>1, NoPlaceIsError DEF Keeps
<1>4. Reachable(h, st) \subseteq Reachable(g, st2)
  BY <1>1, <1>2, <1>3, ReachGrows
<1>5. h[u] = Empty
  BY <1>4 DEF AllEmptied
<1>6. /\ p[t][k] = u
      /\ \A x \in TableIds, j \in Keys : x # u /\ (x # t \/ j # k) => p[x][j] = g[x][j]
  BY PutEntries
<1>7. \A j \in Keys : h[u][j] = LuaNil
  BY <1>5, EmptyType
<1>8. h[t][k] = LuaNil
  BY DEF Keeps
<1> HIDE DEF p
<1>9. ASSUME NEW a \in TableIds, NEW j \in Keys PROVE h[a][j] \in {LuaNil, p[a][j]}
  <2>1. CASE a = u
    BY <1>7, <2>1
  <2>2. CASE a = t /\ j = k
    BY <1>8, <2>2
  <2>3. CASE a # u /\ (a # t \/ j # k)
    <3>1. p[a][j] = g[a][j]
      BY <1>6, <2>3
    <3> QED BY <3>1 DEF Keeps
  <2> QED BY <2>1, <2>2, <2>3
<1> QED BY <1>9 DEF Keeps, p

\* The machine x came from m through the places of a, the tables in which the
\* keys before it were found: on its stack, each in the field of the one before.
Trail(a, path, n, m, x) ==
    /\ x \in Machines /\ x.end = "go" /\ x.at \in 1 .. Len(x.st) /\ a[n] = At(x)
    /\ ToSet(m.st) \subseteq ToSet(x.st)
    /\ \A j \in 0 .. n : a[j] \in ToSet(x.st)
    /\ \A j \in 1 .. n : a[j - 1] \in TableIds /\ x.heap[a[j - 1]][path[j]] = a[j]

\* Nothing is replaced yet; or the machine is at a table that was created.
Origin(h, place, x, mode) ==
    \/ x.heap = h /\ At(x) = place
    \/ mode # "none" /\ At(x) \in TableIds /\ x.heap[At(x)] = Empty

LEMMA WriteOnward ==
    ASSUME NEW m, Starts(m), NEW st \in Seq(Slots), ToSet(st) \subseteq ToSet(m.st),
           AllEmptied(m.heap, st), NEW path \in Seq(Keys), NEW n \in Nat, n + 1 <= Len(path),
           NEW mode \in Modes, NEW a, NEW x, Trail(a, path, n, m, x),
           NEW place, Origin(m.heap, place, x, mode),
           mode = "override_value" \/ Keeps(m.heap, x.heap),
           set_deep(x, path[n + 1], mode).end # "error",
           a[n + 1] = At(set_deep(x, path[n + 1], mode))
    PROVE  LET r == set_deep(x, path[n + 1], mode)
           IN  /\ Trail(a, path, n + 1, m, r)
               /\ Origin(m.heap, IF place \in TableIds THEN m.heap[place][path[n + 1]] ELSE "error",
                         r, mode)
               /\ mode = "override_value" \/ Keeps(m.heap, r.heap)
<1> DEFINE k == path[n + 1]
           r == set_deep(x, k, mode)
           h == m.heap
           old == x.heap[At(x)][k]
           b == At(r)
<1>1. /\ x \in Machines /\ x.end = "go" /\ x.at \in 1 .. Len(x.st) /\ a[n] = At(x)
      /\ ToSet(m.st) \subseteq ToSet(x.st)
      /\ \A j \in 0 .. n : a[j] \in ToSet(x.st)
      /\ \A j \in 1 .. n : a[j - 1] \in TableIds /\ x.heap[a[j - 1]][path[j]] = a[j]
  BY DEF Trail
<1>2. /\ n \in 0 .. n /\ n + 1 \in 1 .. Len(path) /\ (n + 1) - 1 = n
      /\ \A j \in 0 .. n + 1 : j = n + 1 \/ j \in 0 .. n
      /\ \A j \in 1 .. n + 1 : j = n + 1 \/ j \in 1 .. n
      /\ \A j \in 1 .. n : j - 1 \in 0 .. n /\ j \in 0 .. n
      /\ \A j \in 1 .. n : j # n => j + 1 \in 1 .. n /\ (j + 1) - 1 = j
  <2>1. Len(path) \in Nat
    BY LenProperties
  <2> QED BY <2>1
<1>3. /\ k \in Keys /\ h \in Heaps /\ x.heap \in Heaps /\ x.st \in Seq(Slots)
      /\ \A j \in 1 .. n : path[j] \in Keys
  <2>1. \A j \in 1 .. n : j \in 1 .. Len(path)
    BY <1>2, LenProperties
  <2> QED BY <1>1, <1>2, <2>1, ElementOfSeq, MachineFacts DEF Starts
<1>4. /\ r \in Machines /\ r.end = "go" /\ r.at \in 1 .. Len(r.st)
      /\ At(x) \in TableIds /\ r.heap[At(x)][k] = b
      /\ \A y : y \in ToSet(r.st) <=> y \in ToSet(x.st) \/ y = b
      /\ \A u \in ToSet(x.st) : u \in TableIds =>
            \A j \in Keys : x.heap[u][j] \in TableIds => r.heap[u][j] = x.heap[u][j]
      /\ \/ r.heap = x.heap /\ b = old /\ ~replaces(old, mode)
         \/ /\ replaces(old, mode) /\ r.heap[b] = Empty
            /\ b \in TableIds \ Reachable(x.heap, x.st)
            /\ b # At(x) /\ r.heap = Put(x.heap, At(x), k, b)
  <2>1. r.end # "error"
    OBVIOUS
  <2>2. k \in Keys
    BY <1>3
  <2> HIDE DEF k
  <2>3. WentOn(x, k, mode, r)
    BY <1>1, <2>1, <2>2, SetOnward
  <2> HIDE DEF r
  <2> QED BY <2>3 DEF WentOn
<1>5. a[n + 1] = b
  OBVIOUS
<1> HIDE DEF r, b, k
<1>6. Trail(a, path, n + 1, m, r)
  <2>1. a[n + 1] = At(r)
    BY <1>5 DEF b
  <2>2. \A j \in 0 .. n + 1 : a[j] \in ToSet(r.st)
    BY <1>1, <1>2, <1>4, <1>5
  <2>3. ASSUME NEW j \in 1 .. n + 1
        PROVE  a[j - 1] \in TableIds /\ r.heap[a[j - 1]][path[j]] = a[j]
    <3>1. CASE j = n + 1
      <4>1. a[j - 1] = At(x) /\ path[j] = k /\ a[j] = b
        BY <1>1, <1>2, <1>5, <3>1 DEF k
      <4> QED BY <1>4, <4>1
    <3>2. CASE j \in 1 .. n
      <4>1. a[j] \in TableIds
        <5>1. CASE j = n
          BY <1>1, <1>4, <5>1
        <5>2. CASE j # n
          BY <1>1, <1>2, <3>2, <5>2
        <5> QED BY <5>1, <5>2
      <4>2. a[j - 1] \in TableIds /\ a[j - 1] \in ToSet(x.st) /\ x.heap[a[j - 1]][path[j]] = a[j]
        BY <1>1, <1>2, <3>2
      <4>3. path[j] \in Keys
        BY <1>3, <3>2
      <4> QED BY <1>4, <4>1, <4>2, <4>3
    <3> QED BY <1>2, <3>1, <3>2
  <2>4. ToSet(m.st) \subseteq ToSet(r.st)
    BY <1>1, <1>4
  <2> QED BY <1>4, <2>1, <2>2, <2>3, <2>4 DEF Trail
<1>7. CASE r.heap = x.heap /\ b = old /\ ~replaces(old, mode)
  <2>1. CASE x.heap = h /\ At(x) = place
    <3>1. place \in TableIds /\ b = h[place][k]
      BY <1>4, <1>7, <2>1
    <3>2. Origin(h, IF place \in TableIds THEN h[place][k] ELSE "error", r, mode)
      BY <1>7, <2>1, <3>1 DEF Origin, b
    <3> QED BY <1>6, <1>7, <3>2 DEF r, k
  <2>2. CASE mode # "none" /\ x.heap[At(x)] = Empty
    <3>1. old = LuaNil
      BY <1>3, <2>2, EmptyType
    <3>2. FALSE
      BY <1>7, <2>2, <3>1, ReplacesFacts
    <3> QED BY <3>2
  <2> QED BY <2>1, <2>2 DEF Origin
<1>8. CASE /\ replaces(old, mode) /\ r.heap[b] = Empty
           /\ b \in TableIds \ Reachable(x.heap, x.st)
           /\ b # At(x) /\ r.heap = Put(x.heap, At(x), k, b)
  <2>1. mode # "none" /\ (mode # "override_value" => old = LuaNil)
    BY <1>8, ReplacesFacts
  <2>2. Origin(h, IF place \in TableIds THEN h[place][k] ELSE "error", r, mode)
    BY <1>8, <2>1 DEF Origin, b
  <2>3. mode # "override_value" => Keeps(h, r.heap)
    <3>1. SUFFICES ASSUME mode # "override_value" PROVE Keeps(h, r.heap)
      OBVIOUS
    <3>2. ToSet(st) \subseteq ToSet(x.st) /\ Keeps(h, x.heap) /\ x.heap[At(x)][k] = LuaNil
      BY <1>1, <2>1, <3>1
    <3> DEFINE y == At(x)
    <3>3. y \in TableIds /\ y # b /\ x.heap[y][k] = LuaNil
      BY <1>4, <1>8, <3>2
    <3> HIDE DEF y, old
    <3>4. Keeps(h, Put(x.heap, y, k, b))
      BY <1>3, <1>8, <3>2, <3>3, KeepsOnward
    <3> QED BY <1>8, <3>4 DEF y
  <2> QED BY <1>6, <2>2, <2>3 DEF r, k
<1> QED BY <1>4, <1>7, <1>8

LEMMA WriteLeads ==
    ASSUME NEW m, Starts(m), NEW st \in Seq(Slots), ToSet(st) \subseteq ToSet(m.st),
           AllEmptied(m.heap, st), NEW path \in Seq(Keys), NEW mode \in Modes,
           NEW n \in 0 .. Len(path), deep("set", m, path, mode)[n].end # "error"
    PROVE  LET d == deep("set", m, path, mode)
               x == d[n]
           IN  \E a : /\ Trail(a, path, n, m, x) /\ a[0] = At(m)
                      /\ Origin(m.heap, Led(m.heap, At(m), path)[n], x, mode)
                      /\ mode = "override_value" \/ Keeps(m.heap, x.heap)
<1> DEFINE N == Len(path)
           op == "set"
           d == deep(op, m, path, mode)
           h == m.heap
           t == At(m)
           l == Led(h, t, path)
           a == [i \in 0 .. N |-> At(d[i])]
           Fine(i) == d[i].end # "error" =>
                         /\ Trail(a, path, i, m, d[i])
                         /\ Origin(h, l[i], d[i], mode)
                         /\ mode = "override_value" \/ Keeps(h, d[i].heap)
           T == {i \in Nat : i <= N => Fine(i)}
<1>1. /\ m \in Machines /\ h \in Heaps /\ t \in TableIds /\ t \in Slots /\ m.end = "go"
      /\ N \in Nat /\ op \in PathOperations
  BY MachineFacts, ValuesAreSlots, LenProperties DEF Starts, PathOperations
<1>2. /\ d \in [0 .. N -> Machines] /\ d[0] = m
      /\ \A i \in 1 .. N : d[i] = along(op, d[i - 1], path[i], mode)
  BY <1>1, DeepFacts
<1>3. /\ l[0] = t
      /\ \A i \in 1 .. N : l[i] = IF l[i - 1] \in TableIds THEN h[l[i - 1]][path[i]] ELSE "error"
  BY <1>1, LedFacts
<1>4. \A i \in 1 .. N : path[i] \in Keys
  BY ElementOfSeq
<1>5. \A i \in 0 .. N : a[i] = At(d[i])
  OBVIOUS
<1> HIDE DEF d, l, N, a
<1>6. a[0] = t
  <2>1. 0 \in 0 .. N
    BY <1>1
  <2> QED BY <1>2, <1>5, <2>1
<1>7. 0 \in T
  <2>1. t \in ToSet(m.st)
    <3>1. DOMAIN m.st = 1 .. Len(m.st)
      BY <1>1, MachineFacts, LenProperties
    <3> QED BY <3>1 DEF Starts, ToSet, At
  <2>2. (\A j \in 0 .. 0 : j = 0) /\ \A j \in 1 .. 0 : FALSE
    OBVIOUS
  <2>3. Trail(a, path, 0, m, m)
    BY <1>1, <1>6, <2>1, <2>2 DEF Trail, Starts
  <2>4. Keeps(h, h)
    BY DEF Keeps
  <2>5. Origin(h, l[0], m, mode)
    BY <1>3 DEF Origin
  <2> QED BY <1>2, <2>3, <2>4, <2>5
<1>8. ASSUME NEW i \in Nat, i < N, i \in T PROVE i + 1 \in T
  <2>1. i + 1 \in 1 .. N /\ (i + 1) - 1 = i /\ i \in 0 .. N /\ i <= N /\ i + 1 \in Nat /\ i + 1 <= N
        /\ i + 1 \in 0 .. N
    BY <1>1, <1>8
  <2>2. SUFFICES ASSUME d[i + 1].end # "error" PROVE Fine(i + 1)
    BY <2>1
  <2> DEFINE x == d[i]
             k == path[i + 1]
             r == set_deep(x, k, mode)
             place == l[i]
  <2>3. x \in Machines /\ k \in Keys
    BY <1>2, <1>4, <2>1
  <2>4. d[i + 1] = r
    <3>1. d[i + 1] = along(op, x, k, mode)
      BY <1>2, <2>1
    <3> QED BY <3>1 DEF along
  <2>5. x.end # "go" => r = x
    <3> HIDE DEF x, k
    <3> QED BY <2>3, SetDeepFacts
  <2>6. x.end # "error"
    BY <2>2, <2>4, <2>5
  <2>7. /\ Trail(a, path, i, m, x) /\ Origin(h, place, x, mode)
        /\ mode = "override_value" \/ Keeps(h, x.heap)
    BY <1>8, <2>1, <2>6
  <2>8. a[i + 1] = At(r) /\ r.end # "error" /\ i + 1 <= Len(path)
    BY <1>5, <2>1, <2>2, <2>4 DEF N
  <2>9. l[i + 1] = IF place \in TableIds THEN h[place][path[i + 1]] ELSE "error"
    BY <1>3, <2>1
  <2> HIDE DEF x, place, T
  <2>10. /\ Trail(a, path, i + 1, m, r)
         /\ Origin(h, IF place \in TableIds THEN h[place][path[i + 1]] ELSE "error", r, mode)
         /\ mode = "override_value" \/ Keeps(h, r.heap)
    BY <2>7, <2>8, WriteOnward
  <2> HIDE DEF r, h
  <2> QED BY <2>4, <2>9, <2>10
<1>9. \A i \in Nat : i < N /\ i \in T => i + 1 \in T
  BY <1>8
<1> HIDE DEF T
<1>10. \A i \in Nat : i <= N => i \in T
  BY <1>1, <1>7, <1>9, StepByStep
<1>11. n \in Nat /\ n <= N
  BY <1>1 DEF N
<1>12. Fine(n) /\ d[n].end # "error"
  BY <1>10, <1>11 DEF T, d
<1>13. /\ Trail(a, path, n, m, d[n]) /\ a[0] = At(m)
       /\ Origin(m.heap, l[n], d[n], mode)
       /\ mode = "override_value" \/ Keeps(m.heap, d[n].heap)
  BY <1>6, <1>12
<1> QED BY <1>13 DEF d, l

\* Where the tables of the path are all there, nothing is replaced.
LEMMA WriteThroughTables ==
    ASSUME NEW m, Starts(m), NEW path \in Seq(Keys), NEW mode \in Modes, NEW c \in 0 .. Len(path),
           Led(m.heap, At(m), path)[c] \in TableIds, NEW n \in 0 .. Len(path), n <= c
    PROVE  LET x == deep("set", m, path, mode)[n]
           IN  x.end = "go" /\ x.heap = m.heap /\ At(x) = Led(m.heap, At(m), path)[n]
<1> DEFINE N == Len(path)
           op == "set"
           d == deep(op, m, path, mode)
           h == m.heap
           t == At(m)
           l == Led(h, t, path)
           Fine(i) == d[i].end = "go" /\ d[i].heap = h /\ At(d[i]) = l[i]
           T == {i \in Nat : i <= c => Fine(i)}
<1>1. /\ m \in Machines /\ h \in Heaps /\ t \in TableIds /\ t \in Slots /\ m.end = "go"
      /\ N \in Nat /\ op \in PathOperations /\ c \in 0 .. N
  BY MachineFacts, ValuesAreSlots, LenProperties DEF Starts, PathOperations
<1>2. /\ d \in [0 .. N -> Machines] /\ d[0] = m
      /\ \A i \in 1 .. N : d[i] = along(op, d[i - 1], path[i], mode)
  BY <1>1, DeepFacts
<1>3. /\ l[0] = t
      /\ \A i \in 1 .. N : l[i] = IF l[i - 1] \in TableIds THEN h[l[i - 1]][path[i]] ELSE "error"
  BY <1>1, LedFacts
<1>4. \A i \in 1 .. N : path[i] \in Keys
  BY ElementOfSeq
<1>5. \A i \in 0 .. N : i <= c => l[i] \in TableIds
  BY <1>1, LedOnward
<1> HIDE DEF d, l, N
<1>6. 0 \in T
  BY <1>1, <1>2, <1>3
<1>7. ASSUME NEW i \in Nat, i < c, i \in T PROVE i + 1 \in T
  <2>1. i + 1 \in 1 .. N /\ (i + 1) - 1 = i /\ i \in 0 .. N /\ i <= c /\ i + 1 \in Nat /\ i + 1 <= c
        /\ i + 1 \in 0 .. N
    BY <1>1, <1>7
  <2> DEFINE x == d[i]
             k == path[i + 1]
             r == set_deep(x, k, mode)
             f == Found(x, k)
  <2>2. x \in Machines /\ k \in Keys
    BY <1>2, <1>4, <2>1
  <2>3. d[i + 1] = r
    <3>1. d[i + 1] = along(op, x, k, mode)
      BY <1>2, <2>1
    <3> QED BY <3>1 DEF along
  <2>4. x.end = "go" /\ x.heap = h /\ At(x) = l[i]
    BY <1>7, <2>1
  <2>5. l[i] \in TableIds /\ l[i + 1] \in TableIds /\ l[i + 1] = h[l[i]][k]
    BY <1>3, <1>5, <2>1
  <2>6. f = l[i + 1]
    BY <2>4, <2>5 DEF Found
  <2>7. ~replaces(f, mode)
    BY <2>5, <2>6, ReplacesFacts
  <2> HIDE DEF x, k, f
  <2>8. r.end = "go" /\ r.heap = x.heap /\ r.at = Len(r.st) /\ r.st = Append(x.st, f)
    BY <2>2, <2>4, <2>5, <2>7, SetDeepFacts DEF f
  <2>9. x.st \in Seq(Slots) /\ f \in Slots
    BY <2>2, <2>5, <2>6, MachineFacts, ValuesAreSlots
  <2> HIDE DEF r
  <2>10. At(r) = f
    BY <2>8, <2>9, TopIsAt
  <2> QED BY <2>1, <2>3, <2>4, <2>6, <2>8, <2>10
<1>8. \A i \in Nat : i < c /\ i \in T => i + 1 \in T
  BY <1>7
<1> HIDE DEF T
<1>9. c \in Nat /\ n \in Nat
  BY <1>1
<1>10. \A i \in Nat : i <= c => i \in T
  BY <1>6, <1>8, <1>9, StepByStep
<1>11. Fine(n)
  BY <1>9, <1>10 DEF T
<1> QED BY <1>11 DEF d, l

\* What Lua finds at the end of a trail whose last key is stored.
LEMMA TrailLeads ==
    ASSUME NEW path \in Seq(Keys), path # <<>>, NEW m, NEW x, NEW a,
           Trail(a, path, Len(path) - 1, m, x), a[0] \in TableIds, At(x) \in TableIds,
           x.heap[At(x)] = Empty, NEW v \in FieldValues
    PROVE  Lookup([x.heap EXCEPT ![At(x)][Last(path)] = v], a[0], path) = v
<1> DEFINE N == Len(path)
           k == Last(path)
           u == At(x)
           g == [x.heap EXCEPT ![u][k] = v]
           t == a[0]
           l == Led(g, t, path)
           T == {i \in Nat : i <= N - 1 => l[i] = a[i]}
<1>1. N \in Nat /\ N >= 1 /\ k \in Keys /\ k = path[N]
  BY PathFacts
<1>2. /\ x.heap \in Heaps /\ x \in Machines
      /\ \A j \in 1 .. N - 1 : a[j - 1] \in TableIds /\ x.heap[a[j - 1]][path[j]] = a[j]
      /\ a[N - 1] = u
  BY MachineFacts DEF Trail
<1>3. t \in Slots /\ t \in TableIds
  BY ValuesAreSlots
<1>4. /\ g \in Heaps /\ g[u][k] = v
      /\ \A y \in TableIds, j \in Keys : y # u \/ j # k => g[y][j] = x.heap[y][j]
  BY <1>1, <1>2 DEF Heaps
<1>5. \A j \in 1 .. N : path[j] \in Keys
  BY ElementOfSeq
<1>6. x.heap[u][k] = LuaNil
  BY <1>1, EmptyType
<1> HIDE DEF g, u
<1>7. /\ l[0] = t
      /\ \A j \in 1 .. N : l[j] = IF l[j - 1] \in TableIds THEN g[l[j - 1]][path[j]] ELSE "error"
  BY <1>3, <1>4, LedFacts
<1> HIDE DEF l, N, k
<1>8. u \in TableIds
  BY DEF u
<1>9. \A j \in 1 .. N - 1 : a[j] \in TableIds
  <2>1. \A j \in 1 .. N - 1 : j = N - 1 \/ (j + 1 \in 1 .. N - 1 /\ (j + 1) - 1 = j)
    BY <1>1
  <2> QED BY <1>2, <1>8, <2>1
<1>10. 0 \in T
  BY <1>7
<1>11. ASSUME NEW i \in Nat, i < N - 1, i \in T PROVE i + 1 \in T
  <2>1. i + 1 \in 1 .. N - 1 /\ i + 1 \in 1 .. N /\ (i + 1) - 1 = i /\ i <= N - 1 /\ i + 1 \in Nat
    BY <1>1, <1>11
  <2>2. l[i] = a[i]
    BY <1>11, <2>1
  <2> DEFINE y == a[i]
             j == path[i + 1]
  <2>3. y \in TableIds /\ x.heap[y][j] = a[i + 1] /\ a[i + 1] \in TableIds /\ j \in Keys
    BY <1>2, <1>5, <1>9, <2>1
  <2>4. l[i + 1] = IF l[i] \in TableIds THEN g[l[i]][j] ELSE "error"
    BY <1>7, <2>1
  <2> HIDE DEF y, j
  <2>5. y # u \/ j # k
    BY <1>6, <2>3, NoPlaceIsError
  <2>6. g[y][j] = x.heap[y][j]
    BY <1>4, <2>3, <2>5
  <2>7. l[i + 1] = a[i + 1]
    BY <2>2, <2>3, <2>4, <2>6 DEF y
  <2> QED BY <2>1, <2>7
<1>12. \A i \in Nat : i < N - 1 /\ i \in T => i + 1 \in T
  BY <1>11
<1> HIDE DEF T
<1>13. N - 1 \in Nat /\ N \in 1 .. N
  BY <1>1
<1>14. \A i \in Nat : i <= N - 1 => i \in T
  BY <1>10, <1>12, <1>13, StepByStep
<1>15. N - 1 \in T /\ N - 1 <= N - 1
  BY <1>13, <1>14
<1>16. l[N - 1] = u
  BY <1>2, <1>15 DEF T
<1>17. l[N] = v
  BY <1>1, <1>4, <1>7, <1>8, <1>13, <1>16
<1> QED BY <1>17 DEF Lookup, l, g, u, t, N, k

\* A write does what Lua would do.
LEMMA WritesAlwaysAgree ==
    ASSUME TablesTyped, OwnSeated, AllEmptied(heap, stack), NEW s \in Started, NEW path \in Paths,
           NEW v \in {LuaNil, Scalar}, NEW mode \in Modes
    PROVE  WritesAgree(s, path, v, mode)
<1> DEFINE m == s.m
           t == At(m)
           N == Len(path)
           l == Led(heap, t, path)
           c == l[N - 1]
           k == Last(path)
           r == traverse_set(m, path, v, mode)
           x == deep("set", m, path, mode)[N - 1]
           final == IF x.end = "error" THEN x ELSE set_last(x, k, v, mode)
<1>1. /\ Starts(m) /\ path \in Seq(Keys) /\ path # <<>> /\ m.heap = heap
      /\ m \in Machines /\ t \in TableIds /\ heap \in Heaps
  BY AllStart, PathsAreSequences, StartedFacts, TypesUnfold DEF Starts
<1>2. v \in FieldValues
  BY DEF FieldValues
<1>3. N - 1 \in 0 .. N /\ k \in Keys /\ N - 1 <= N - 1
  <2>1. N \in Nat /\ N - 1 \in 0 .. N /\ k \in Keys
    BY <1>1, PathFacts
  <2> HIDE DEF N
  <2> QED BY <2>1
<1>4. /\ r.heap = final.heap /\ r.end = final.end /\ x \in Machines
      /\ r.end # "error" => r.st = m.st
  BY <1>1, <1>2, TraverseSetFacts
<1>5. /\ x.end # "go" => set_last(x, k, v, mode).end # "go"
      /\ (x.end = "go" /\ At(x) \notin TableIds) => set_last(x, k, v, mode).end = "error"
      /\ (x.end = "go" /\ At(x) \in TableIds) => set_last(x, k, v, mode).end = "go"
      /\ (x.end = "go" /\ At(x) \in TableIds) =>
            set_last(x, k, v, mode).heap = IF mode = "update_if_empty" /\ Found(x, k) # LuaNil
                                           THEN x.heap ELSE [x.heap EXCEPT ![At(x)][k] = v]
  <2>1. x \in Machines /\ k \in Keys
    BY <1>3, <1>4
  <2> HIDE DEF x, k
  <2> QED BY <1>2, <2>1, SetLastFacts
<1>6. Found(x, k) = x.heap[At(x)][k]
  BY DEF Found
<1>7. ASSUME c \in TableIds
      PROVE  /\ r.end # "error"
             /\ r.heap = IF mode = "update_if_empty" /\ heap[c][k] # LuaNil
                         THEN heap ELSE [heap EXCEPT ![c][k] = v]
  <2>1. x.end = "go" /\ x.heap = heap /\ At(x) = c
    <3> HIDE DEF N
    <3> DEFINE e == N - 1
    <3>1. e \in 0 .. Len(path) /\ e <= e
      BY <1>3 DEF N
    <3>2. Led(m.heap, At(m), path)[e] \in TableIds
      BY <1>1, <1>7
    <3> HIDE DEF e, m
    <3>3. LET y == deep("set", m, path, mode)[e]
          IN  y.end = "go" /\ y.heap = m.heap /\ At(y) = Led(m.heap, At(m), path)[e]
      BY <1>1, <3>1, <3>2, WriteThroughTables
    <3> QED BY <1>1, <3>3 DEF e
  <2> HIDE DEF x, r, c, k
  <2> QED BY <1>4, <1>5, <1>6, <1>7, <2>1
<1>8. ASSUME c \notin TableIds, r.end # "error"
      PROVE  /\ Lookup(r.heap, t, path) = v
             /\ mode = "override_value" \/ Keeps(heap, r.heap)
  <2>1. x.end # "error"
    <3> HIDE DEF x, r
    <3> QED BY <1>4, <1>8
  <2> DEFINE e == N - 1
             h == heap
             st == stack
  <2>2. st \in Seq(Slots) /\ ToSet(st) \subseteq ToSet(m.st) /\ AllEmptied(m.heap, st)
    <3>1. st \in Seq(Slots)
      BY TypesUnfold
    <3>2. ToSet(st) \subseteq ToSet(m.st)
      <4>1. CASE s.pops = 1
        <5>1. PICK w \in Reachable(heap, stack) : m.st = Append(stack, w)
          BY <4>1, StartedFacts
        <5>2. w \in Slots
          BY ReachFacts, ValuesAreSlots
        <5> QED BY <3>1, <5>1, <5>2, AppendedSet
      <4>2. CASE s.pops # 1
        <5>1. m.st = stack
          BY <4>2, StartedFacts
        <5> QED BY <5>1
      <4> QED BY <4>1, <4>2
    <3> QED BY <1>1, <3>1, <3>2
  <2>3. PICK a : /\ Trail(a, path, e, m, x) /\ a[0] = At(m)
                 /\ Origin(m.heap, Led(m.heap, At(m), path)[e], x, mode)
                 /\ mode = "override_value" \/ Keeps(m.heap, x.heap)
    <3>1. e \in 0 .. Len(path)
      BY <1>3
    <3>2. deep("set", m, path, mode)[e].end # "error"
      BY <2>1
    <3> HIDE DEF e, m, st, N
    <3>3. \E a : /\ Trail(a, path, e, m, deep("set", m, path, mode)[e]) /\ a[0] = At(m)
                 /\ Origin(m.heap, Led(m.heap, At(m), path)[e], deep("set", m, path, mode)[e], mode)
                 /\ mode = "override_value" \/ Keeps(m.heap, deep("set", m, path, mode)[e].heap)
      BY <1>1, <2>2, <3>1, <3>2, WriteLeads
    <3> QED BY <3>3 DEF e
  <2>4. x.end = "go" /\ x \in Machines /\ x.heap \in Heaps
    BY <2>3, MachineFacts DEF Trail
  <2>5. At(x) \in TableIds
    <3> HIDE DEF x, r, k
    <3> QED BY <1>4, <1>5, <1>8, <2>4
  <2>6. x.heap[At(x)] = Empty /\ mode # "none"
    <3>1. ~(x.heap = heap /\ At(x) = c)
      <4> HIDE DEF c, x
      <4> QED BY <1>8, <2>5
    <3>2. Origin(heap, c, x, mode)
      BY <1>1, <2>3
    <3> HIDE DEF c, x
    <3> QED BY <3>1, <3>2 DEF Origin
  <2>7. r.heap = [x.heap EXCEPT ![At(x)][k] = v]
    <3>1. x.heap[At(x)][k] = LuaNil
      BY <1>3, <2>6, EmptyType
    <3> HIDE DEF x, r, k
    <3> QED BY <1>4, <1>5, <1>6, <2>4, <2>5, <3>1
  <2>8. Lookup(r.heap, t, path) = v
    <3>1. Trail(a, path, Len(path) - 1, m, x) /\ a[0] = t /\ a[0] \in TableIds
      BY <1>1, <2>3
    <3> HIDE DEF x, r, t, m, N
    <3>2. Lookup([x.heap EXCEPT ![At(x)][Last(path)] = v], a[0], path) = v
      BY <1>1, <1>2, <2>5, <2>6, <3>1, TrailLeads
    <3> QED BY <2>7, <3>1, <3>2
  <2>9. mode = "override_value" \/ Keeps(heap, r.heap)
    <3>1. SUFFICES ASSUME Keeps(heap, x.heap) PROVE Keeps(heap, r.heap)
      BY <1>1, <2>3
    <3>2. x.heap[At(x)][k] = LuaNil
      BY <1>3, <2>6, EmptyType
    <3> DEFINE u == At(x)
               g == x.heap
    <3>3. /\ g \in Heaps /\ u \in TableIds /\ k \in Keys /\ g[u][k] = LuaNil
          /\ r.heap = [g EXCEPT ![u][k] = v] /\ Keeps(heap, g)
      BY <1>3, <2>4, <2>5, <2>7, <3>1, <3>2
    <3> HIDE DEF u, g, r, k
    <3>4. \A y \in TableIds, j \in Keys : (y # u \/ j # k) => r.heap[y][j] = g[y][j]
      BY <3>3 DEF Heaps
    <3>5. ASSUME NEW y \in TableIds, NEW j \in Keys PROVE heap[y][j] \in {LuaNil, r.heap[y][j]}
      <4>1. heap[y][j] \in {LuaNil, g[y][j]}
        BY <3>3 DEF Keeps
      <4> QED BY <3>3, <3>4, <4>1
    <3> QED BY <3>5 DEF Keeps
  <2> QED BY <2>8, <2>9
<1>9. r.end # "error" => r.st = m.st
  BY <1>4
<1>10. t = s.m.st[s.m.at]
  BY DEF At
<1> DEFINE Goal == IF r.end = "error" THEN mode = "none" => c \notin TableIds
                   ELSE /\ r.st = s.m.st
                        /\ IF c \in TableIds
                           THEN IF mode = "update_if_empty" /\ heap[c][k] # LuaNil
                                THEN r.heap = heap ELSE r.heap = [heap EXCEPT ![c][k] = v]
                           ELSE /\ Lookup(r.heap, t, path) = v
                                /\ mode = "override_value" \/ \A u \in TableIds, j \in Keys :
                                      heap[u][j] \in {LuaNil, r.heap[u][j]}
<1>11. Goal
  <2> HIDE DEF r, c, t, k
  <2> QED BY <1>7, <1>8, <1>9 DEF Keeps
<1> QED BY <1>10, <1>11 DEF WritesAgree, WroteRight


\* Values of the program's own are Root, and Root is reached in any case.
LEMMA OwnLeavesReached ==
    ASSUME TablesTyped, Seated, PushOwn \/ PopOwn, NEW h
    PROVE  Reachable(h, stack') = Reachable(h, stack)
<1>1. stack \in Seq(Slots) /\ Root \in Slots /\ Len(stack) \in Nat
  <2>1. Root \in TableIds
    BY ReachFacts DEF Roots
  <2> QED BY <2>1, TypesUnfold, ValuesAreSlots, LenProperties
<1>2. CASE PushOwn
  <2>1. stack' = Append(stack, Root)
    BY <1>2 DEF PushOwn
  <2>2. \A x : x \in ToSet(Append(stack, Root)) <=> x \in ToSet(stack) \/ x = Root
    BY <1>1, AppendedSet
  <2>3. Roots(stack') = Roots(stack)
    BY <2>1, <2>2 DEF Roots
  <2> QED BY <2>3, ReachFacts
<1>3. CASE PopOwn
  <2> DEFINE N == Len(stack)
             f == Front(stack)
  <2>1. stack' = f /\ own # <<>> /\ Last(own) = N
    BY <1>3 DEF PopOwn
  <2>2. N \in ToSet(own)
    <3>1. own \in Seq(Nat)
      BY TypesUnfold
    <3>2. Len(own) \in 1 .. Len(own) /\ Last(own) = own[Len(own)]
      <4>1. Len(own) \in Nat /\ Len(own) # 0
        BY <2>1, <3>1, LenProperties, EmptySeq
      <4> QED BY <4>1 DEF Last
    <3>3. DOMAIN own = 1 .. Len(own)
      BY <3>1, LenProperties
    <3> QED BY <2>1, <3>2, <3>3 DEF ToSet
  <2>3. N \in 1 .. N /\ stack[N] = Root
    BY <2>2 DEF Seated, OwnSeated
  <2>4. stack = Append(f, Root) /\ f \in Seq(Slots)
    <3>1. N \in Nat /\ N >= 1 /\ DOMAIN stack = 1 .. N
      BY <1>1, <2>3, LenProperties
    <3>2. f = SubSeq(stack, 1, N - 1)
      BY DEF Front
    <3>3. f \in Seq(Slots) /\ Len(f) = N - 1 /\ \A i \in 1 .. N - 1 : f[i] = stack[i]
      BY <1>1, <3>1, <3>2, SubSeqProperties
    <3> HIDE DEF f
    <3>4. /\ Append(f, Root) \in Seq(Slots) /\ Len(Append(f, Root)) = N
          /\ \A i \in 1 .. N : Append(f, Root)[i] = stack[i]
      <4>1. /\ Append(f, Root) \in Seq(Slots) /\ Len(Append(f, Root)) = Len(f) + 1
            /\ \A i \in 1 .. Len(f) : Append(f, Root)[i] = f[i]
            /\ Append(f, Root)[Len(f) + 1] = Root
        BY <1>1, <3>3, AppendProperties
      <4>2. Len(f) = N - 1 /\ N \in Nat /\ N >= 1 /\ \A i \in 1 .. N - 1 : f[i] = stack[i]
        BY <3>1, <3>3
      <4> DEFINE g == Append(f, Root)
      <4>3. g \in Seq(Slots) /\ Len(g) = N /\ g[N] = Root /\ \A i \in 1 .. N - 1 : g[i] = stack[i]
        BY <4>1, <4>2
      <4> HIDE DEF g
      <4>4. \A i \in 1 .. N : i = N \/ i \in 1 .. N - 1
        BY <4>2
      <4>5. \A i \in 1 .. N : g[i] = stack[i]
        BY <2>3, <4>3, <4>4
      <4> QED BY <4>3, <4>5 DEF g
    <3> QED BY <1>1, <3>3, <3>4, SeqEqual
  <2> HIDE DEF f
  <2>5. \A x : x \in ToSet(Append(f, Root)) <=> x \in ToSet(f) \/ x = Root
    BY <1>1, <2>4, AppendedSet
  <2>6. \A x : x \in ToSet(stack) <=> x \in ToSet(f) \/ x = Root
    BY <2>4, <2>5
  <2>7. Roots(f) = Roots(stack)
    BY <2>6 DEF Roots
  <2> QED BY <2>1, <2>7, ReachFacts
<1> QED BY <1>2, <1>3

\* After every step only what is reached has fields.
LEMMA EmptiedStep ==
    ASSUME TablesTyped, Seated, AllEmptied(heap, stack), [TablesNext]_tablevars
    PROVE  AllEmptied(heap', stack')
<1>0. ASSUME heap' = heap, stack' = stack PROVE AllEmptied(heap', stack')
  BY <1>0
<1>1. ASSUME NEW h \in Heaps, heap' = Collected(h, stack') PROVE AllEmptied(heap', stack')
  BY <1>1, CollectionEmpties
<1>2. ASSUME heap' = Collected(heap, stack') PROVE AllEmptied(heap', stack')
  <2>1. heap \in Heaps
    BY TypesUnfold
  <2> QED BY <1>1, <1>2, <2>1
<1>3. CASE UNCHANGED tablevars
  BY <1>0, <1>3 DEF tablevars
<1>4. CASE PushOwn \/ PopOwn
  <2>1. heap' = heap
    BY <1>4 DEF PushOwn, PopOwn
  <2>2. Reachable(heap, stack') = Reachable(heap, stack)
    BY <1>4, OwnLeavesReached
  <2> QED BY <2>1, <2>2 DEF AllEmptied
<1>5. ASSUME PathStep PROVE AllEmptied(heap', stack')
  <2>1. PICK h \in Heaps : Changes(h)
    BY <1>5 DEF PathStep
  <2> QED BY <1>1, <2>1 DEF Changes
<1>6. CASE Get \/ Set
  BY <1>5, <1>6, GetIsPathStep, SetIsPathStep
<1>7. ASSUME NEW s \in Started, NEW path \in Paths, ProxyPush(s, path) \/ ForceProxy(s, path)
      PROVE  AllEmptied(heap', stack')
  <2>1. CASE ProxyPush(s, path)
    <3>1. stack' = stack
      BY <2>1, ProxyPushLeavesNothing
    <3> QED BY <1>0, <2>1, <3>1 DEF ProxyPush
  <2>2. CASE ForceProxy(s, path)
    <3>1. AskStep => UNCHANGED tablevars
      BY AskLeavesNothing
    <3>2. AskStep \/ PathStep
      BY <2>2, ForceIsPathStep
    <3> QED BY <1>3, <1>5, <3>1, <3>2
  <2> QED BY <1>7, <2>1, <2>2
<1>8. ASSUME NEW t \in Reachable(heap, stack), Clear(t) \/ AskEmpty(t)
      PROVE  AllEmptied(heap', stack')
  <2>1. CASE AskEmpty(t)
    <3>1. stack' = stack
      BY <2>1, AskEmptyLeavesNothing
    <3> QED BY <1>0, <2>1, <3>1 DEF AskEmpty
  <2>2. CASE Clear(t)
    <3> DEFINE h == [heap EXCEPT ![t] = Empty]
    <3>1. heap' = Collected(h, stack')
      BY <2>2 DEF Clear, Changes
    <3>2. heap \in Heaps /\ Empty \in [Keys -> FieldValues]
      BY TypesUnfold, EmptyType
    <3>3. h \in Heaps
      BY <3>2 DEF Heaps
    <3> HIDE DEF h
    <3> QED BY <1>1, <3>1, <3>3
  <2> QED BY <1>8, <2>1, <2>2
<1>9. ASSUME NEW t \in Reachable(heap, stack), NEW w \in Walks, Begin(w, t) \/ BeginEach(w, t, 0)
      PROVE  AllEmptied(heap', stack')
  <2>1. heap' = Collected(heap, stack')
    BY <1>9 DEF Begin, BeginEach
  <2> QED BY <1>2, <2>1
<1>10. ASSUME NEW w \in Walks, NEW i \in 1 .. Len(own), BeginEach(w, Root, own[i])
       PROVE  AllEmptied(heap', stack')
  <2>1. heap' = Collected(heap, stack')
    BY <1>10 DEF BeginEach
  <2> QED BY <1>2, <2>1
<1>11. ASSUME NEW w \in Running,
              Advance(w) \/ DropIterator(w) \/ AdvanceEach(w) \/ EndEach(w) \/ ThrowEach(w)
       PROVE  AllEmptied(heap', stack')
  <2>1. heap' = Collected(heap, stack')
    BY <1>11 DEF Advance, DropIterator, AdvanceEach, EndEach, ThrowEach, LeftBy
  <2> QED BY <1>2, <2>1
<1>12. ASSUME NEW w \in Running, NEW v \in Walks \ Running, CopyWalk(v, w)
       PROVE  AllEmptied(heap', stack')
  BY <1>0, <1>12 DEF CopyWalk
<1> QED BY <1>3, <1>4, <1>6, <1>7, <1>8, <1>9, <1>10, <1>11, <1>12 DEF TablesNext

(***************************************************************************)
(* The paths, with any tables, keys and number of walks: what a read       *)
(* returns is what Lua finds at its path, from a table in the registry and *)
(* from one on the stack, and the stack is left as it was.  Of a table on  *)
(* the stack, the push of a proxy is claimed to find the value only if it  *)
(* is the table of globals, and valid to answer right only if it lies on   *)
(* the top: stack_push and stack_valid are the uses the code fails.        *)
(* A write whose tables exist changes that field alone; one that has to    *)
(* create tables can be read back, and replaces nothing that was there     *)
(* unless told to override.                                                *)
(***************************************************************************)
THEOREM PathsOfTables ==
    ASSUME Uses \subseteq {"throw"}
    PROVE  TablesSpec => []PathsAgree
<1>0. \A u \in {"copy", "not_top", "stack_push", "stack_valid"} : u \notin Uses
  OBVIOUS
<1> DEFINE PathsKept == TablesTyped /\ Seated /\ AllEmptied(heap, stack)
<1>1. TablesInit => PathsKept
  <2>1. ASSUME TablesInit PROVE AllEmptied(heap, stack)
    BY <2>1 DEF TablesInit, AllEmptied
  <2> QED BY <2>1, TypesInitially, InitiallySeated
<1>2. PathsKept /\ [TablesNext]_tablevars => PathsKept'
  <2> SUFFICES ASSUME PathsKept, [TablesNext]_tablevars PROVE PathsKept'
    OBVIOUS
  <2>1. TablesTyped' /\ Seated'
    BY <1>0, TypesStep, SeatedStep
  <2>2. AllEmptied(heap', stack')
    BY EmptiedStep
  <2>3. AllEmptied(heap, stack)'
    BY <2>2 DEF AllEmptied
  <2> QED BY <2>1, <2>3
<1>3. PathsKept => PathsAgree
  <2> SUFFICES ASSUME PathsKept PROVE PathsAgree
    OBVIOUS
  <2>1. OwnSeated
    BY DEF Seated
  <2>2. \A s \in Started, path \in Paths : ReadsAgree(s, path)
    BY <1>0, <2>1, ReadsAlwaysAgree
  <2>3. \A s \in Started, path \in Paths : \A v \in {LuaNil, Scalar}, mode \in Modes :
           WritesAgree(s, path, v, mode)
    BY <2>1, WritesAlwaysAgree
  <2> QED BY <2>2, <2>3 DEF PathsAgree
<1> QED BY <1>1, <1>2, <1>3, PTL DEF TablesSpec
=============================================================================

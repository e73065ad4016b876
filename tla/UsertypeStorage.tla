--------------------------- MODULE UsertypeStorage ---------------------------
(***************************************************************************)
(* usertype_storage.hpp: what sol keeps of a registered C++ class.         *)
(*                                                                         *)
(* The storage of a class is a C++ object inside a userdata of Lua: it     *)
(* owns the bindings (the C++ functions and variables made visible), maps  *)
(* names to them, and refers to the metatables: one for each way an object *)
(* can be held, and one more for the table T that scripts see under the    *)
(* class's name.  A lookup takes one of two paths.  On the fast one        *)
(* __index is the metatable itself and C++ is not asked; on the slow one   *)
(* it is a closure over raw pointers to the storage.  A class starts on    *)
(* the fast path and is moved to the slow one by the first member that     *)
(* needs it.  Each class here is one record: the storage and its tables.   *)
(***************************************************************************)
EXTENDS Naturals, Sequences, FiniteSets

CONSTANTS Classes,
          Names,      \* string keys members are bound under
          Others,     \* keys that are not strings
          Values,     \* values of Lua that scripts assign
          BaseLists(_),  \* the lists of bases the program may declare
          MetaKeys,   \* which of AllMetaKeys the program binds
          MaxPerKey,  \* bound: bindings that exist for one key at a time
          Operations  \* which of AllOperations the program performs

AllMetaKeys == {"__index", "__newindex", "static_index", "static_new_index",
                "__gc"}
AllOperations == {"bind", "construct", "derive", "unregister", "script",
                  "object"}

ASSUME StorageAssumption ==
    /\ MetaKeys \subseteq AllMetaKeys /\ Operations \subseteq AllOperations
    /\ Names \cap AllMetaKeys = {} /\ (Names \cup AllMetaKeys) \cap Others = {}
    /\ "call" \notin Names  \* the tag of call constructors' bindings
    /\ \A c \in Classes : BaseLists(c) \subseteq Seq(Classes)
    /\ MaxPerKey \in Nat /\ MaxPerKey >= 2

Handling == {"__index", "__newindex", "static_index", "static_new_index"}

\* submetatable_type.  "named" is the metatable of the class's table T.
Pointers == {"reference", "const_reference"}
Holding  == {"value", "const_value", "unique"} \cup Pointers
Metatables == Holding \cup {"named"}
Tables     == Metatables \cup {"T"}

\* What a member is: a callable, a variable (member pointer or property)
\* or a value of Lua, which sol treats as a variable of its own.
Kinds == {"function", "variable", "reference"}
IsVariable(kind) == kind \in {"variable", "reference"}

VARIABLES class,      \* class[c] is the storage of c with its tables
          last        \* the assignment a script just made to a table T
vars == <<class, last>>

-----------------------------------------------------------------------------
(* Values of the maps. *)

None == <<>>     \* nullptr, or sol's default
Id   == (Names \cup MetaKeys \cup {"call"}) \X (1 .. MaxPerKey)

\* An entry of a metatable.
Closure(id) == [closure |-> id]
Plain(v)    == [value |-> v]
Builtin     == [builtin |-> TRUE]
Entries == {Closure(id) : id \in Id} \cup {Plain(v) : v \in Values}
           \cup {Builtin}

\* What __index or __newindex of a table is: absent, the table itself, or
\* a closure over a storage, which knows the bases it was made with.
Absent == [is |-> "absent", gen |-> 0, bases |-> <<>>]
Itself == [is |-> "table", gen |-> 0, bases |-> <<>>]
Ask(gen, bases) == [is |-> "storage", gen |-> gen, bases |-> bases]

Bind(map, k, e) == [x \in DOMAIN map \cup {k} |-> IF x = k THEN e ELSE map[x]]
Drop(map, k)    == [x \in DOMAIN map \ {k} |-> map[x]]

\* Mutant: the tables of const objects are forgotten.
ClearedButConst == Tables \ {"const_value", "const_reference"}

\* The tables clear() empties.
Cleared == Tables

\* unregister: the tables stay, for objects and scripts still use them.
clear(r) ==
    LET empty(f, nothing) == [t \in Tables |-> IF t \in Cleared THEN nothing
                                               ELSE f[t]]
    IN [r EXCEPT !.live = FALSE,
          !.storage = <<>>, !.string_keys = <<>>, !.auxiliary_keys = <<>>,
          !.base = [k \in Handling |-> None],
          !.slow = FALSE, !.derived = <<>>,
          !.entries = empty(@, <<>>),
          !.index = empty(@, Absent), !.new_index = empty(@, Absent)]

Unused == [live |-> FALSE, named |-> FALSE, gen |-> 0, storage |-> <<>>, string_keys |-> <<>>,
           auxiliary_keys |-> <<>>, base |-> [k \in Handling |-> None],
           slow |-> FALSE, derived |-> <<>>,
           entries |-> [t \in Tables |-> <<>>],
           index |-> [t \in Tables |-> Absent],
           new_index |-> [t \in Tables |-> Absent]]

-----------------------------------------------------------------------------
(* Binding members. *)

\* The closures that make lookups ask the storage.  For the class's own
\* table they are written into T, where no lookup goes.
change_indexing(r, tables, bases) ==
    LET where == {IF t = "named" THEN "T" ELSE t : t \in tables}
        ask(hooks) == [t \in Tables |-> IF t \in where THEN Ask(r.gen, bases)
                                        ELSE hooks[t]]
    IN [r EXCEPT !.slow = TRUE, !.index = ask(@), !.new_index = ask(@)]

update_bases(r, bases) ==
    IF bases = <<>> THEN r
    ELSE [change_indexing(r, Metatables, bases) EXCEPT !.derived = bases]

\* A new binding exists before the one it replaces is destroyed.
NewId(r, key) ==
    <<key, CHOOSE n \in 1 .. MaxPerKey :
               /\ <<key, n>> \notin DOMAIN r.storage
               /\ \A m \in 1 .. n - 1 : <<key, m>> \in DOMAIN r.storage>>

\* Mutant: an __index is bound and lookups stay fast.
PoisonNotIndex(r, key, kind) ==
    ~r.slow /\ (IsVariable(kind) \/ key = "__newindex")

\* poison_indexing: is_using_new_index is set since the registration, so
\* is_using_index decides.
Poison(r, key, kind) ==
    ~r.slow /\ (IsVariable(kind) \/ key \in {"__index", "__newindex"})

\* The tables string_for_each_metatable_func writes a key into.
Written(key) == IF key \in Handling THEN {}
                ELSE IF key = "__gc" THEN {"value", "const_value"}
                ELSE Holding

replaced(storage, old, id, binding) ==
    Bind(IF old = None THEN storage ELSE Drop(storage, old), id, binding)

\* Mutant: a handler is set once and kept when its binding is replaced.
HandlersSetOnce(base, key, id) ==
    IF key \in Handling /\ base[key] = None THEN [base EXCEPT ![key] = id]
    ELSE base

Handlers(base, key, id) ==
    IF key \in Handling THEN [base EXCEPT ![key] = id] ELSE base

set(r, key, kind, value) ==
    LET id  == NewId(r, key)
        old == IF key \in DOMAIN r.string_keys THEN r.string_keys[key]
               ELSE None
        entry == IF kind = "reference" THEN Plain(value) ELSE Closure(id)
        q == IF Poison(r, key, kind) THEN change_indexing(r, Holding, <<>>)
             ELSE r
    IN [q EXCEPT
          !.storage = replaced(@, old, id, [kind |-> kind, value |-> value]),
          !.base = Handlers(@, key, id),
          !.entries = [t \in Tables |-> IF t \in Written(key)
                                        THEN Bind(@[t], key, entry) ELSE @[t]],
          !.string_keys = Bind(@, key, id)]

\* A key that is no string: the value goes to every metatable and the map.
set_auxiliary(r, key, value) ==
    [r EXCEPT
       !.entries = [t \in Tables |-> IF t \in Holding
                                     THEN Bind(@[t], key, Plain(value))
                                     ELSE @[t]],
       !.auxiliary_keys = Bind(@, key, value)]

\* call_construction: the bindings of earlier calls are kept for good.
set_call(r) ==
    LET id == NewId(r, "call")
    IN [r EXCEPT
          !.storage = Bind(@, id, [kind |-> "function", value |-> None]),
          !.entries["named"] = Bind(@, "__call", Closure(id))]

\* register_usertype on top of whatever the tables hold.
Fresh(r) ==
    LET q == IF r.live THEN clear(r) ELSE r
        gen == 1 - q.gen
    IN [q EXCEPT
          !.live = TRUE, !.named = TRUE, !.gen = gen,
          !.entries = [t \in Tables |->
              IF t \in Holding \ Pointers THEN Bind(@[t], "__gc", Builtin)
              ELSE @[t]],
          !.index = [t \in Tables |-> IF t \in Holding THEN Itself
                                      ELSE IF t = "named" THEN Ask(gen, <<>>)
                                      ELSE @[t]],
          !.new_index = [t \in Tables |-> IF t \in Metatables
                                          THEN Ask(gen, <<>>) ELSE @[t]]]

-----------------------------------------------------------------------------
(* Looking members up. *)

\* What a script receives: a function, the value read through a variable,
\* a value of Lua, whatever a handler returns, nil or an error.
Function(c, id) == [is |-> "function", of |-> <<c, id>>]
Variable(c, id) == [is |-> "variable", of |-> <<c, id>>]
Value(v)        == [is |-> "value", of |-> <<v>>]
Handler(c, id)  == [is |-> "handler", of |-> <<c, id>>]
Nil      == [is |-> "nil", of |-> <<>>]
Error    == [is |-> "error", of |-> <<>>]
Dangling == [is |-> "dangling", of |-> <<>>]

Read(c, id) ==
    IF id \notin DOMAIN class[c].storage THEN Dangling
    ELSE LET b == class[c].storage[id]
         IN CASE b.kind = "function" -> Function(c, id)
              [] b.kind = "variable" -> Variable(c, id)
              [] b.kind = "reference" -> Value(b.value)

Has(c, k) == k \in DOMAIN class[c].string_keys \cup DOMAIN class[c].auxiliary_keys

Own(c, k) == IF k \in DOMAIN class[c].string_keys
             THEN Read(c, class[c].string_keys[k])
             ELSE Value(class[c].auxiliary_keys[k])

\* Raw access to a table by Lua itself.
Raw(c, t, k) ==
    LET e == class[c].entries[t][k]
    IN IF k \notin DOMAIN class[c].entries[t] THEN Nil
       ELSE IF "builtin" \in DOMAIN e THEN [is |-> "builtin", of |-> <<>>]
       ELSE IF "value" \in DOMAIN e THEN Value(e.value)
       ELSE Function(c, e.closure)

\* base_walk_index: the first registered base that has the key.
Providers(bases, k) ==
    {i \in DOMAIN bases : class[bases[i]].live /\ Has(bases[i], k)}
First(S) == CHOOSE i \in S : \A j \in S : i <= j

self_index_call(c, k, bases, t) ==
    LET found == Providers(bases, k)
    IN CASE Has(c, k) -> Own(c, k)
         [] ~Has(c, k) /\ found # {} -> Own(bases[First(found)], k)
         [] OTHER -> IF class[c].base["__index"] = None THEN Raw(c, t, k)
                     ELSE Handler(c, class[c].base["__index"])

\* What a script gets for object[k], the object held as t.
ObjectIndex(c, t, k) ==
    LET hook == class[c].index[t]
    IN CASE hook.is = "absent" -> Error
         [] hook.is = "table" -> Raw(c, t, k)
         [] hook.is = "storage" ->
              IF hook.gen # class[c].gen \/ ~class[c].live THEN Dangling
              ELSE self_index_call(c, k, hook.bases, t)

-----------------------------------------------------------------------------
(* The operations. *)

Init == class = [c \in Classes |-> Unused] /\ last = None

\* new_usertype<C>(name): a default constructor, if the class has one,
\* becomes a member "new".
Register(c) ==
    /\ "unregister" \in Operations \/ ~class[c].live
    /\ \/ class' = [class EXCEPT ![c] = Fresh(@)]
       \/ /\ "construct" \in Operations /\ "new" \in Names
          /\ class' = [class EXCEPT ![c] = set(Fresh(@), "new", "function", None)]
    /\ last' = None

Unregister(c) ==
    /\ "unregister" \in Operations
    /\ class[c].live
    /\ class' = [class EXCEPT ![c] = clear(@)]
    /\ last' = None

\* usertype<C>::set(key, function or variable).
BindMember(c, key, kind) ==
    /\ "bind" \in Operations
    /\ class[c].live
    /\ class' = [class EXCEPT ![c] = set(@, key, kind, None)]
    /\ last' = None

BindHandler(c, key) ==
    /\ class[c].live
    /\ class' = [class EXCEPT ![c] = set(@, key, "function", None)]
    /\ last' = None

BindCall(c) ==
    /\ "construct" \in Operations
    /\ class[c].live
    /\ \E n \in 1 .. MaxPerKey : <<"call", n>> \notin DOMAIN class[c].storage
    /\ class' = [class EXCEPT ![c] = set_call(@)]
    /\ last' = None

\* usertype<C>::set(sol::base_classes, sol::bases<...>()).
DeclareBases(c, bases) ==
    /\ "derive" \in Operations
    /\ class[c].live
    /\ class' = [class EXCEPT ![c] = update_bases(@, bases)]
    /\ last' = None

\* Mutant: a Lua value is taken for a function and not replaced.
OverwriteNot(c, k, v) ==
    IF k \in DOMAIN class[c].string_keys THEN UNCHANGED class
    ELSE class' = [class EXCEPT ![c].auxiliary_keys[k] = v]

\* What an assignment finds under a key of class c: a function binding
\* pushes itself and changes nothing, a variable writes into the object,
\* a Lua value is replaced where it is kept.
Overwrite(c, k, v) ==
    IF k \in DOMAIN class[c].string_keys
    THEN LET id == class[c].string_keys[k]
         IN IF class[c].storage[id].kind = "reference"
            THEN class' = [class EXCEPT ![c].storage[id].value = v]
            ELSE UNCHANGED class
    ELSE class' = [class EXCEPT ![c].auxiliary_keys[k] = v]

RawAssign(c, k, v) ==
    class' = [class EXCEPT ![c].entries["T"] = Bind(@, k, Plain(v))]

\* Mutant: raw_index(3) where raw_index(2) should be.
new_index_target_swapped(c, k, v) ==
    class' = [class EXCEPT ![c] = IF k \in Names
                                  THEN set(@, v, "reference", k)
                                  ELSE set_auxiliary(@, v, k)]

\* The storage's own set, for what no member and no handler takes.
new_index_target_set(c, k, v) ==
    class' = [class EXCEPT ![c] = IF k \in Names
                                  THEN set(@, k, "reference", v)
                                  ELSE set_auxiliary(@, k, v)]

\* T[k] = v in a script: T exists from the first registration on.
ScriptAssign(c, k, v) ==
    /\ "script" \in Operations
    /\ class[c].named
    /\ last' = [class |-> c, key |-> k, value |-> v]
    /\ IF \/ k \in DOMAIN class[c].entries["T"]
          \/ class[c].new_index["named"] = Absent
       THEN RawAssign(c, k, v)
       ELSE IF Has(c, k) THEN Overwrite(c, k, v)
       ELSE IF class[c].base["static_new_index"] = None
       THEN new_index_target_set(c, k, v)
       ELSE UNCHANGED class          \* whatever the handler does

\* object[k] = v in a script: the same for any object held as t.
ObjectAssign(c, t, k, v) ==
    /\ "object" \in Operations
    /\ last' = None
    /\ class[c].new_index[t].is = "storage"
    /\ IF Has(c, k) THEN Overwrite(c, k, v)
       ELSE LET bases == class[c].new_index[t].bases
                found == Providers(bases, k)
            IN IF found # {} THEN Overwrite(bases[First(found)], k, v)
               ELSE UNCHANGED class  \* __newindex of the class, or an error

Next ==
    \E c \in Classes :
        \/ Register(c) \/ Unregister(c) \/ BindCall(c)
        \/ \E k \in Names, kind \in {"function", "variable"} :
               BindMember(c, k, kind)
        \/ \E k \in MetaKeys : BindHandler(c, k)
        \/ \E bases \in BaseLists(c) : DeclareBases(c, bases)
        \/ \E k \in Names \cup Others, v \in Values :
               \/ ScriptAssign(c, k, v)
               \/ \E t \in {"value", "reference"} : ObjectAssign(c, t, k, v)

Spec == Init /\ [][Next]_vars

-----------------------------------------------------------------------------
(* Properties. *)

IsMap(f, D, R) == DOMAIN f \subseteq D /\ \A x \in DOMAIN f : f[x] \in R

IsHook(h) == /\ h.is \in {"absent", "table", "storage"}
             /\ h.gen \in {0, 1}
             /\ h.bases \in Seq(Classes)

\* A class's names map to ids, its tables hold entries, its hooks are
\* one of the three kinds usertype_storage.hpp installs.
TypeOK ==
    /\ \A c \in Classes :
        LET r == class[c]
        IN /\ r.live \in BOOLEAN /\ r.gen \in {0, 1} /\ r.slow \in BOOLEAN
           /\ IsMap(r.storage, Id, [kind : Kinds, value : Values \cup {None}])
           /\ IsMap(r.string_keys, Names \cup MetaKeys, Id)
           /\ IsMap(r.auxiliary_keys, Others, Values)
           /\ \A k \in Handling : r.base[k] \in Id \cup {None}
           /\ \A t \in Tables :
                 /\ IsMap(r.entries[t],
                          Names \cup MetaKeys \cup Others \cup {"__gc", "__call"},
                          Entries)
                 /\ IsHook(r.index[t]) /\ IsHook(r.new_index[t])
           /\ r.derived \in Seq(Classes)
    /\ \/ last = None
       \/ last \in [class : Classes, key : Names \cup Others, value : Values]

\* No raw pointer outlives what it points to: every closure in a table,
\* every name and every handler is over a binding the storage still owns,
\* and every __index or __newindex closure over the storage that is
\* registered now.
Pointed(c) ==
    LET r == class[c]
    IN {r.string_keys[k] : k \in DOMAIN r.string_keys}
       \cup {r.base[k] : k \in {h \in Handling : r.base[h] # None}}
       \cup {e.closure : e \in {x \in UNION {{r.entries[t][k] :
                                              k \in DOMAIN r.entries[t]} :
                                             t \in Tables} :
                                "closure" \in DOMAIN x}}

NoDanglingPointer ==
    \A c \in Classes :
        /\ Pointed(c) \subseteq DOMAIN class[c].storage
        /\ \A t \in Tables : \A h \in {class[c].index[t], class[c].new_index[t]} :
              h.is = "storage" => class[c].live /\ h.gen = class[c].gen

\* The rule both paths must follow: a member of the class itself, else of
\* the first base it declared that has one, else the class's __index, else
\* nil.  Only then is the choice of path an optimisation.
Rule(c, k) ==
    LET found == Providers(class[c].derived, k)
    IN CASE Has(c, k) -> Own(c, k)
         [] ~Has(c, k) /\ found # {} -> Own(class[c].derived[First(found)], k)
         [] OTHER -> IF class[c].base["__index"] = None THEN Nil
                     ELSE Handler(c, class[c].base["__index"])

\* An object of a registered class, however it is held, shows for every
\* name what the rule says: whatever the order in which members, handlers
\* and bases were bound, the table has moved to the slow path in time.
ObjectsFollowTheRule ==
    \A c \in Classes : class[c].live =>
        \A t \in Holding, k \in Names : ObjectIndex(c, t, k) = Rule(c, k)

\* After unregister nothing of the class is left to be found: no entry in
\* any metatable, no binding, no closure.  (T itself is a plain table then.)
NothingLeftBehind ==
    \A c \in Classes : ~class[c].live =>
        /\ class[c].storage = <<>> /\ class[c].string_keys = <<>>
        /\ \A t \in Tables : /\ class[c].index[t] = Absent
                             /\ class[c].new_index[t] = Absent
        /\ \A t \in Metatables : class[c].entries[t] = <<>>

\* An assignment that a script makes to a name of a registered class shows
\* at once in every object of the class.  It does when the name is new or
\* was assigned by a script before; the exceptions are named below.
InTable == last.key \in DOMAIN class[last.class].entries["T"]
Bound   == last.key \in DOMAIN class[last.class].string_keys
BoundAs(kinds) ==
    LET r == class[last.class]
    IN Bound /\ r.storage[r.string_keys[last.key]].kind \in kinds

Seen == \A t \in Holding : ObjectIndex(last.class, t, last.key) = Value(last.value)

AssignmentsReachObjects ==
    (/\ last # None /\ last.key \in Names
     /\ class[last.class].live /\ ~InTable
     /\ IF Bound THEN BoundAs({"reference"})
        ELSE class[last.class].base["static_new_index"] = None)
    => Seen

\* What follows is what the documentation leads one to expect, and the code
\* does not do: the README names the configuration that refutes each.

\* The same for a key that is no string.
OtherKeysReachObjects ==
    (/\ last # None /\ last.key \in Others
     /\ class[last.class].live /\ ~InTable)
    => Seen

\* The same for a name under which the program bound a function.
ReplacedFunctionsReachObjects ==
    (/\ last # None /\ last.key \in Names
     /\ class[last.class].live /\ ~InTable
     /\ BoundAs({"function", "reference"}))
    => Seen

\* The same whatever the table T held before the class was registered.
RegisteredTablesReachObjects ==
    (last # None /\ class[last.class].live /\ last.key \in Names /\ ~Bound) => Seen

\* What a script assigns to one object never changes what another object,
\* here one of the same class, shows.
ObjectsAreTheirOwn ==
    [][\A c \in Classes, k \in Names, v \in Values :
          ObjectAssign(c, "value", k, v) =>
              ObjectIndex(c, "reference", k)' = ObjectIndex(c, "reference", k)]_vars
=============================================================================

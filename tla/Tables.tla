------------------------------- MODULE Tables -------------------------------
(***************************************************************************)
(* Tables of Lua as sol reads, writes and walks them: traverse_get and     *)
(* traverse_set along a path of keys with their special keys, the proxies  *)
(* of operator[], basic_table_iterator, for_each, clear and empty.         *)
(*                                                                         *)
(* All of them work on the values they push.  A walk leaves its table and  *)
(* the last key on the stack between two steps, and everything else the    *)
(* program does with tables happens above them.                            *)
(***************************************************************************)
EXTENDS Integers, Sequences, FiniteSets, SequencesExt

CONSTANTS TableIds,   \* tables
          Root,       \* the one the program holds a reference to
          Globals,    \* the one lua_getglobal reads
          KeyOrder,   \* the keys, in the order lua_next goes through them
          Stored,     \* bound: tables the program assigns to fields
          Walks,      \* iterators and for_each loops of the program
          MaxHeld,    \* bound: walks under way, and tables the program keeps
                      \* on the stack
          MaxPath,    \* bound: keys of a path while no walk is under way
          MaxWalkPath,   \* bound: keys of a path while one is
          MaxWalkLinks,  \* bound: fields that hold tables while one is
          Uses        \* unusual uses of the API the program makes

(***************************************************************************)
(*   "copy"      copying an iterator: it++, std::for_each, std::move       *)
(*   "not_top"   advancing an iterator whose key is not on the top         *)
(*   "throw"     an exception of the function for_each calls               *)
(*   "stack_push"    pushing a proxy of a table on the stack that is not   *)
(*                   the table of globals                                  *)
(*   "stack_valid"   valid() or force() of a proxy of a table on the       *)
(*                   stack that does not lie on its top                    *)
(***************************************************************************)
AllUses == {"copy", "not_top", "throw", "stack_push", "stack_valid"}

ASSUME TablesAssumption ==
    /\ {Root, Globals} \subseteq TableIds /\ Stored \subseteq TableIds /\ MaxHeld \in Nat
    /\ MaxPath \in Nat \ {0}
    /\ MaxWalkPath \in 1 .. MaxPath /\ MaxWalkLinks \in Nat
    /\ Uses \subseteq AllUses
    /\ IsFiniteSet(TableIds) /\ IsFiniteSet(Walks)
    /\ TableIds \cap {"nil", "scalar", "error"} = {}
    /\ Len(KeyOrder) \in Nat /\ \A i \in 1 .. Len(KeyOrder) : KeyOrder[i] # "nil"
    /\ \A i, j \in 1 .. Len(KeyOrder) : KeyOrder[i] = KeyOrder[j] => i = j

Keys == {KeyOrder[i] : i \in 1 .. Len(KeyOrder)}
LuaNil == "nil"
Scalar == "scalar"
Handed == "handed"   \* the value for_each keeps while it calls the function
FieldValues == {LuaNil, Scalar} \cup TableIds

PathsOf(n) == UNION {[1 .. i -> Keys] : i \in 1 .. n}
Modes == {"none", "update_if_empty", "create_if_nil", "override_value"}

Gone == [kind |-> "gone"]
Walk == [kind : {"iterator", "for_each"}, pushed : BOOLEAN, table : TableIds,
         tableidx : Nat, keyidx : Nat \cup {-1}, ended : BOOLEAN,
         key : Keys \cup {LuaNil},
         seen : Seq(Keys), always : SUBSET Keys]

VARIABLES stack,   \* the thread's stack
          heap,    \* the fields of every table
          own,     \* where the program keeps tables on the stack
          walks    \* iterators and loops, with what they met (history: seen,
                   \* and always, the fields that were there all along)

tablevars == <<stack, heap, own, walks>>

-----------------------------------------------------------------------------
Active(w) == walks[w] # Gone
Running == {w \in Walks : Active(w)}

Paths == PathsOf(IF Running # {} THEN MaxWalkPath ELSE MaxPath)

Filled(h, t) == {k \in Keys : h[t][k] # LuaNil}

Empty == [k \in Keys |-> LuaNil]

\* The tables in the fields of those of T.
Linked(h, T) == {h[t][k] : t \in T, k \in Keys} \cap TableIds

\* Those n fields away from S, for every n that makes a difference.
Grown(h, S) ==
    LET grow[n \in 0 .. Cardinality(TableIds)] ==
            IF n = 0 THEN S ELSE LET g == grow[n - 1] IN g \cup Linked(h, g)
    IN  grow

ReachableFrom(h, S) == Grown(h, S)[Cardinality(TableIds)]

\* Tables Lua keeps: what the program and the stack refer to.
Reachable(h, st) ==
    ReachableFrom(h, {Root, Globals} \cup (ToSet(st) \cap TableIds))

\* What the collector leaves.
Collected(h, st) ==
    LET kept == Reachable(h, st)
    IN  [t \in TableIds |-> IF t \in kept THEN h[t] ELSE Empty]

Cut(st, n) == SubSeq(st, 1, Len(st) - n)
removed(st, i) == IF i = Len(st) THEN Cut(st, 1) ELSE RemoveAt(st, i)

MayHold == Len(own) + Cardinality(Running) < MaxHeld

FewLinks(h, st) ==
    Cardinality({l \in Reachable(h, st) \X Keys : h[l[1]][l[2]] \in TableIds})
        <= MaxWalkLinks

\* A change of fields: Lua allows no new ones in a table that is walked, and
\* the walks' histories take note.
Changes(h) ==
    /\ \A w \in Running : ~walks[w].ended =>
          Filled(h, walks[w].table) \subseteq Filled(heap, walks[w].table)
    /\ Running # {} => FewLinks(h, stack')
    /\ heap' = Collected(h, stack')
    /\ walks' = [w \in Walks |->
                    IF ~Active(w) THEN Gone
                    ELSE [walks[w] EXCEPT !.always = @ \cap Filled(h, walks[w].table)]]

-----------------------------------------------------------------------------
(***************************************************************************)
(* Paths.  An operation goes from machine to machine: the stack, the       *)
(* tables, the slot the next key is looked up in, how many values it       *)
(* counted for its destructor to pop, and how it ended.                    *)
(***************************************************************************)
Machine(st, h, at) ==
    [st |-> st, heap |-> h, at |-> at, count |-> 0, end |-> "go"]

Failed(m) == [m EXCEPT !.end = "error"]
Top(m) == Last(m.st)
Push(m, v) == [m EXCEPT !.st = Append(@, v)]
Pop(m, n) == [m EXCEPT !.st = Cut(@, n)]

\* A new table that nothing refers to.
Spare(m) == TableIds \ Reachable(m.heap, m.st)
New(m) == CHOOSE t \in Spare(m) : TRUE
PushNew(m) ==
    IF Spare(m) = {} THEN Failed(m)
    ELSE LET t == New(m) IN [Push(m, t) EXCEPT !.heap[t] = Empty]

\* stack::get_field and set_field: indexing what is no table is an error.
get_field(m, k) ==
    IF m.st[m.at] \notin TableIds THEN Failed(m)
    ELSE Push(m, m.heap[m.st[m.at]][k])

\* Mutant: the key is pushed in the place of the value.
set_field_twice(m, k, v) ==
    IF m.end = "error" \/ m.st[m.at] \notin TableIds THEN Failed(m)
    ELSE [m EXCEPT !.heap[m.st[m.at]][k] = k]

set_field(m, k, v) ==
    IF m.end = "error" \/ m.st[m.at] \notin TableIds THEN Failed(m)
    ELSE [m EXCEPT !.heap[m.st[m.at]][k] = v]

Descend(m) == [m EXCEPT !.at = Len(m.st)]

\* A value that is not there is replaced by a new table, which is stored.
PutNew(m, k) == LET n == PushNew(Pop(m, 1)) IN set_field(n, k, Top(n))

\* traverse_get_deep, one key: with create_if_nil a table comes in the place
\* of nil, but is not stored; for the last key only where a table is asked for.
get_deep(m, k, type, mode) ==
    LET n == get_field(m, k)
        replace == n.end = "go" /\ Top(n) = LuaNil /\ mode = "create_if_nil" /\ type = "table"
    IN  IF m.end # "go" THEN m
        ELSE IF replace THEN Descend(PushNew(Pop(n, 1))) ELSE Descend(n)

\* probe_get_field: nothing is pushed for what cannot be indexed; nil counts
\* as a level and as a failure.
probe(m, k) ==
    IF m.st[m.at] \notin TableIds THEN [m EXCEPT !.end = "none"]
    ELSE LET n == [get_field(m, k) EXCEPT !.count = @ + 1]
         IN  IF Top(n) = LuaNil THEN [n EXCEPT !.end = "none"] ELSE n

\* The probe for the last key looks for a value of the type asked for.
Fits(v, type) ==
    CASE type = "table" -> v \in TableIds
      [] type = "scalar" -> v = Scalar
      [] type = "object" -> v # LuaNil

\* traverse_get_deep_optional, one key: where the probe failed a table is
\* created and stored, in place of the top.
get_deep_optional(m, k, type, mode) ==
    LET p == probe(m, k)
    IN  IF m.end # "go" THEN m
        ELSE IF p.end = "go" /\ Fits(Top(p), type) THEN Descend(p)
        ELSE IF mode # "create_if_nil" THEN [p EXCEPT !.end = "none"]
        ELSE Descend(PutNew([p EXCEPT !.end = "go"], k))

\* Whether a table is put in the place of what a key before the last holds.
replaces(v, mode) ==
    \/ mode \in {"update_if_empty", "create_if_nil"} /\ v = LuaNil
    \/ mode = "override_value" /\ v \notin TableIds

\* traverse_set_deep, a key before the last.
set_deep(m, k, mode) ==
    LET n == get_field(m, k)
    IN  IF m.end # "go" THEN m
        ELSE IF n.end = "go" /\ replaces(Top(n), mode) THEN Descend(PutNew(n, k))
        ELSE Descend(n)

\* Mutant: the field is set whether it has a value or not.
set_last_blind(m, k, v, mode) == set_field(m, k, v)

\* traverse_set_deep, the last key.
set_last(m, k, v, mode) ==
    LET p == probe(m, k)
    IN  IF mode = "update_if_empty" /\ p.end = "go" THEN m
        ELSE set_field(m, k, v)

\* One key on the way: those before the last, and all of a tuple.
along(op, m, k, mode) ==
    CASE op = "get"      -> get_deep(m, k, "table", mode)
      [] op = "optional" -> get_deep_optional(m, k, "object", mode)
      [] op = "set"      -> set_deep(m, k, mode)
      [] op = "tuple"    -> IF m.end = "go" THEN Descend(get_field(m, k)) ELSE m
      [] op = "valid"    -> IF m.end = "go" THEN Descend(probe(m, k)) ELSE m

\* The machines of an operation after the first n keys.
deep(op, m, path, mode) ==
    LET d[n \in 0 .. Len(path)] ==
            IF n = 0 THEN m ELSE along(op, d[n - 1], path[n], mode)
    IN  d

traverse_get(m, path, type, mode) ==
    LET last == get_deep(deep("get", m, path, mode)[Len(path) - 1], Last(path), type, mode)
    IN  [last EXCEPT !.st = IF last.end = "error" THEN @ ELSE Cut(@, Len(path)),
                     !.end = IF @ = "error" THEN @ ELSE Top(last)]

traverse_get_optional(m, path, type, mode) ==
    LET last == get_deep_optional(deep("optional", m, path, mode)[Len(path) - 1],
                                  Last(path), type, mode)
    IN  [last EXCEPT !.st = IF last.end = "error" THEN @ ELSE Cut(@, last.count),
                     !.end = CASE @ = "go" /\ Fits(Top(last), type) -> Top(last)
                               [] @ = "error" -> @
                               [] OTHER -> LuaNil]

traverse_set(m, path, v, mode) ==
    LET all  == deep("set", m, path, mode)[Len(path) - 1]
        last == IF all.end = "error" THEN all ELSE set_last(all, Last(path), v, mode)
    IN  [last EXCEPT !.st = IF last.end = "error" THEN @ ELSE Cut(@, Len(path) - 1)]

\* A tuple of keys: each pushes, and the last value takes the place of all
\* but the first.
get_tuple(m, path) ==
    LET all == deep("tuple", m, path, "none")[Len(path)]
    IN  IF all.end # "go" THEN all
        ELSE Push(Pop(all, Len(path) - 1), Top(all))

\* table_proxy::push: the final value replaces the table that was pushed, the
\* stack is cut behind one more, and ~push_popper pops that one.
proxy_push(m, path) ==
    LET n == get_tuple(m, path)
        replaced == [Cut(n.st, 1) EXCEPT ![m.at] = Top(n)]
    IN  IF n.end # "go" THEN n
        ELSE [n EXCEPT !.st = Cut(SubSeq(replaced, 1, m.at + 1), 1)]

\* The same for a table on the stack: the first key is read from the table of
\* globals, the others from what was found, and the value is left on the top.
proxy_push_in_place(m, path) ==
    LET first == Descend(Push(m, m.heap[Globals][path[1]]))
        all   == deep("tuple", first, Tail(path), "none")[Len(path) - 1]
    IN  IF all.end # "go" THEN all ELSE Push(m, Top(all))

\* table_proxy::valid: what lies on the top is probed, and the probe of the
\* tuple stops where it fails.
valid(m, path) ==
    LET last == deep("valid", Descend(m), path, "none")[Len(path)]
    IN  [Pop(last, last.count) EXCEPT !.end = IF last.end = "go" THEN "yes" ELSE "no"]

\* push_pop: a table in the registry is pushed and popped, one on the stack
\* is used where it lies.
Pushed(t) == Machine(Append(stack, t), heap, Len(stack) + 1)
InPlace(i) == Machine(stack, heap, i)

Started == {[m |-> Pushed(t), pops |-> 1] : t \in Reachable(heap, stack)}
           \cup {[m |-> InPlace(own[i]), pops |-> 0] : i \in 1 .. Len(own)}

\* What an operation that raised no error leaves.
Left(s, m) == [st |-> Cut(m.st, s.pops), heap |-> m.heap, end |-> m.end]

Ends(lefts) ==
    \E l \in lefts :
       /\ l.end # "error" /\ stack' = l.st
       /\ Changes(l.heap)
       /\ UNCHANGED own

Types == {"object", "table", "scalar"}
LookupModes == {"none", "create_if_nil"}

\* The program takes the value of a lookup.
Taken(l) == [l EXCEPT !.end = IF @ = "error" THEN @ ELSE "go"]

Get == Ends(UNION {{Taken(Left(s, traverse_get(s.m, path, type, mode))),
                    Taken(Left(s, traverse_get_optional(s.m, path, type, mode)))}
                     : s \in Started, path \in Paths, type \in Types, mode \in LookupModes})

Set == Ends({Left(s, traverse_set(s.m, path, v, mode))
                : s \in Started, path \in Paths, mode \in Modes,
                  v \in {LuaNil, Scalar} \cup (Stored \cap Reachable(heap, stack))})

\* Proxies that find their table: push takes a table on the stack for that of
\* the globals, valid takes it to be on the top.
Pushable(s) == s.pops = 1 \/ s.m.st[s.m.at] = Globals \/ "stack_push" \in Uses
Probed(s)   == s.m.at = Len(s.m.st) \/ "stack_valid" \in Uses

pushed_by(s, path) ==
    IF s.pops = 1 THEN proxy_push(s.m, path) ELSE proxy_push_in_place(s.m, path)

\* Pushed as an argument of a call, which pops it.
ProxyPush(s, path) ==
    /\ Pushable(s) /\ pushed_by(s, path).end # "error"
    /\ stack' = Cut(pushed_by(s, path).st, 1)
    /\ UNCHANGED <<heap, own, walks>>

\* force, get_or_create: a table where there is nothing.
ForceProxy(s, path) ==
    LET asked == valid(s.m, path)
        again == [s.m EXCEPT !.st = asked.st]
    IN  /\ Probed(s)
        /\ IF asked.end = "yes"
           THEN stack' = Cut(asked.st, s.pops) /\ UNCHANGED <<heap, own, walks>>
           ELSE /\ Spare(again) # {}
                /\ Ends({Left(s, traverse_set(again, path, New(again), "none"))})

-----------------------------------------------------------------------------
(* Walks.                                                                  *)

\* The places of the fields lua_next still has before it; none when the key
\* is no key.
Rest(h, t, key) ==
    {j \in 1 .. Len(KeyOrder) :
        /\ key = LuaNil \/ \E i \in 1 .. j - 1 : KeyOrder[i] = key
        /\ h[t][KeyOrder[j]] # LuaNil}

\* lua_next raises an error for a key that is none.
NextAllowed(st) == Last(st) \in Keys \cup {LuaNil}

\* lua_next, and what is left of the pair: keep values stay above the table.
Stepped(st, w, keep) ==
    LET rest == Rest(heap, st[w.tableidx], Last(st))
        next == KeyOrder[Min(rest)]
        base == Cut(st, 1)
    IN  IF rest = {}
        THEN [st |-> base, w |-> [w EXCEPT !.ended = TRUE, !.keyidx = -1, !.key = LuaNil]]
        ELSE [st |-> base \o (IF keep = 2 THEN <<next, Handed>> ELSE <<next>>),
              w |-> [w EXCEPT !.keyidx = Len(base) + 1, !.key = next,
                              !.seen = Append(@, next)]]

NewWalk(kind, t, pushed, tableidx) ==
    [kind |-> kind, pushed |-> pushed, table |-> t, tableidx |-> tableidx,
     keyidx |-> 0, ended |-> FALSE, key |-> LuaNil, seen |-> <<>>,
     always |-> Filled(heap, t)]

\* begin(): the iterator pushes the table and steps once.
Begin(w, t) ==
    /\ ~Active(w) /\ MayHold /\ FewLinks(heap, stack)
    /\ LET s == Stepped(stack \o <<t, LuaNil>>, NewWalk("iterator", t, TRUE, Len(stack) + 1), 1)
       IN  stack' = s.st /\ walks' = [walks EXCEPT ![w] = s.w]
    /\ heap' = Collected(heap, stack') /\ UNCHANGED own

\* operator++: the key is taken to be on the top.
Advance(w) ==
    /\ Active(w) /\ walks[w].kind = "iterator" /\ ~walks[w].ended
    /\ NextAllowed(stack)
    /\ Len(stack) # walks[w].keyidx => "not_top" \in Uses
    /\ LET s == Stepped(stack, walks[w], 1)
       IN  stack' = s.st /\ walks' = [walks EXCEPT ![w] = s.w]
    /\ heap' = Collected(heap, stack') /\ UNCHANGED own

\* Mutant: the key is left when a loop is broken off.
DroppedKeeping(st, w) == removed(st, w.tableidx)

\* ~basic_table_iterator.
Dropped(st, w) ==
    removed(IF w.keyidx # -1 THEN removed(st, w.keyidx) ELSE st, w.tableidx)

\* Scopes end in the reverse order; what was pushed later is gone.
Topmost(w) == Len(stack) = IF walks[w].ended THEN walks[w].tableidx ELSE walks[w].keyidx

DropIterator(w) ==
    /\ Active(w) /\ walks[w].kind = "iterator"
    /\ ~Topmost(w) => "copy" \in Uses
    /\ walks[w].tableidx <= Len(stack) /\ walks[w].keyidx <= Len(stack)
    /\ stack' = Dropped(stack, walks[w])
    /\ walks' = [walks EXCEPT ![w] = Gone]
    /\ heap' = Collected(heap, stack')
    /\ UNCHANGED own

CopyWalk(v, w) ==
    /\ "copy" \in Uses
    /\ Active(w) /\ walks[w].kind = "iterator" /\ ~Active(v)
    /\ walks' = [walks EXCEPT ![v] = walks[w]]
    /\ UNCHANGED <<stack, heap, own>>

\* empty(): an iterator that is compared with end() and destroyed.
IsEmpty(t) ==
    LET s == Stepped(stack \o <<t, LuaNil>>, NewWalk("iterator", t, TRUE, Len(stack) + 1), 1)
    IN  [st |-> Dropped(s.st, s.w), value |-> s.w.ended]

AskEmpty(t) ==
    /\ stack' = IsEmpty(t).st
    /\ UNCHANGED <<heap, own, walks>>

\* for_each: the table is pushed, or lies at index i; during a call of the
\* function the value is on the stack, too.
BeginEach(w, t, i) ==
    /\ ~Active(w) /\ MayHold /\ FewLinks(heap, stack)
    /\ LET pushed == i = 0
           st == IF pushed THEN Append(stack, t) ELSE stack
           s  == Stepped(Append(st, LuaNil), NewWalk("for_each", t, pushed,
                            IF pushed THEN Len(st) ELSE i), 2)
       IN  stack' = s.st /\ walks' = [walks EXCEPT ![w] = s.w]
    /\ heap' = Collected(heap, stack') /\ UNCHANGED own

\* Mutant: the key is popped with the value.
AdvanceEachPair(w) ==
    /\ Active(w) /\ walks[w].kind = "for_each" /\ ~walks[w].ended
    /\ Len(stack) = walks[w].keyidx + 1
    /\ LET s == Stepped(Cut(stack, 2), walks[w], 2)
       IN  stack' = s.st /\ walks' = [walks EXCEPT ![w] = s.w]
    /\ heap' = Collected(heap, stack') /\ UNCHANGED own

\* The function for_each called returns: its pn pops the value.
AdvanceEach(w) ==
    /\ Active(w) /\ walks[w].kind = "for_each" /\ ~walks[w].ended
    /\ Len(stack) = walks[w].keyidx + 1
    /\ LET s == Stepped(Cut(stack, 1), walks[w], 2)
       IN  stack' = s.st /\ walks' = [walks EXCEPT ![w] = s.w]
    /\ heap' = Collected(heap, stack') /\ UNCHANGED own

LeftBy(w, st) ==
    /\ stack' = IF walks[w].pushed THEN Cut(st, 1) ELSE st
    /\ walks' = [walks EXCEPT ![w] = Gone]
    /\ heap' = Collected(heap, stack')
    /\ UNCHANGED own

\* The end of for_each: ~push_popper pops the table.
EndEach(w) ==
    /\ Active(w) /\ walks[w].kind = "for_each" /\ walks[w].ended
    /\ Len(stack) = walks[w].tableidx \/ ~walks[w].pushed
    /\ LeftBy(w, stack)

\* An exception leaves for_each: pn pops the value and ~push_popper one more.
ThrowEach(w) ==
    /\ "throw" \in Uses
    /\ Active(w) /\ walks[w].kind = "for_each" /\ ~walks[w].ended
    /\ Len(stack) = walks[w].keyidx + 1
    /\ LeftBy(w, Cut(stack, 1))

\* clear(): lua_next from field to field, each set to nil, on a stack that
\* ends as it began.
Clear(t) ==
    /\ UNCHANGED <<stack, own>>
    /\ Changes([heap EXCEPT ![t] = Empty])

-----------------------------------------------------------------------------
(* The program keeps the root table on the stack, as a stack_table.        *)

PushOwn ==
    /\ MayHold
    /\ stack' = Append(stack, Root) /\ own' = Append(own, Len(stack) + 1)
    /\ UNCHANGED <<heap, walks>>

PopOwn ==
    /\ own # <<>> /\ Last(own) = Len(stack)
    /\ \A w \in Running : walks[w].tableidx # Last(own)
    /\ stack' = Front(stack) /\ own' = Front(own)
    /\ UNCHANGED <<heap, walks>>

TablesInit ==
    /\ stack = <<>> /\ own = <<>>
    /\ heap = [t \in TableIds |-> Empty]
    /\ walks = [w \in Walks |-> Gone]

TablesNext ==
    \/ PushOwn \/ PopOwn
    \/ Get \/ Set
    \/ \E s \in Started, path \in Paths : ProxyPush(s, path) \/ ForceProxy(s, path)
    \/ \E t \in Reachable(heap, stack) :
          \/ Clear(t) \/ AskEmpty(t)
          \/ \E w \in Walks : Begin(w, t) \/ BeginEach(w, t, 0)
    \/ \E w \in Walks, i \in 1 .. Len(own) : BeginEach(w, Root, own[i])
    \/ \E w \in Running :
          \/ Advance(w) \/ DropIterator(w) \/ AdvanceEach(w) \/ EndEach(w) \/ ThrowEach(w)
          \/ \E v \in Walks \ Running : CopyWalk(v, w)

TablesSpec == TablesInit /\ [][TablesNext]_tablevars

-----------------------------------------------------------------------------
(***************************************************************************)
(* The types of the variables.                                             *)
(***************************************************************************)
TablesTyped ==
    /\ stack \in Seq(FieldValues \cup Keys \cup {Handed})
    /\ heap \in [TableIds -> [Keys -> FieldValues]]
    /\ own \in Seq(Nat) /\ Len(own) <= MaxHeld
    /\ walks \in [Walks -> Walk \cup {Gone}]

\* The slots of a walk: its table if it pushed it, its key, and the value
\* while for_each calls the function.
SlotsOf(w) ==
    (IF walks[w].pushed THEN {walks[w].tableidx} ELSE {})
    \cup (IF walks[w].ended THEN {} ELSE
          walks[w].keyidx .. walks[w].keyidx
                             + (IF walks[w].kind = "for_each" THEN 1 ELSE 0))

(***************************************************************************)
(* The stack under tables: whatever is read, written or pushed in between, *)
(* and wherever a walk is broken off, every slot is the table or the key   *)
(* of one walk, where that walk looks for it, or the program's.            *)
(***************************************************************************)
StackPartitioned ==
    /\ \A w \in Running :
          /\ SlotsOf(w) \subseteq (1 .. Len(stack)) \ ToSet(own)
          /\ stack[walks[w].tableidx] = walks[w].table
          /\ ~walks[w].ended =>
                /\ stack[walks[w].keyidx] = walks[w].key
                /\ walks[w].kind = "for_each" => stack[walks[w].keyidx + 1] = Handed
          /\ \A v \in Running \ {w} : SlotsOf(v) \cap SlotsOf(w) = {}
    /\ \A i \in ToSet(own) : i \in 1 .. Len(stack) /\ stack[i] = Root
    /\ 1 .. Len(stack) =
          ToSet(own) \cup UNION {SlotsOf(w) : w \in Running}

(***************************************************************************)
(* A walk hands out no field twice and, when it ends, has handed out every *)
(* field that was there from its beginning, although fields were changed,  *)
(* cleared and walked by others meanwhile.                                 *)
(***************************************************************************)
EachFieldOnce ==
    \A w \in Running :
       /\ \A i, j \in 1 .. Len(walks[w].seen) :
             walks[w].seen[i] = walks[w].seen[j] => i = j
       /\ walks[w].ended => walks[w].always \subseteq ToSet(walks[w].seen)

\* What Lua says the first n keys of a path lead to.
Led(h, t, path) ==
    LET at[n \in 0 .. Len(path)] ==
            IF n = 0 THEN t
            ELSE IF at[n - 1] \in TableIds THEN h[at[n - 1]][path[n]] ELSE "error"
    IN  at

Lookup(h, t, path) == Led(h, t, path)[Len(path)]

\* What lookups, proxies and valid return where Lua finds v.
ReadRight(s, v, g, o, p, q) ==
    /\ g.end = v /\ (v # "error" => g.st = s.m.st)
    /\ o.end = (IF v = "error" THEN LuaNil ELSE v) /\ o.st = s.m.st
    /\ q.st = s.m.st
    /\ Probed(s) => q.end = (IF v \in {"error", LuaNil} THEN "no" ELSE "yes")
    /\ p.end # "error" => Cut(p.st, 1) = Cut(s.m.st, s.pops)
    /\ Pushable(s) => IF v = "error" THEN p.end = v ELSE p.st = Append(Cut(s.m.st, s.pops), v)

ReadsAgree(s, path) ==
    ReadRight(s, Lookup(heap, s.m.st[s.m.at], path),
              traverse_get(s.m, path, "object", "none"),
              traverse_get_optional(s.m, path, "object", "none"),
              pushed_by(s, path), valid(s.m, path))

\* A write that is allowed reaches the field the path names; where tables are
\* missing it fills only what was nil, unless told to override.
WroteRight(s, path, v, mode, r) ==
    LET t == s.m.st[s.m.at]
        c == Led(heap, t, path)[Len(path) - 1]
        k == Last(path)
    IN  IF r.end = "error" THEN mode = "none" => c \notin TableIds
        ELSE /\ r.st = s.m.st
             /\ IF c \in TableIds
                THEN IF mode = "update_if_empty" /\ heap[c][k] # LuaNil
                     THEN r.heap = heap ELSE r.heap = [heap EXCEPT ![c][k] = v]
                ELSE /\ Lookup(r.heap, t, path) = v
                     /\ mode = "override_value" \/ \A u \in TableIds, j \in Keys :
                           heap[u][j] \in {LuaNil, r.heap[u][j]}

WritesAgree(s, path, v, mode) ==
    WroteRight(s, path, v, mode, traverse_set(s.m, path, v, mode))

(***************************************************************************)
(* A lookup that may create tables creates them where nothing is, and      *)
(* leaves everything else (docs/source/api/table_traversal_keys.rst:6).    *)
(* The code does not keep to it: see the README.                           *)
(***************************************************************************)
LookupsFillOnlyNil ==
    \A s \in Started, path \in Paths, type \in Types :
       LET r == traverse_get_optional(s.m, path, type, "create_if_nil")
       IN  r.end # "error" => \A t \in TableIds, k \in Keys :
                                 heap[t][k] \in {LuaNil, r.heap[t][k]}

(***************************************************************************)
(* A proxy of a table on the stack pushes what a proxy of the same table   *)
(* in the registry pushes (docs/source/api/stack_reference.rst:10: the     *)
(* APIs are identical).  The code does not keep to it: see the README.     *)
(***************************************************************************)
StackProxiesPushAlike ==
    \A i \in ToSet(own), path \in Paths :
       LET here  == proxy_push_in_place(InPlace(i), path)
           there == proxy_push(Pushed(stack[i]), path)
       IN  here.end = there.end /\ (here.end # "error" => here.st = there.st)

(***************************************************************************)
(* The same for valid().  The code does not keep to it either.             *)
(***************************************************************************)
StackProxiesAskAlike ==
    \A i \in ToSet(own), path \in Paths :
       valid(InPlace(i), path).end = valid(Pushed(stack[i]), path).end

(***************************************************************************)
(* However long a path is and wherever it breaks off, reading it gives     *)
(* what Lua would give and writing it changes what Lua would change,       *)
(* through a table in the registry or on the stack; traverse_get,          *)
(* optional, valid, push and traverse_set leave the stack as they found    *)
(* it but for the value pushed.  Of a table on the stack, valid is claimed *)
(* to answer right when the table is on the top, and push to find the      *)
(* value when it is the table of globals.                                  *)
(***************************************************************************)
PathsAgree ==
    \A s \in Started, path \in Paths :
       /\ ReadsAgree(s, path)
       /\ \A v \in {LuaNil, Scalar}, mode \in Modes : WritesAgree(s, path, v, mode)
=============================================================================

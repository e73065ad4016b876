------------------------------ MODULE Containers ------------------------------
(***************************************************************************)
(* A C++ container in Lua: usertype_container_default, what a script that  *)
(* writes c[k], c:insert(k, v), pairs(c) ... reaches.  Which overloads     *)
(* run is decided by the type of the container (kind); keys of linear      *)
(* containers count from 1, C++ offsets from 0.                            *)
(*                                                                         *)
(* A traversal is a userdata (iter) with a C++ iterator and a reference to *)
(* the container.  Here its position is that of the item it will hand out  *)
(* next, Len(items) + 1 for end(); valid says whether C++ still guarantees *)
(* the iterator after what was done to the container.                      *)
(***************************************************************************)
EXTENDS Integers, Sequences, SequencesExt, FiniteSets

CONSTANTS Kinds,    \* the kinds of container the script is given
          Values,   \* values: a set of positive integers
          MaxSize,  \* bound: items in the container
          MaxGiven, \* bound: items handed out by one traversal
          Uses      \* what a script does beside what is defined (see below)

ASSUME ContainersAssumption ==
    /\ Kinds \subseteq {"vector", "list", "forward_list", "array", "map", "set"}
    /\ Values \subseteq Nat \ {0} /\ MaxSize \in Nat \ {0} /\ MaxGiven \in Nat
    /\ "array" \in Kinds => MaxSize >= 2    \* the array has two elements
    /\ Uses \subseteq {"out_of_range", "set_below", "empty_forward",
                       "map_insert", "break_loop", "drop"}

VARIABLES kind,       \* the type of the container
          items,      \* what begin() .. end() goes over
          loop,       \* the traversal that is on, or NoLoop
          owner,      \* the userdata: held by the script, dropped, collected
          called,     \* ghost: the last call, its arguments and its result
          undefined   \* C++ was asked for what it does not define
vars == <<kind, items, loop, owner, called, undefined>>

NoLoop == [pos |-> 0]
Nil == 0

Keys == 1 .. MaxSize
Linear == kind \in {"vector", "list", "forward_list", "array"}

\* A key of 0 stands for "no key": items of linear containers.  mark (ghost)
\* says what the traversal has to do with the item.
Item == [key : Keys \cup Values \cup {0}, value : Values \cup Keys,
         mark : {"new", "due", "given"}]
Fresh(k, v) == [key |-> k, value |-> v, mark |-> "new"]
Marked(s, m) == [i \in DOMAIN s |-> [s[i] EXCEPT !.mark = m]]

Call(op, k, v, ok) == called' = [op |-> op, key |-> k, value |-> v, ok |-> ok]

Init ==
    /\ kind \in Kinds
    /\ items \in IF kind = "array"
                 THEN {<<Fresh(0, v), Fresh(0, w)>> : v \in Values, w \in Values}
                 ELSE {<<>>}
    /\ loop = NoLoop /\ owner = "held" /\ undefined = FALSE
    /\ called = [op |-> "other", key |-> 0, value |-> Nil, ok |-> TRUE]

-----------------------------------------------------------------------------
(* What is asked of the container. *)

index_adjustment == -1

\* Where find(key) finds it, 0 for end().
Position(k) == SelectInSeq(items, LAMBDA x : x.key = k)

\* at(n): the n-th item, whatever the kind is.
at(n) ==
    LET offset == n + index_adjustment
    IN IF offset < 0 \/ offset >= Len(items) THEN Nil ELSE items[offset + 1].value

\* c[k], c:get(k).
get(k) ==
    IF Linear THEN at(k)
    ELSE IF Position(k) = 0 THEN Nil ELSE items[Position(k)].value

\* c:index_of(x): a value of a linear container, a key of the others.
index_of(x) ==
    LET p == IF Linear THEN SelectInSeq(items, LAMBDA y : y.value = x)
             ELSE Position(x)
        distance == p - 1
    IN IF p = 0 THEN Nil ELSE distance - index_adjustment

-----------------------------------------------------------------------------
(* What a call does to the container: nothing, with or without an error, or *)
(* one change at a place, or what C++ does not define.                      *)

Outcome(what, p, x, ok) == [what |-> what, place |-> p, item |-> x, ok |-> ok]
None == Fresh(0, Nil)
Nothing     == Outcome("nothing", 0, None, TRUE)
Error       == Outcome("nothing", 0, None, FALSE)
Broken      == Outcome("broken", 0, None, TRUE)
Place(p, x) == Outcome("place", p, x, TRUE)       \* x comes before place p
Write(p, x) == Outcome("write", p, x, TRUE)
Drop(p)     == Outcome("drop", p, None, TRUE)

\* A tree keeps its items in the order of their keys.
Sorted(k) == Cardinality({i \in DOMAIN items : items[i].key < k}) + 1

\* c:add(v), c:add(k, v): at the end, or where the key belongs; insert() does
\* not replace what is there.
add_copyable(k, v) ==
    CASE kind = "array" -> Error
      [] kind \in {"vector", "list", "forward_list"} -> Place(Len(items) + 1, Fresh(0, v))
      [] OTHER -> IF Position(k) # 0 THEN Nothing
                  ELSE Place(Sorted(k), Fresh(k, IF kind = "set" THEN k ELSE v))

\* set of an array.
set_array(k, v) ==
    LET offset == k + index_adjustment
    IN IF offset \in 0 .. Len(items) - 1 THEN Write(offset + 1, Fresh(0, v)) ELSE Error

\* set_category for random access iterators.
set_random(k, v) ==
    LET offset == k + index_adjustment IN
    CASE k <= 0 \/ offset > Len(items) -> Error
      [] offset = Len(items) -> add_copyable(0, v)
      [] OTHER -> Write(offset + 1, Fresh(0, v))

\* Mutant: the value is added after the place before the last one.
set_walking_short(k, v) ==
    LET offset == k + index_adjustment
        steps == IF offset < 0 THEN 0 ELSE IF offset > Len(items) THEN Len(items) ELSE offset
    IN IF steps < Len(items) THEN Write(steps + 1, Fresh(0, v))
       ELSE IF offset # steps THEN Error
       ELSE IF items = <<>> THEN Broken ELSE Place(steps, Fresh(0, v))

\* set_category for the others: it walks, and remembers one place before.
\* forward_list adds after that place, list at the end.
set_walking(k, v) ==
    LET offset == k + index_adjustment
        steps == IF offset < 0 THEN 0 ELSE IF offset > Len(items) THEN Len(items) ELSE offset
    IN IF steps < Len(items) THEN Write(steps + 1, Fresh(0, v))
       ELSE IF offset # steps THEN Error
       ELSE IF kind = "list" THEN add_copyable(0, v)
       \* The place before the end of an empty list is its end.
       ELSE IF items = <<>> THEN Broken ELSE Place(steps + 1, Fresh(0, v))

\* set_associative_find; the value for a key of a set is the key.
set_found(k, v) ==
    LET p == Position(k) IN
    IF p = 0 THEN Place(Sorted(k), Fresh(k, IF kind = "set" THEN k ELSE v))
    ELSE IF kind = "set" THEN Error ELSE Write(p, Fresh(k, v))

set_start(k, v) ==
    CASE kind = "array" -> set_array(k, v)
      [] kind = "vector" -> set_random(k, v)
      [] kind \in {"list", "forward_list"} -> set_walking(k, v)
      [] OTHER -> set_found(k, v)

\* Mutant: the iterator is advanced by the index of the script.
insert_copyable_unadjusted(k, v) ==
    CASE kind = "array" -> Error
      [] kind \in {"map", "set"} -> add_copyable(v, v)
      [] OTHER -> IF k \in 0 .. Len(items) THEN Place(k + 1, Fresh(0, v)) ELSE Broken

\* insert(c, k, v).  On trees the first argument is not looked at, and for a
\* map the value is the key as well.  The walk of insert_after_has compares
\* the place before with end(), one step too late.
insert_copyable(k, v) ==
    LET offset == k + index_adjustment
        steps == IF offset < 0 THEN 0 ELSE offset
    IN CASE kind = "array" -> Error
         [] kind \in {"map", "set"} -> add_copyable(v, v)
         [] kind = "forward_list" ->
                IF steps > Len(items) THEN Broken ELSE Place(steps + 1, Fresh(0, v))
         [] OTHER -> IF offset \in 0 .. Len(items) THEN Place(offset + 1, Fresh(0, v))
                     ELSE Broken

\* c:erase(k), and c[k] = nil.
erase_start(k) ==
    LET offset == k + index_adjustment
        steps == IF offset < 0 THEN 0 ELSE offset
    IN CASE kind = "array" -> Error
         [] kind \in {"map", "set"} ->
                IF Position(k) = 0 THEN Nothing ELSE Drop(Position(k))
         [] kind = "forward_list" ->
                IF steps < Len(items) THEN Drop(steps + 1) ELSE Broken
         [] OTHER -> IF offset \in 0 .. Len(items) - 1 THEN Drop(offset + 1) ELSE Broken

-----------------------------------------------------------------------------
(* What a change does to the items and to the iterator of the traversal.    *)

ItemsAfter(o) ==
    CASE o.what = "place" -> InsertAt(items, o.place, o.item)
      [] o.what = "write" -> [items EXCEPT ![o.place].value = o.item.value]
      [] o.what = "drop"  -> RemoveAt(items, o.place)
      [] OTHER -> items

\* Insertion moves the items of a vector, all of them if it has to grow;
\* erasing moves those behind.  In lists and trees only the erased item goes.
\* Adding at the end leaves end() where it is: what is added is before it.
LoopAfter(o, grows) ==
    LET p == o.place  q == loop.pos IN
    IF loop = NoLoop THEN NoLoop ELSE
    CASE o.what = "place" ->
             [loop EXCEPT !.pos = IF p <= q THEN q + 1 ELSE q,
                          !.valid = @ /\ ~(kind = "vector" /\ (grows \/ p <= q)),
                          !.moved = @ \/ p <= q]
      [] o.what = "drop" ->
             [loop EXCEPT !.pos = IF p < q THEN q - 1 ELSE q,
                          !.valid = @ /\ IF kind = "vector" THEN p > q ELSE p # q,
                          !.moved = @ \/ p < q]
      [] OTHER -> loop

\* A script that keeps to what is defined does not add to a vector while it
\* goes over it, nor erases the item that comes next, nor, in a vector, one
\* it has been at.
KeepsIterator(o) ==
    \/ loop = NoLoop
    \/ o.what \notin {"place", "drop"}
    \/ o.what = "place" /\ kind # "vector"
    \/ o.what = "drop" /\ IF kind = "vector" THEN o.place > loop.pos
                                             ELSE o.place # loop.pos

Perform(op, k, v, o) ==
    /\ owner = "held" /\ ~undefined
    /\ KeepsIterator(o) \/ "break_loop" \in Uses
    /\ o.what = "place" => Len(items) < MaxSize
    /\ items' = ItemsAfter(o)
    /\ \E grows \in BOOLEAN : loop' = LoopAfter(o, grows)
    /\ undefined' = (o.what = "broken")
    /\ Call(op, k, v, o.ok)
    /\ UNCHANGED <<kind, owner>>

-----------------------------------------------------------------------------
(* Calls. *)

\* What a call does to the container stays defined only if its arguments are
\* places there are; nothing in the code sees to it.
Within(k, last) == ~Linear \/ k \in 1 .. last \/ "out_of_range" \in Uses

Set(k, v) ==
    /\ kind \in {"list", "forward_list"} => k > 0 \/ "set_below" \in Uses
    /\ kind = "forward_list" /\ items = <<>> /\ k = 1 => "empty_forward" \in Uses
    /\ Perform("set", k, v, set_start(k, v))

\* c:erase(k), and c[k] = nil except for an array, whose set() knows no nil.
Erase(k) ==
    /\ Within(k, Len(items))
    /\ Perform("erase", k, Nil, erase_start(k))

Insert(k, v) ==
    /\ Within(k, Len(items) + 1)
    /\ kind = "map" => k = v \/ "map_insert" \in Uses
    /\ Perform("insert", k, v, insert_copyable(k, v))

Add(k, v) == Perform("add", k, v, add_copyable(k, v))

\* clear() leaves a node based container's end() alone, nothing else.
Clear ==
    /\ owner = "held" /\ ~undefined
    /\ loop = NoLoop \/ "break_loop" \in Uses
    /\ IF kind = "array" THEN Call("other", 0, Nil, FALSE) /\ UNCHANGED <<items, loop>>
       ELSE /\ items' = <<>>
            /\ loop' = IF loop = NoLoop THEN NoLoop
                       ELSE [loop EXCEPT !.pos = 1, !.moved = TRUE,
                                         !.valid = /\ @ /\ kind # "vector"
                                                   /\ loop.pos = Len(items) + 1]
            /\ Call("clear", 0, Nil, TRUE)
    /\ UNCHANGED <<kind, owner, undefined>>

-----------------------------------------------------------------------------
(* Traversals.  For a map pairs hands out keys and ipairs a count of its     *)
(* own; for the other kinds both add one to the control variable.            *)

\* pairs(c), ipairs(c).
Begin(counts) ==
    /\ owner = "held" /\ ~undefined /\ loop = NoLoop
    /\ loop' = [pos |-> 1, valid |-> TRUE, control |-> 0, counts |-> counts,
                moved |-> FALSE]
    /\ items' = Marked(items, "due")
    /\ Call("other", 0, Nil, TRUE)
    /\ UNCHANGED <<kind, owner, undefined>>

\* Mutant: the iterator stays on the item handed out until the next call.
HandOut_late(q) == [item |-> q, pos |-> q]

\* What is handed out, and where the iterator is then.
HandOut(q) == [item |-> q, pos |-> q + 1]

\* Mutant: the control variable is handed out as it is.
KeyOf_control(x) == IF kind = "map" /\ ~loop.counts THEN x.key ELSE loop.control

KeyOf(x) == IF kind = "map" /\ ~loop.counts THEN x.key ELSE loop.control + 1

\* next_iter.  After nil the for statement lets go of the iterator.
Next_iter ==
    /\ loop # NoLoop /\ ~undefined
    /\ IF owner = "collected" \/ ~loop.valid
       THEN /\ undefined' = TRUE
            /\ Call("other", 0, Nil, TRUE)
            /\ UNCHANGED <<items, loop>>
       ELSE /\ UNCHANGED undefined
            /\ IF loop.pos = Len(items) + 1
               THEN /\ loop' = NoLoop
                    /\ items' = Marked(items, "new")
                    /\ Call("other", 0, Nil, TRUE)
               ELSE LET out == HandOut(loop.pos)  x == items[out.item] IN
                    /\ KeyOf(x) <= MaxGiven
                    /\ loop' = [loop EXCEPT !.pos = out.pos, !.control = KeyOf(x)]
                    /\ items' = [items EXCEPT ![out.item].mark = "given"]
                    /\ Call("next", KeyOf(x), x.value, TRUE)
    /\ UNCHANGED <<kind, owner>>

\* break
Break ==
    /\ loop # NoLoop /\ ~undefined
    /\ loop' = NoLoop /\ items' = Marked(items, "new")
    /\ Call("other", 0, Nil, TRUE)
    /\ UNCHANGED <<kind, owner, undefined>>

-----------------------------------------------------------------------------
(* The userdata: a traversal refers to the container and does not hold it.   *)

LetGo ==
    /\ owner = "held" /\ ~undefined
    /\ loop = NoLoop \/ "drop" \in Uses
    /\ owner' = "dropped"
    /\ Call("other", 0, Nil, TRUE)
    /\ UNCHANGED <<kind, items, loop, undefined>>

Collect ==
    /\ owner = "dropped" /\ ~undefined
    /\ owner' = "collected"
    /\ Call("other", 0, Nil, TRUE)
    /\ UNCHANGED <<kind, items, loop, undefined>>

Next ==
    \/ \E k \in 0 .. MaxSize + 2, v \in Values :
          /\ ~Linear => k \in Keys
          /\ Set(k, v) \/ Insert(k, v)
             \/ Add(CASE Linear -> 0 [] kind = "set" -> v [] OTHER -> k, v)
    \/ \E k \in 0 .. MaxSize + 2 : (~Linear => k \in Keys) /\ Erase(k)
    \/ Clear
    \/ \E counts \in BOOLEAN : Begin(counts)
    \/ Next_iter \/ Break
    \/ LetGo \/ Collect

Spec == Init /\ [][Next]_vars

-----------------------------------------------------------------------------
(* Properties. *)

\* The items have the types of their kind, and those of a tree are in the
\* order of their keys, each key once.
TypeOK ==
    /\ kind \in Kinds
    /\ items \in Seq(Item) /\ Len(items) <= MaxSize
    /\ \A i, j \in DOMAIN items :
          IF Linear THEN items[i].key = 0 ELSE i < j => items[i].key < items[j].key
    /\ loop = NoLoop \/ loop.pos \in 1 .. Len(items) + 1
    /\ owner \in {"held", "dropped", "collected"}
    /\ undefined \in BOOLEAN

\* As long as the script names places there are and leaves the item alone
\* that comes next, no call uses an iterator past the end or one that C++ no
\* longer guarantees.  (The types of the state are part of it.)
NothingUndefined == TypeOK /\ ~undefined

\* A traversal hands out what was there when it began and was not erased,
\* each item once, whatever is added or erased meanwhile.
EachItemOnce ==
    loop # NoLoop =>
        \A i \in DOMAIN items :
            IF i < loop.pos THEN items[i].mark # "due" ELSE items[i].mark # "given"

\* What a script was told reads back: c[k] is v for what a traversal hands
\* out as k, v, if nothing moved up to there (of a set the script gets a
\* count for a key, and so it does from ipairs of a map), and at() finds
\* where index_of() says it is what the script was looking for.
KeysReadBack ==
    /\ called.op = "next" /\ loop # NoLoop /\ kind # "set" =>
          (kind = "map" /\ loop.counts) \/ loop.moved \/ get(called.key) = called.value
    /\ \A x \in Values \cup Keys :
          index_of(x) # Nil =>
              /\ at(index_of(x)) = IF kind = "map" THEN get(x) ELSE x
              /\ index_of(x) \in 1 .. Len(items)

Contents(s) == [i \in DOMAIN s |-> s[i].value]
Mapping(s) == [k \in {s[i].key : i \in DOMAIN s} |->
                  (CHOOSE x \in ToSet(s) : x.key = k).value]

\* All linear containers do what a Lua list does with the same calls: c[k]
\* replaces the k-th value or, one after the last, adds one; insert puts a
\* value before the k-th, erase removes it; a call that fails does nothing.
LikeAList ==
    LET old == Contents(items)  new == Contents(items')
        k == called'.key  v == called'.value
    IN CASE called'.op = "set" /\ called'.ok ->
                new = IF k \in DOMAIN old THEN [old EXCEPT ![k] = v]
                      ELSE Append(old, v)
         [] called'.op = "add" /\ called'.ok    -> new = Append(old, v)
         [] called'.op = "insert" /\ called'.ok -> new = InsertAt(old, k, v)
         [] called'.op = "erase" /\ called'.ok  -> new = RemoveAt(old, k)
         [] called'.op = "clear" -> new = <<>>
         [] OTHER -> new = old

\* A map and a set do what a Lua table does with them, but that add() and
\* insert() leave what is there alone, and a set refuses to set a member.
LikeATable ==
    LET old == Mapping(items)  new == Mapping(items')
        k == IF kind = "set" /\ called'.op = "insert" THEN called'.value ELSE called'.key
        v == IF kind = "set" THEN k ELSE called'.value
        With(m) == [x \in DOMAIN m \cup {k} |-> IF x = k THEN v ELSE m[x]]
    IN CASE called'.op = "set" /\ called'.ok -> new = With(old)
         [] called'.op \in {"add", "insert"} ->
                new = IF k \in DOMAIN old THEN old ELSE With(old)
         [] called'.op = "erase" -> new = [x \in DOMAIN old \ {k} |-> old[x]]
         [] called'.op = "clear" -> new = <<>>
         [] OTHER -> new = old

\* Whatever overloads the type of a container selects, scripts see one list
\* or one table.
CallsLikeLua == [][IF Linear THEN LikeAList ELSE LikeATable]_vars
=============================================================================

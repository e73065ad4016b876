---------------------------- MODULE ContainersProof ----------------------------
(***************************************************************************)
(* What Containers promises for containers and values of any number, and   *)
(* traversals of any length.                                               *)
(***************************************************************************)
EXTENDS Containers, SequenceTheorems, FiniteSetTheorems, WellFoundedInduction, TLAPS

-----------------------------------------------------------------------------
(* The inductive invariant.                                                *)

\* A traversal that is on.
Traversal == [pos : Nat, valid : BOOLEAN, control : Nat, counts : BOOLEAN, moved : BOOLEAN]

LoopSound == loop = NoLoop \/ loop \in Traversal

\* The members of a set are keys and values in one.
MembersSound == kind = "set" => \A i \in DOMAIN items : items[i].key = items[i].value

\* A traversal of a map hands out the keys.
HandsKeys == kind = "map" /\ ~loop.counts

\* A count of the items handed out is the place of the last of them, if
\* nothing moved in the part of the container behind the traversal.
CountSound == loop # NoLoop => loop.moved \/ HandsKeys \/ loop.control = loop.pos - 1

IInv == TypeOK /\ LoopSound /\ MembersSound /\ EachItemOnce /\ CountSound

\* What keeps C++ defined, as long as the script keeps to what is.
Guarded == loop # NoLoop => loop.valid /\ owner = "held"

KeepsToDefined == Uses \cap {"out_of_range", "empty_forward", "break_loop", "drop"} = {}

-----------------------------------------------------------------------------
(* Sequences.                                                              *)

LEMMA PrefixFacts ==
    ASSUME NEW S, NEW s \in Seq(S), NEW m \in Int, m <= Len(s)
    PROVE  /\ SubSeq(s, 1, m) \in Seq(S)
           /\ Len(SubSeq(s, 1, m)) = IF m > 0 THEN m ELSE 0
           /\ \A i \in 1 .. m : SubSeq(s, 1, m)[i] = s[i]
<1> DEFINE t == SubSeq(s, 1, m)
<1>1. Len(s) \in Nat /\ \A i \in 1 .. Len(s) : s[i] \in S
  BY LenProperties
<1>2. 1 \in Int /\ \A i \in 1 .. m : s[i] \in S
  BY <1>1
<1>3. /\ t \in Seq(S)
      /\ Len(t) = IF 1 <= m THEN m - 1 + 1 ELSE 0
      /\ \A i \in 1 .. m - 1 + 1 : t[i] = s[1 + i - 1]
  BY <1>2, SubSeqProperties
<1> HIDE DEF t
<1>4. Len(t) = IF m > 0 THEN m ELSE 0
  BY <1>3
<1>5. ASSUME NEW i \in 1 .. m PROVE t[i] = s[i]
  <2>1. i \in 1 .. m - 1 + 1 /\ 1 + i - 1 = i
    OBVIOUS
  <2> QED BY <2>1, <1>3
<1> QED BY <1>3, <1>4, <1>5 DEF t

LEMMA SuffixFacts ==
    ASSUME NEW S, NEW s \in Seq(S), NEW m \in 1 .. Len(s) + 1
    PROVE  /\ SubSeq(s, m, Len(s)) \in Seq(S)
           /\ Len(SubSeq(s, m, Len(s))) = Len(s) - m + 1
           /\ \A i \in 1 .. Len(s) - m + 1 : SubSeq(s, m, Len(s))[i] = s[m + i - 1]
<1> DEFINE n == Len(s)
<1>1. n \in Nat /\ m \in 1 .. n + 1 /\ \A i \in 1 .. n : s[i] \in S
  BY LenProperties
<1> HIDE DEF n
<1>2. \A i \in m .. n : s[i] \in S
  BY <1>1
<1>3. /\ SubSeq(s, m, n) \in Seq(S)
      /\ Len(SubSeq(s, m, n)) = IF m <= n THEN n - m + 1 ELSE 0
      /\ \A i \in 1 .. n - m + 1 : SubSeq(s, m, n)[i] = s[m + i - 1]
  BY <1>1, <1>2, SubSeqProperties
<1>4. Len(SubSeq(s, m, n)) = n - m + 1
  BY <1>1, <1>3
<1> QED BY <1>3, <1>4 DEF n

\* An item put before place p.
Inserted(t, s, p, x) ==
    /\ Len(t) = Len(s) + 1
    /\ \A i \in 1 .. Len(s) + 1 : t[i] = IF i < p THEN s[i] ELSE IF i = p THEN x ELSE s[i - 1]

LEMMA InsertFacts ==
    ASSUME NEW S, NEW s \in Seq(S), NEW p \in 1 .. Len(s) + 1, NEW x \in S
    PROVE  InsertAt(s, p, x) \in Seq(S) /\ Inserted(InsertAt(s, p, x), s, p, x)
<1> DEFINE a == SubSeq(s, 1, p - 1)
           b == SubSeq(s, p, Len(s))
           n == Len(s)
<1>1. n \in Nat /\ p - 1 \in Int /\ p - 1 <= n
  BY LenProperties
<1>2. /\ a \in Seq(S) /\ Len(a) = p - 1 /\ \A i \in 1 .. p - 1 : a[i] = s[i]
  <2>1. /\ a \in Seq(S) /\ Len(a) = IF p - 1 > 0 THEN p - 1 ELSE 0
        /\ \A i \in 1 .. p - 1 : a[i] = s[i]
    BY <1>1, PrefixFacts
  <2> HIDE DEF a
  <2> QED BY <2>1
<1>3. /\ b \in Seq(S) /\ Len(b) = n - p + 1
      /\ \A i \in 1 .. n - p + 1 : b[i] = s[p + i - 1]
  BY SuffixFacts
<1>4. InsertAt(s, p, x) = a \o <<x>> \o b
  BY DEF InsertAt
<1> HIDE DEF a, b
<1> DEFINE c == a \o <<x>>
<1>5. /\ c \in Seq(S) /\ Len(c) = p
      /\ \A i \in 1 .. p : c[i] = IF i <= p - 1 THEN a[i] ELSE x
  <2>1. <<x>> \in Seq(S) /\ Len(<<x>>) = 1 /\ <<x>>[1] = x
    OBVIOUS
  <2>2. /\ a \o <<x>> \in Seq(S) /\ Len(a \o <<x>>) = Len(a) + Len(<<x>>)
        /\ \A i \in 1 .. Len(a) + Len(<<x>>) :
              (a \o <<x>>)[i] = IF i <= Len(a) THEN a[i] ELSE <<x>>[i - Len(a)]
    BY <1>2, <2>1, ConcatProperties
  <2> QED BY <1>2, <2>1, <2>2
<1> HIDE DEF c
<1>6. /\ c \o b \in Seq(S) /\ Len(c \o b) = Len(c) + Len(b)
      /\ \A i \in 1 .. Len(c) + Len(b) : (c \o b)[i] = IF i <= Len(c) THEN c[i] ELSE b[i - Len(c)]
  BY <1>3, <1>5, ConcatProperties
<1>8. Len(c) + Len(b) = n + 1
  BY <1>1, <1>3, <1>5
<1>7. ASSUME NEW i \in 1 .. n + 1
      PROVE  (c \o b)[i] = IF i < p THEN s[i] ELSE IF i = p THEN x ELSE s[i - 1]
  <2>1. ASSUME i <= p
        PROVE  (c \o b)[i] = IF i < p THEN s[i] ELSE x
    <3>1. (c \o b)[i] = c[i]
      BY <2>1, <1>5, <1>6, <1>8
    <3>2. c[i] = IF i <= p - 1 THEN a[i] ELSE x
      BY <2>1, <1>1, <1>5
    <3>3. i <= p - 1 <=> i < p
      BY <1>1
    <3> QED BY <3>1, <3>2, <3>3, <1>2
  <2>2. ASSUME i > p
        PROVE  (c \o b)[i] = s[i - 1]
    <3>1. (c \o b)[i] = b[i - p]
      BY <2>2, <1>1, <1>5, <1>6, <1>8
    <3>2. i - p \in 1 .. n - p + 1 /\ p + (i - p) - 1 = i - 1
      BY <2>2, <1>1
    <3> QED BY <3>1, <3>2, <1>3
  <2>3. i > p <=> ~(i <= p)
    BY <1>1
  <2>4. i > p => ~(i < p) /\ i # p
    BY <1>1
  <2>5. i <= p /\ ~(i < p) => i = p
    BY <1>1
  <2> QED BY <2>1, <2>2, <2>3, <2>4, <2>5
<1> QED BY <1>4, <1>6, <1>7, <1>8 DEF c, Inserted

\* The item at place p taken out.
LEMMA RemoveFacts ==
    ASSUME NEW S, NEW s \in Seq(S), NEW p \in 1 .. Len(s)
    PROVE  /\ RemoveAt(s, p) \in Seq(S)
           /\ Len(RemoveAt(s, p)) = Len(s) - 1
           /\ \A i \in 1 .. Len(s) - 1 : RemoveAt(s, p)[i] = IF i < p THEN s[i] ELSE s[i + 1]
<1> DEFINE a == SubSeq(s, 1, p - 1)
           b == SubSeq(s, p + 1, Len(s))
           n == Len(s)
<1>1. n \in Nat /\ p - 1 \in Int /\ p - 1 <= n /\ p + 1 \in 1 .. n + 1
  BY LenProperties
<1>2. /\ a \in Seq(S) /\ Len(a) = p - 1 /\ \A i \in 1 .. p - 1 : a[i] = s[i]
  <2>1. /\ a \in Seq(S) /\ Len(a) = IF p - 1 > 0 THEN p - 1 ELSE 0
        /\ \A i \in 1 .. p - 1 : a[i] = s[i]
    BY <1>1, PrefixFacts
  <2> HIDE DEF a
  <2> QED BY <2>1
<1>3. /\ b \in Seq(S) /\ Len(b) = n - (p + 1) + 1
      /\ \A i \in 1 .. n - (p + 1) + 1 : b[i] = s[p + 1 + i - 1]
  BY <1>1, SuffixFacts
<1>4. RemoveAt(s, p) = a \o b
  BY DEF RemoveAt
<1> HIDE DEF a, b
<1>5. /\ a \o b \in Seq(S) /\ Len(a \o b) = Len(a) + Len(b)
      /\ \A i \in 1 .. Len(a) + Len(b) : (a \o b)[i] = IF i <= Len(a) THEN a[i] ELSE b[i - Len(a)]
  BY <1>2, <1>3, ConcatProperties
<1>6. Len(a) + Len(b) = n - 1
  BY <1>1, <1>2, <1>3
<1>7. ASSUME NEW i \in 1 .. n - 1
      PROVE  (a \o b)[i] = IF i < p THEN s[i] ELSE s[i + 1]
  <2>1. CASE i < p
    BY <2>1, <1>1, <1>2, <1>5, <1>6
  <2>2. CASE ~(i < p)
    <3>1. (a \o b)[i] = b[i - (p - 1)]
      BY <2>2, <1>1, <1>2, <1>5, <1>6
    <3>2. i - (p - 1) \in 1 .. n - (p + 1) + 1 /\ p + 1 + (i - (p - 1)) - 1 = i + 1
      BY <2>2, <1>1
    <3> QED BY <2>2, <3>1, <3>2, <1>3
  <2> QED BY <2>1, <2>2
<1> QED BY <1>4, <1>5, <1>6, <1>7

-----------------------------------------------------------------------------
(* Searching.                                                              *)

\* The least number of a set is one of them.
LEMMA LeastFacts ==
    ASSUME NEW S, S \subseteq Nat, S # {}
    PROVE  Min(S) \in S /\ \A j \in S : Min(S) <= j
<1> DEFINE R == {p \in Nat \X Nat : p[1] < p[2]}
<1>1. IsWellFoundedOn(OpToRel(<, Nat), Nat)
  BY NatLessThanWellFounded
<1>2. OpToRel(<, Nat) = R
  BY DEF OpToRel
<1>3. IsWellFoundedOn(R, Nat)
  BY <1>1, <1>2
<1> HIDE DEF R
<1>4. PICK i \in S : \A j \in S : ~ (<<j, i>> \in R)
  BY <1>3, WFMin
<1>5. \A j \in S : i <= j
  <2> SUFFICES ASSUME NEW j \in S PROVE i <= j
    OBVIOUS
  <2>1. ~ (<<j, i>> \in R) /\ j \in Nat /\ i \in Nat
    BY <1>4
  <2>2. <<j, i>> \in Nat \X Nat /\ <<j, i>>[1] = j /\ <<j, i>>[2] = i
    BY <2>1
  <2>3. ~ (j < i)
    BY <2>1, <2>2 DEF R
  <2> QED BY <2>1, <2>3
<1> QED BY <1>4, <1>5 DEF Min

\* find(key).
LEMMA PositionFacts ==
    ASSUME NEW k, Len(items) \in Nat
    PROVE  /\ Position(k) \in 0 .. Len(items)
           /\ Position(k) # 0 => items[Position(k)].key = k
           /\ Position(k) = 0 => \A i \in 1 .. Len(items) : items[i].key # k
<1> DEFINE I == {i \in 1 .. Len(items) : items[i].key = k}
<1>1. Position(k) = IF I # {} THEN Min(I) ELSE 0
  BY DEF Position, SelectInSeq
<1>2. I # {} => Min(I) \in I
  <2>1. I \subseteq Nat
    OBVIOUS
  <2> HIDE DEF I
  <2> QED BY <2>1, LeastFacts
<1>3. CASE I = {}
  BY <1>1, <1>3
<1>4. CASE I # {}
  <2>1. Position(k) \in I
    BY <1>1, <1>2, <1>4
  <2> HIDE DEF Position
  <2> QED BY <2>1
<1> QED BY <1>3, <1>4

-----------------------------------------------------------------------------
(* What a call may ask for.                                                *)

\* x before place p leaves the keys in order.
InOrder(x, p) ==
    IF Linear THEN x.key = 0
    ELSE \A i \in DOMAIN items : IF i < p THEN items[i].key < x.key ELSE x.key < items[i].key

Places(o) ==
    /\ o.what = "place" /\ o.place \in 1 .. Len(items) + 1
    /\ o.item \in Item /\ o.item.mark = "new" /\ InOrder(o.item, o.place)
    /\ kind = "set" => o.item.key = o.item.value

Writes(o) ==
    /\ o.what = "write" /\ o.place \in 1 .. Len(items)
    /\ o.item.value \in Values /\ kind # "set"

Drops(o) == o.what = "drop" /\ o.place \in 1 .. Len(items)

Proper(o) == o.what \in {"nothing", "broken"} \/ Places(o) \/ Writes(o) \/ Drops(o)

\* The state of the items, said with their number.
LEMMA ItemsFacts ==
    ASSUME TypeOK
    PROVE  /\ Len(items) \in Nat /\ DOMAIN items = 1 .. Len(items)
           /\ \A i \in 1 .. Len(items) :
                 /\ items[i] \in Item /\ items[i].value \in Values \cup Keys
                 /\ items[i].key \in Nat /\ items[i].value \in Nat \ {0}
                 /\ items[i].mark \in {"new", "due", "given"}
<1>1. items \in Seq(Item)
  BY DEF TypeOK
<1>2. Len(items) \in Nat /\ DOMAIN items = 1 .. Len(items) /\ \A i \in 1 .. Len(items) : items[i] \in Item
  BY <1>1, LenProperties
<1>3. Values \cup Keys \subseteq Nat \ {0} /\ Keys \cup Values \cup {0} \subseteq Nat
  BY ContainersAssumption DEF Keys
<1>4. \A x \in Item : /\ x.value \in Values \cup Keys /\ x.key \in Nat /\ x.value \in Nat \ {0}
                      /\ x.mark \in {"new", "due", "given"}
  BY <1>3 DEF Item
<1> QED BY <1>2, <1>4

\* The traversal's fields.
LEMMA LoopFacts ==
    ASSUME TypeOK, LoopSound, loop # NoLoop
    PROVE  /\ loop \in Traversal /\ loop.pos \in 1 .. Len(items) + 1
           /\ loop.pos \in Nat /\ loop.control \in Nat
           /\ loop.valid \in BOOLEAN /\ loop.moved \in BOOLEAN /\ loop.counts \in BOOLEAN
BY DEF TypeOK, LoopSound, Traversal

\* What is no place is a traversal that is on.
LEMMA OnFacts ==
    ASSUME NEW l \in Traversal, l.pos # 0
    PROVE  l # NoLoop
BY DEF NoLoop

\* Adding an item.
LEMMA PlaceSound ==
    ASSUME IInv, NEW o, Places(o), Len(items) < MaxSize, NEW grows \in BOOLEAN,
           items' = ItemsAfter(o), loop' = LoopAfter(o, grows),
           kind' = kind, owner' = owner, undefined' \in BOOLEAN
    PROVE  IInv'
<1> DEFINE n == Len(items)
           p == o.place
           q == loop.pos
<1>1. TypeOK /\ LoopSound /\ MembersSound /\ EachItemOnce /\ CountSound
  BY DEF IInv
<1>2. /\ n \in Nat /\ DOMAIN items = 1 .. n /\ items \in Seq(Item)
      /\ \A i \in 1 .. n : items[i].key \in Nat
  BY <1>1, ItemsFacts DEF TypeOK
<1>3. /\ o.what = "place" /\ p \in 1 .. n + 1
      /\ o.item \in Item /\ o.item.mark = "new" /\ InOrder(o.item, p)
      /\ kind = "set" => o.item.key = o.item.value
  BY DEF Places
<1>4. items' = InsertAt(items, p, o.item)
  BY <1>3 DEF ItemsAfter
<1>5. /\ items' \in Seq(Item) /\ Len(items') = n + 1 /\ DOMAIN items' = 1 .. n + 1
      /\ \A i \in 1 .. n + 1 :
            items'[i] = IF i < p THEN items[i] ELSE IF i = p THEN o.item ELSE items[i - 1]
  <2>1. /\ items' \in Seq(Item) /\ Len(items') = n + 1
        /\ \A i \in 1 .. n + 1 :
              items'[i] = IF i < p THEN items[i] ELSE IF i = p THEN o.item ELSE items[i - 1]
    <3>1. /\ InsertAt(items, p, o.item) \in Seq(Item) /\ Len(InsertAt(items, p, o.item)) = n + 1
          /\ \A i \in 1 .. n + 1 :
                InsertAt(items, p, o.item)[i] =
                    IF i < p THEN items[i] ELSE IF i = p THEN o.item ELSE items[i - 1]
      <4>1. InsertAt(items, p, o.item) \in Seq(Item) /\ Inserted(InsertAt(items, p, o.item), items, p, o.item)
        BY <1>2, <1>3, InsertFacts
      <4> HIDE DEF n, p
      <4> QED BY <4>1 DEF Inserted, n
    <3> QED BY <3>1, <1>4
  <2>2. DOMAIN items' = 1 .. n + 1
    BY <2>1, LenProperties
  <2> QED BY <2>1, <2>2
<1>6. loop = NoLoop => loop' = NoLoop
  BY DEF LoopAfter
<1>7. ASSUME loop # NoLoop
      PROVE  /\ loop' \in Traversal /\ loop' # NoLoop
             /\ loop'.pos = (IF p <= q THEN q + 1 ELSE q)
             /\ loop'.moved = (loop.moved \/ p <= q)
             /\ loop'.control = loop.control /\ loop'.counts = loop.counts
             /\ q \in 1 .. n + 1
  <2>1. /\ loop \in Traversal /\ q \in 1 .. n + 1 /\ q \in Nat
        /\ loop.valid \in BOOLEAN /\ loop.moved \in BOOLEAN
    BY <1>1, <1>7, LoopFacts
  <2>2. loop' = [loop EXCEPT !.pos = IF p <= q THEN q + 1 ELSE q,
                             !.valid = @ /\ ~(kind = "vector" /\ (grows \/ p <= q)),
                             !.moved = @ \/ p <= q]
    BY <1>3, <1>7 DEF LoopAfter
  <2>3. /\ (IF p <= q THEN q + 1 ELSE q) \in Nat \ {0}
        /\ (loop.valid /\ ~(kind = "vector" /\ (grows \/ p <= q))) \in BOOLEAN
        /\ (loop.moved \/ p <= q) \in BOOLEAN
    BY <1>2, <1>3, <2>1
  <2>4. /\ loop' \in Traversal
        /\ loop'.pos = (IF p <= q THEN q + 1 ELSE q)
        /\ loop'.moved = (loop.moved \/ p <= q)
        /\ loop'.control = loop.control /\ loop'.counts = loop.counts
    BY <2>1, <2>2, <2>3 DEF Traversal
  <2>5. loop' # NoLoop
    BY <2>3, <2>4, OnFacts
  <2> QED BY <2>1, <2>4, <2>5
<1> HIDE DEF n, p, q
<1>8. LoopSound'
  BY <1>1, <1>6, <1>7 DEF LoopSound
<1>9. \A i, j \in 1 .. n + 1 :
         IF Linear THEN items'[i].key = 0 ELSE i < j => items'[i].key < items'[j].key
  <2>1. \A i, j \in 1 .. n : IF Linear THEN items[i].key = 0 ELSE i < j => items[i].key < items[j].key
    BY <1>1, <1>2 DEF TypeOK
  <2>2. CASE Linear
    <3>1. o.item.key = 0
      BY <1>3, <2>2 DEF InOrder
    <3>2. ASSUME NEW i \in 1 .. n + 1 PROVE items'[i].key = 0
      <4>1. i < p => i \in 1 .. n
        BY <1>2, <1>3
      <4>2. ~(i < p) /\ i # p => i - 1 \in 1 .. n
        BY <1>2, <1>3
      <4> QED BY <4>1, <4>2, <3>1, <2>1, <2>2, <1>5
    <3> QED BY <3>2, <2>2
  <2>3. CASE ~Linear
    <3>1. \A i \in 1 .. n : IF i < p THEN items[i].key < o.item.key ELSE o.item.key < items[i].key
      BY <1>2, <1>3, <2>3 DEF InOrder
    <3>2. SUFFICES ASSUME NEW i \in 1 .. n + 1, NEW j \in 1 .. n + 1, i < j
                   PROVE  items'[i].key < items'[j].key
      BY <2>3
    <3>3. CASE j < p
      <4>1. i < p /\ i \in 1 .. n /\ j \in 1 .. n
        BY <3>2, <3>3, <1>2, <1>3
      <4> QED BY <4>1, <3>2, <3>3, <2>1, <2>3, <1>5
    <3>4. CASE j = p
      <4>1. i < p /\ i \in 1 .. n /\ ~(j < p)
        BY <3>2, <3>4, <1>2, <1>3
      <4> QED BY <4>1, <3>1, <3>4, <1>5
    <3>5. CASE j > p /\ i < p
      <4>1. i \in 1 .. n /\ j - 1 \in 1 .. n /\ i < j - 1 /\ ~(j < p) /\ j # p
        BY <3>2, <3>5, <1>2, <1>3
      <4> QED BY <4>1, <3>5, <2>1, <2>3, <1>5
    <3>6. CASE j > p /\ i = p
      <4>1. j - 1 \in 1 .. n /\ ~(j - 1 < p) /\ ~(j < p) /\ j # p /\ ~(i < p)
        BY <3>2, <3>6, <1>2, <1>3
      <4> QED BY <4>1, <3>6, <3>1, <1>5
    <3>7. CASE j > p /\ i > p
      <4>1. /\ i - 1 \in 1 .. n /\ j - 1 \in 1 .. n /\ i - 1 < j - 1
            /\ ~(j < p) /\ j # p /\ ~(i < p) /\ i # p
        BY <3>2, <3>7, <1>2, <1>3
      <4> QED BY <4>1, <2>1, <2>3, <1>5
    <3>8. j < p \/ j = p \/ (j > p /\ i < p) \/ (j > p /\ i = p) \/ (j > p /\ i > p)
      BY <1>3
    <3> QED BY <3>3, <3>4, <3>5, <3>6, <3>7, <3>8
  <2> QED BY <2>2, <2>3
<1>10. loop' = NoLoop \/ loop'.pos \in 1 .. Len(items') + 1
  <2>1. CASE loop # NoLoop
    BY <2>1, <1>2, <1>3, <1>5, <1>7
  <2> QED BY <2>1, <1>6
<1>11. TypeOK'
  <2>1. Len(items') <= MaxSize
    BY <1>2, <1>5, ContainersAssumption DEF n
  <2>2. Linear' = Linear
    BY DEF Linear
  <2> QED BY <1>1, <1>5, <1>9, <1>10, <2>1, <2>2 DEF TypeOK
<1>12. MembersSound'
  <2>1. ASSUME kind = "set", NEW i \in 1 .. n + 1
        PROVE  items'[i].key = items'[i].value
    <3>1. \A j \in 1 .. n : items[j].key = items[j].value
      BY <1>1, <1>2, <2>1 DEF MembersSound
    <3>2. i < p => i \in 1 .. n
      BY <1>2, <1>3
    <3>3. ~(i < p) /\ i # p => i - 1 \in 1 .. n
      BY <1>2, <1>3
    <3> QED BY <3>1, <3>2, <3>3, <2>1, <1>3, <1>5
  <2> QED BY <2>1, <1>5 DEF MembersSound
<1>13. EachItemOnce'
  <2>1. SUFFICES ASSUME loop # NoLoop, NEW i \in 1 .. n + 1
                 PROVE  IF i < loop'.pos THEN items'[i].mark # "due" ELSE items'[i].mark # "given"
    BY <1>5, <1>6 DEF EachItemOnce
  <2>2. \A j \in 1 .. n : IF j < q THEN items[j].mark # "due" ELSE items[j].mark # "given"
    BY <1>1, <1>2, <2>1 DEF EachItemOnce, q
  <2>3. q \in 1 .. n + 1 /\ loop'.pos = (IF p <= q THEN q + 1 ELSE q)
    BY <1>7, <2>1
  <2>4. CASE i < p
    <3>1. i \in 1 .. n /\ items'[i] = items[i] /\ (i < q <=> i < loop'.pos)
      BY <2>3, <2>4, <1>2, <1>3, <1>5
    <3> QED BY <3>1, <2>2
  <2>5. CASE i = p
    <3>1. items'[i] = o.item
      BY <2>5, <1>5, <1>3
    <3> QED BY <3>1, <1>3
  <2>6. CASE i > p
    <3>1. i - 1 \in 1 .. n /\ items'[i] = items[i - 1] /\ (i - 1 < q <=> i < loop'.pos)
      BY <2>3, <2>6, <1>2, <1>3, <1>5
    <3> QED BY <3>1, <2>2
  <2>7. i < p \/ i = p \/ i > p
    BY <1>3
  <2> QED BY <2>4, <2>5, <2>6, <2>7
<1>14. CountSound'
  <2>1. SUFFICES ASSUME loop # NoLoop
                 PROVE  loop'.moved \/ HandsKeys' \/ loop'.control = loop'.pos - 1
    BY <1>6 DEF CountSound
  <2>2. loop.moved \/ HandsKeys \/ loop.control = q - 1
    BY <1>1, <2>1 DEF CountSound, q
  <2>3. HandsKeys' = HandsKeys
    BY <1>7, <2>1 DEF HandsKeys
  <2> QED BY <2>1, <2>2, <2>3, <1>7
<1> QED BY <1>8, <1>11, <1>12, <1>13, <1>14 DEF IInv

\* Taking one out.
LEMMA DropSound ==
    ASSUME IInv, NEW o, Drops(o), NEW grows \in BOOLEAN,
           items' = ItemsAfter(o), loop' = LoopAfter(o, grows),
           kind' = kind, owner' = owner, undefined' \in BOOLEAN
    PROVE  IInv'
<1> DEFINE n == Len(items)
           p == o.place
           q == loop.pos
<1>1. TypeOK /\ LoopSound /\ MembersSound /\ EachItemOnce /\ CountSound
  BY DEF IInv
<1>2. /\ n \in Nat /\ DOMAIN items = 1 .. n /\ items \in Seq(Item)
      /\ \A i \in 1 .. n : items[i].key \in Nat
  BY <1>1, ItemsFacts DEF TypeOK
<1>3. o.what = "drop" /\ p \in 1 .. n
  BY DEF Drops
<1>4. items' = RemoveAt(items, p)
  BY <1>3 DEF ItemsAfter
<1>5. /\ items' \in Seq(Item) /\ Len(items') = n - 1 /\ DOMAIN items' = 1 .. n - 1
      /\ \A i \in 1 .. n - 1 : items'[i] = IF i < p THEN items[i] ELSE items[i + 1]
  <2>1. /\ items' \in Seq(Item) /\ Len(items') = n - 1
        /\ \A i \in 1 .. n - 1 : items'[i] = IF i < p THEN items[i] ELSE items[i + 1]
    <3>1. /\ RemoveAt(items, p) \in Seq(Item) /\ Len(RemoveAt(items, p)) = n - 1
          /\ \A i \in 1 .. n - 1 :
                RemoveAt(items, p)[i] = IF i < p THEN items[i] ELSE items[i + 1]
      BY <1>2, <1>3, RemoveFacts
    <3> QED BY <3>1, <1>4
  <2>2. DOMAIN items' = 1 .. n - 1
    BY <2>1, LenProperties
  <2> QED BY <2>1, <2>2
<1>6. loop = NoLoop => loop' = NoLoop
  BY DEF LoopAfter
<1>7. ASSUME loop # NoLoop
      PROVE  /\ loop' \in Traversal /\ loop' # NoLoop
             /\ loop'.pos = (IF p < q THEN q - 1 ELSE q)
             /\ loop'.moved = (loop.moved \/ p < q)
             /\ loop'.control = loop.control /\ loop'.counts = loop.counts
             /\ q \in 1 .. n + 1
  <2>1. /\ loop \in Traversal /\ q \in 1 .. n + 1 /\ q \in Nat
        /\ loop.valid \in BOOLEAN /\ loop.moved \in BOOLEAN
    BY <1>1, <1>7, LoopFacts
  <2>2. loop' = [loop EXCEPT !.pos = IF p < q THEN q - 1 ELSE q,
                             !.valid = @ /\ IF kind = "vector" THEN p > q ELSE p # q,
                             !.moved = @ \/ p < q]
    BY <1>3, <1>7 DEF LoopAfter
  <2>3. /\ (IF p < q THEN q - 1 ELSE q) \in Nat \ {0}
        /\ (loop.valid /\ IF kind = "vector" THEN p > q ELSE p # q) \in BOOLEAN
        /\ (loop.moved \/ p < q) \in BOOLEAN
    BY <1>2, <1>3, <2>1
  <2>4. /\ loop' \in Traversal
        /\ loop'.pos = (IF p < q THEN q - 1 ELSE q)
        /\ loop'.moved = (loop.moved \/ p < q)
        /\ loop'.control = loop.control /\ loop'.counts = loop.counts
    BY <2>1, <2>2, <2>3 DEF Traversal
  <2>5. loop' # NoLoop
    BY <2>3, <2>4, OnFacts
  <2> QED BY <2>1, <2>4, <2>5
<1> HIDE DEF n, p, q
<1>8. LoopSound'
  BY <1>1, <1>6, <1>7 DEF LoopSound
\* Where an item was before.
<1> DEFINE was(i) == IF i < p THEN i ELSE i + 1
<1>a. \A i \in 1 .. n - 1 : was(i) \in 1 .. n /\ items'[i] = items[was(i)]
  BY <1>2, <1>3, <1>5
<1>b. \A i, j \in 1 .. n - 1 : i < j => was(i) < was(j)
  BY <1>2, <1>3
<1>c. \A i \in 1 .. n - 1 : q \in Nat => (was(i) < q <=> i < (IF p < q THEN q - 1 ELSE q))
  BY <1>2, <1>3
<1> HIDE DEF was
<1>9. \A i, j \in 1 .. n - 1 :
         IF Linear THEN items'[i].key = 0 ELSE i < j => items'[i].key < items'[j].key
  <2>1. \A i, j \in 1 .. n : IF Linear THEN items[i].key = 0 ELSE i < j => items[i].key < items[j].key
    BY <1>1, <1>2 DEF TypeOK
  <2> QED BY <2>1, <1>a, <1>b
<1>10. loop' = NoLoop \/ loop'.pos \in 1 .. Len(items') + 1
  <2>1. CASE loop # NoLoop
    BY <2>1, <1>2, <1>3, <1>5, <1>7
  <2> QED BY <2>1, <1>6
<1>11. TypeOK'
  <2>1. Len(items') <= MaxSize
    BY <1>1, <1>2, <1>5, ContainersAssumption DEF n, TypeOK
  <2>2. Linear' = Linear
    BY DEF Linear
  <2> QED BY <1>1, <1>5, <1>9, <1>10, <2>1, <2>2 DEF TypeOK
<1>12. MembersSound'
  <2>1. ASSUME kind = "set" PROVE \A j \in 1 .. n : items[j].key = items[j].value
    BY <1>1, <1>2, <2>1 DEF MembersSound
  <2> QED BY <2>1, <1>a, <1>5 DEF MembersSound
<1>13. EachItemOnce'
  <2>1. SUFFICES ASSUME loop # NoLoop, NEW i \in 1 .. n - 1
                 PROVE  IF i < loop'.pos THEN items'[i].mark # "due" ELSE items'[i].mark # "given"
    BY <1>5, <1>6 DEF EachItemOnce
  <2>2. \A j \in 1 .. n : IF j < q THEN items[j].mark # "due" ELSE items[j].mark # "given"
    BY <1>1, <1>2, <2>1 DEF EachItemOnce, q
  <2>3. q \in Nat /\ loop'.pos = (IF p < q THEN q - 1 ELSE q)
    BY <1>2, <1>7, <2>1
  <2>4. was(i) < q <=> i < loop'.pos
    BY <2>3, <1>c
  <2> QED BY <2>2, <2>4, <1>a
<1>14. CountSound'
  <2>1. SUFFICES ASSUME loop # NoLoop
                 PROVE  loop'.moved \/ HandsKeys' \/ loop'.control = loop'.pos - 1
    BY <1>6 DEF CountSound
  <2>2. loop.moved \/ HandsKeys \/ loop.control = q - 1
    BY <1>1, <2>1 DEF CountSound, q
  <2>3. HandsKeys' = HandsKeys
    BY <1>7, <2>1 DEF HandsKeys
  <2> QED BY <2>1, <2>2, <2>3, <1>7
<1> QED BY <1>8, <1>11, <1>12, <1>13, <1>14 DEF IInv

\* Items that keep their keys and marks, and are members of what they were
\* members of, keep everything.
LEMMA SameItemsSound ==
    ASSUME IInv, items' \in Seq(Item), Len(items') = Len(items),
           \A i \in 1 .. Len(items) :
              /\ items'[i].key = items[i].key /\ items'[i].mark = items[i].mark
              /\ kind = "set" => items'[i].value = items[i].value,
           kind' = kind, loop' = loop,
           owner' \in {"held", "dropped", "collected"}, undefined' \in BOOLEAN
    PROVE  IInv'
<1>1. TypeOK /\ LoopSound /\ MembersSound /\ EachItemOnce /\ CountSound
  BY DEF IInv
<1>2. DOMAIN items = 1 .. Len(items) /\ DOMAIN items' = 1 .. Len(items)
  BY <1>1, LenProperties DEF TypeOK
<1>3. TypeOK'
  <2>1. Linear' = Linear
    BY DEF Linear
  <2> QED BY <1>1, <1>2, <2>1 DEF TypeOK
<1>4. LoopSound' /\ CountSound'
  BY <1>1 DEF LoopSound, CountSound, HandsKeys
<1>5. MembersSound'
  BY <1>1, <1>2 DEF MembersSound
<1>6. EachItemOnce'
  BY <1>1, <1>2 DEF EachItemOnce
<1> QED BY <1>3, <1>4, <1>5, <1>6 DEF IInv

\* Writing a value.
LEMMA WriteFacts ==
    ASSUME IInv, NEW o, Writes(o), items' = ItemsAfter(o)
    PROVE  /\ items' \in Seq(Item) /\ Len(items') = Len(items)
           /\ \A i \in 1 .. Len(items) :
                 /\ items'[i].key = items[i].key /\ items'[i].mark = items[i].mark
                 /\ items'[i].value = IF i = o.place THEN o.item.value ELSE items[i].value
<1> DEFINE p == o.place
           x == [items[p] EXCEPT !.value = o.item.value]
<1>1. items \in Seq(Item) /\ p \in 1 .. Len(items) /\ o.item.value \in Values
  BY DEF IInv, TypeOK, Writes
<1>2. items' = [items EXCEPT ![p] = x]
  BY DEF ItemsAfter, Writes
<1>3. /\ x \in Item /\ x.key = items[p].key /\ x.mark = items[p].mark
      /\ x.value = o.item.value
  <2>1. items[p] \in Item
    BY <1>1, ElementOfSeq
  <2> QED BY <2>1, <1>1 DEF Item
<1> HIDE DEF p, x
<1>4. /\ [items EXCEPT ![p] = x] \in Seq(Item)
      /\ Len([items EXCEPT ![p] = x]) = Len(items)
      /\ \A j \in 1 .. Len(items) : [items EXCEPT ![p] = x][j] = IF j = p THEN x ELSE items[j]
  BY <1>1, <1>3, ExceptSeq
<1> QED BY <1>2, <1>3, <1>4 DEF p
-----------------------------------------------------------------------------
(* What the calls ask for is proper.                                       *)

\* Kinds, keys and items.
LEMMA KindFacts ==
    ASSUME TypeOK
    PROVE  /\ kind \in {"vector", "list", "forward_list", "array", "map", "set"}
           /\ Linear <=> kind \notin {"map", "set"}
BY ContainersAssumption DEF TypeOK, Linear

LEMMA FreshFacts ==
    ASSUME NEW k \in Keys \cup Values \cup {0}, NEW v \in Values \cup Keys
    PROVE  /\ Fresh(k, v) \in Item /\ Fresh(k, v).key = k /\ Fresh(k, v).value = v
           /\ Fresh(k, v).mark = "new"
BY DEF Fresh, Item

LEMMA OutcomeFacts ==
    /\ Proper(Nothing) /\ Proper(Error) /\ Proper(Broken)
    /\ \A p \in 1 .. Len(items), x \in Item :
          kind # "set" /\ x.value \in Values => Proper(Write(p, x))
    /\ \A p \in 1 .. Len(items) : Proper(Drop(p))
BY DEF Proper, Nothing, Error, Broken, Write, Drop, Outcome, Writes, Drops, None

LEMMA PlaceFacts ==
    ASSUME NEW p \in 1 .. Len(items) + 1, NEW x \in Item, x.mark = "new",
           InOrder(x, p), kind = "set" => x.key = x.value
    PROVE  Proper(Place(p, x))
BY DEF Proper, Place, Outcome, Places

\* Where a key belongs that is not there.
LEMMA SortedFacts ==
    ASSUME IInv, ~Linear, NEW k \in Nat, Position(k) = 0
    PROVE  /\ Sorted(k) \in 1 .. Len(items) + 1
           /\ \A i \in 1 .. Len(items) :
                 IF i < Sorted(k) THEN items[i].key < k ELSE k < items[i].key
<1> DEFINE n == Len(items)
           key(i) == items[i].key
           B == {i \in 1 .. n + 1 : \A j \in 1 .. n : i <= j => k < key(j)}
           m == Min(B)
           C == {i \in 1 .. n : key(i) < k}
<1>1. TypeOK
  BY DEF IInv
<1>2. n \in Nat /\ DOMAIN items = 1 .. n /\ \A i \in 1 .. n : key(i) \in Nat
  BY <1>1, ItemsFacts
<1>3. \A i \in 1 .. n : key(i) # k
  BY <1>2, PositionFacts
<1>4. \A i, j \in 1 .. n : i < j => key(i) < key(j)
  BY <1>1, <1>2 DEF TypeOK
<1>5. Sorted(k) = Cardinality(C) + 1
  BY <1>2 DEF Sorted
<1> HIDE DEF n, key
<1>6. n + 1 \in B /\ B \subseteq Nat
  BY <1>2
<1> HIDE DEF m
<1>7. m \in B /\ \A j \in B : m <= j
  <2> HIDE DEF B
  <2>1. B # {}
    BY <1>6
  <2> QED BY <1>6, <2>1, LeastFacts DEF m
<1>8. m \in 1 .. n + 1 /\ \A j \in 1 .. n : m <= j => k < key(j)
  BY <1>7
<1>9. \A j \in 1 .. n : j < m => key(j) < k
  <2> SUFFICES ASSUME NEW j \in 1 .. n, j < m PROVE key(j) < k
    OBVIOUS
  <2>1. m - 1 \notin B /\ m - 1 \in 1 .. n
    <3>1. m - 1 \in 1 .. n /\ ~(m <= m - 1)
      BY <1>2, <1>8
    <3> HIDE DEF B
    <3> QED BY <3>1, <1>7
  <2>2. PICK i \in 1 .. n : m - 1 <= i /\ ~(k < key(i))
    <3>1. m - 1 \in 1 .. n + 1
      BY <2>1, <1>2
    <3> QED BY <2>1, <3>1
  <2>3. i = m - 1
    BY <2>2, <1>8, <1>2
  <2>4. key(i) < k
    BY <2>2, <1>2, <1>3
  <2>5. j = i \/ j < i
    BY <2>3, <1>8
  <2> QED BY <2>4, <2>5, <1>2, <1>4
<1>10. C = 1 .. m - 1
  BY <1>2, <1>8, <1>9
<1>11. Cardinality(C) = m - 1
  <2>1. Cardinality(1 .. m - 1) = IF 1 > m - 1 THEN 0 ELSE m - 1 - 1 + 1
    BY <1>8, FS_Interval
  <2> HIDE DEF C
  <2> QED BY <2>1, <1>8, <1>10
<1>12. Sorted(k) = m
  BY <1>5, <1>8, <1>11
<1> QED BY <1>8, <1>9, <1>12 DEF n, key

\* An item for a key that is not there goes where the key belongs.
LEMMA NewKeyProper ==
    ASSUME IInv, ~Linear, NEW k \in Keys \cup Values, NEW v \in Values, Position(k) = 0
    PROVE  Proper(Place(Sorted(k), Fresh(k, IF kind = "set" THEN k ELSE v)))
<1> DEFINE w == IF kind = "set" THEN k ELSE v
           x == Fresh(k, w)
           p == Sorted(k)
<1>1. k \in Nat
  BY ContainersAssumption DEF Keys
<1>2. /\ p \in 1 .. Len(items) + 1
      /\ \A i \in 1 .. Len(items) : IF i < p THEN items[i].key < k ELSE k < items[i].key
  BY <1>1, SortedFacts
<1>3. w \in Values \cup Keys /\ k \in Keys \cup Values \cup {0} /\ (kind = "set" => k = w)
  OBVIOUS
<1> HIDE DEF w, p
<1>4. x \in Item /\ x.key = k /\ x.value = w /\ x.mark = "new"
  BY <1>3, FreshFacts
<1> HIDE DEF x
<1>5. InOrder(x, p)
  <2>1. DOMAIN items = 1 .. Len(items)
    BY ItemsFacts DEF IInv
  <2> QED BY <2>1, <1>2, <1>4 DEF InOrder
<1>6. Proper(Place(p, x))
  BY <1>2, <1>3, <1>4, <1>5, PlaceFacts
<1> QED BY <1>6 DEF x, w, p

\* add(): the key is one of the script's or a value.
LEMMA AddProper ==
    ASSUME IInv, NEW k, ~Linear => k \in Keys \cup Values, NEW v \in Values
    PROVE  Proper(add_copyable(k, v))
<1>1. TypeOK
  BY DEF IInv
<1>2. CASE kind = "array"
  BY <1>2, OutcomeFacts DEF add_copyable
<1>3. CASE kind \in {"vector", "list", "forward_list"}
  <2>1. add_copyable(k, v) = Place(Len(items) + 1, Fresh(0, v))
    BY <1>3 DEF add_copyable
  <2>2. InOrder(Fresh(0, v), Len(items) + 1)
    BY <1>3, FreshFacts DEF InOrder, Linear
  <2>3. Len(items) + 1 \in 1 .. Len(items) + 1
    BY <1>1, ItemsFacts
  <2> QED BY <2>1, <2>2, <2>3, <1>3, FreshFacts, PlaceFacts
<1>4. CASE kind \in {"map", "set"} /\ Position(k) # 0
  BY <1>4, OutcomeFacts DEF add_copyable
<1>5. CASE kind \in {"map", "set"} /\ Position(k) = 0
  <2>1. add_copyable(k, v) = Place(Sorted(k), Fresh(k, IF kind = "set" THEN k ELSE v))
    BY <1>5 DEF add_copyable
  <2>2. ~Linear
    BY <1>5 DEF Linear
  <2> QED BY <2>1, <2>2, <1>5, NewKeyProper
<1> QED BY <1>1, <1>2, <1>3, <1>4, <1>5, KindFacts

\* set(), c[k] = v.
LEMMA SetProper ==
    ASSUME IInv, NEW k \in Nat, ~Linear => k \in Keys \cup Values, NEW v \in Values
    PROVE  Proper(set_start(k, v))
<1> DEFINE n == Len(items)
<1>1. TypeOK
  BY DEF IInv
<1>2. n \in Nat
  BY <1>1, ItemsFacts
<1>3. ASSUME NEW p \in 1 .. n, kind # "set", NEW j \in Keys \cup Values \cup {0}
      PROVE  Proper(Write(p, Fresh(j, v)))
  BY <1>3, FreshFacts, OutcomeFacts
<1>4. ASSUME Linear
      PROVE  Proper(Place(n + 1, Fresh(0, v)))
  <2>1. InOrder(Fresh(0, v), n + 1)
    BY <1>4, FreshFacts DEF InOrder
  <2>2. n + 1 \in 1 .. n + 1 /\ kind # "set"
    BY <1>2, <1>4 DEF Linear
  <2> QED BY <2>1, <2>2, FreshFacts, PlaceFacts
<1>5. CASE kind = "array"
  <2>1. CASE k - 1 \in 0 .. n - 1
    <3>1. set_start(k, v) = Write(k - 1 + 1, Fresh(0, v)) /\ k - 1 + 1 \in 1 .. n
      BY <2>1, <1>2, <1>5 DEF set_start, set_array, index_adjustment
    <3> QED BY <3>1, <1>3, <1>5
  <2>2. CASE k - 1 \notin 0 .. n - 1
    BY <2>2, <1>5, OutcomeFacts DEF set_start, set_array, index_adjustment
  <2> QED BY <2>1, <2>2
<1>6. CASE kind = "vector"
  <2>1. set_start(k, v) = set_random(k, v)
    BY <1>6 DEF set_start
  <2>2. CASE k <= 0 \/ k - 1 > n
    <3>1. k <= 0 => k - 1 # n
      BY <1>2
    <3>2. k - 1 > n => k - 1 # n
      BY <1>2
    <3>3. set_random(k, v) = Error
      BY <2>2, <3>1, <3>2 DEF set_random, index_adjustment
    <3> QED BY <2>1, <3>3, OutcomeFacts
  <2>3. CASE ~(k <= 0 \/ k - 1 > n) /\ k - 1 = n
    <3>1. set_random(k, v) = add_copyable(0, v)
      BY <2>3 DEF set_random, index_adjustment
    <3>2. Linear
      BY <1>6 DEF Linear
    <3> QED BY <2>1, <3>1, <3>2, AddProper
  <2>4. CASE ~(k <= 0 \/ k - 1 > n) /\ k - 1 # n
    <3>1. set_random(k, v) = Write(k - 1 + 1, Fresh(0, v))
      BY <2>4 DEF set_random, index_adjustment
    <3>2. k - 1 + 1 \in 1 .. n
      BY <2>4, <1>2
    <3> QED BY <2>1, <3>1, <3>2, <1>3, <1>6
  <2> QED BY <2>2, <2>3, <2>4
<1>7. CASE kind \in {"list", "forward_list"}
  <2> DEFINE steps == IF k - 1 < 0 THEN 0 ELSE IF k - 1 > n THEN n ELSE k - 1
  <2>1. set_start(k, v) = set_walking(k, v)
    BY <1>7 DEF set_start
  <2>2. set_walking(k, v) =
            IF steps < n THEN Write(steps + 1, Fresh(0, v))
            ELSE IF k - 1 # steps THEN Error
            ELSE IF kind = "list" THEN add_copyable(0, v)
            ELSE IF items = <<>> THEN Broken ELSE Place(steps + 1, Fresh(0, v))
    BY DEF set_walking, index_adjustment
  <2>3. steps \in 0 .. n /\ Linear
    BY <1>2, <1>7 DEF Linear
  <2> HIDE DEF steps
  <2>4. steps < n => steps + 1 \in 1 .. n
    BY <1>2, <2>3
  <2>5. ~(steps < n) => steps + 1 = n + 1
    BY <1>2, <2>3
  <2>6. Proper(add_copyable(0, v))
    BY <2>3, AddProper
  <2> QED BY <2>1, <2>2, <2>3, <2>4, <2>5, <2>6, <1>3, <1>4, <1>7, OutcomeFacts
<1>8. CASE kind \in {"map", "set"}
  <2> DEFINE p == Position(k)
  <2>1. set_start(k, v) = set_found(k, v) /\ ~Linear
    BY <1>8 DEF set_start, Linear
  <2>2. set_found(k, v) =
            IF p = 0 THEN Place(Sorted(k), Fresh(k, IF kind = "set" THEN k ELSE v))
            ELSE IF kind = "set" THEN Error ELSE Write(p, Fresh(k, v))
    BY DEF set_found
  <2>3. p \in 0 .. n
    BY <1>2, PositionFacts
  <2>4. p # 0 => p \in 1 .. n
    BY <1>2, <2>3
  <2>5. p = 0 => Proper(Place(Sorted(k), Fresh(k, IF kind = "set" THEN k ELSE v)))
    BY <2>1, NewKeyProper
  <2>6. p # 0 /\ kind # "set" => Proper(Write(p, Fresh(k, v)))
    BY <2>1, <2>4, <1>3
  <2> HIDE DEF p
  <2> QED BY <2>1, <2>2, <2>5, <2>6, OutcomeFacts
<1> QED BY <1>1, <1>5, <1>6, <1>7, <1>8, KindFacts

\* insert().
LEMMA InsertProper ==
    ASSUME IInv, NEW k \in Nat, NEW v \in Values
    PROVE  Proper(insert_copyable(k, v))
<1> DEFINE n == Len(items)
           steps == IF k - 1 < 0 THEN 0 ELSE k - 1
<1>1. TypeOK
  BY DEF IInv
<1>2. n \in Nat
  BY <1>1, ItemsFacts
<1>3. ASSUME Linear, NEW p \in 1 .. n + 1
      PROVE  Proper(Place(p, Fresh(0, v)))
  <2>1. InOrder(Fresh(0, v), p) /\ kind # "set"
    BY <1>3, FreshFacts DEF InOrder, Linear
  <2> QED BY <2>1, FreshFacts, PlaceFacts
<1>4. CASE kind = "array"
  BY <1>4, OutcomeFacts DEF insert_copyable
<1>5. CASE kind \in {"map", "set"}
  <2>1. insert_copyable(k, v) = add_copyable(v, v)
    BY <1>5 DEF insert_copyable
  <2> QED BY <2>1, AddProper
<1>6. CASE kind = "forward_list"
  <2>1. insert_copyable(k, v) = IF steps > n THEN Broken ELSE Place(steps + 1, Fresh(0, v))
    BY <1>6 DEF insert_copyable, index_adjustment
  <2>2. Linear /\ (~(steps > n) => steps + 1 \in 1 .. n + 1)
    BY <1>2, <1>6 DEF Linear
  <2> HIDE DEF steps
  <2> QED BY <2>1, <2>2, <1>3, OutcomeFacts
<1>7. CASE kind \in {"vector", "list"}
  <2>1. insert_copyable(k, v) = IF k - 1 \in 0 .. n THEN Place(k - 1 + 1, Fresh(0, v)) ELSE Broken
    BY <1>7 DEF insert_copyable, index_adjustment
  <2>2. Linear /\ (k - 1 \in 0 .. n => k - 1 + 1 \in 1 .. n + 1)
    BY <1>2, <1>7 DEF Linear
  <2> QED BY <2>1, <2>2, <1>3, OutcomeFacts
<1> QED BY <1>1, <1>4, <1>5, <1>6, <1>7, KindFacts

\* erase().
LEMMA EraseProper ==
    ASSUME IInv, NEW k \in Nat
    PROVE  Proper(erase_start(k))
<1> DEFINE n == Len(items)
           steps == IF k - 1 < 0 THEN 0 ELSE k - 1
<1>1. TypeOK
  BY DEF IInv
<1>2. n \in Nat
  BY <1>1, ItemsFacts
<1>3. \A p \in 1 .. n : Proper(Drop(p))
  BY OutcomeFacts
<1>4. CASE kind = "array"
  BY <1>4, OutcomeFacts DEF erase_start
<1>5. CASE kind \in {"map", "set"}
  <2>1. erase_start(k) = IF Position(k) = 0 THEN Nothing ELSE Drop(Position(k))
    BY <1>5 DEF erase_start
  <2>2. Position(k) # 0 => Position(k) \in 1 .. n
    BY <1>2, PositionFacts
  <2> QED BY <2>1, <2>2, <1>3, OutcomeFacts
<1>6. CASE kind = "forward_list"
  <2>1. erase_start(k) = IF steps < n THEN Drop(steps + 1) ELSE Broken
    BY <1>6 DEF erase_start, index_adjustment
  <2>2. steps < n => steps + 1 \in 1 .. n
    BY <1>2
  <2> HIDE DEF steps
  <2> QED BY <2>1, <2>2, <1>3, OutcomeFacts
<1>7. CASE kind \in {"vector", "list"}
  <2>1. erase_start(k) = IF k - 1 \in 0 .. n - 1 THEN Drop(k - 1 + 1) ELSE Broken
    BY <1>7 DEF erase_start, index_adjustment
  <2>2. k - 1 \in 0 .. n - 1 => k - 1 + 1 \in 1 .. n
    BY <1>2
  <2> QED BY <2>1, <2>2, <1>3, OutcomeFacts
<1> QED BY <1>1, <1>4, <1>5, <1>6, <1>7, KindFacts
-----------------------------------------------------------------------------
(* Each step keeps the invariant.                                          *)

LEMMA PerformSound ==
    ASSUME IInv, NEW op, NEW k, NEW v, NEW o, Proper(o), Perform(op, k, v, o)
    PROVE  IInv'
<1>1. PICK grows \in BOOLEAN : loop' = LoopAfter(o, grows)
  BY DEF Perform
<1>2. /\ items' = ItemsAfter(o) /\ kind' = kind /\ owner' = owner /\ undefined' \in BOOLEAN
      /\ o.what = "place" => Len(items) < MaxSize
  BY DEF Perform
<1>3. owner' \in {"held", "dropped", "collected"} /\ items \in Seq(Item)
  BY <1>2 DEF IInv, TypeOK
<1>4. CASE Places(o)
  BY <1>1, <1>2, <1>4, PlaceSound DEF Places
<1>5. CASE Drops(o)
  BY <1>1, <1>2, <1>5, DropSound
<1>6. CASE Writes(o)
  <2>1. loop' = loop
    BY <1>1, <1>6 DEF LoopAfter, Writes, NoLoop
  <2>2. /\ items' \in Seq(Item) /\ Len(items') = Len(items)
        /\ \A i \in 1 .. Len(items) :
              /\ items'[i].key = items[i].key /\ items'[i].mark = items[i].mark
              /\ items'[i].value = IF i = o.place THEN o.item.value ELSE items[i].value
    BY <1>2, <1>6, WriteFacts
  <2>3. kind # "set"
    BY <1>6 DEF Writes
  <2> QED BY <2>1, <2>2, <2>3, <1>2, <1>3, SameItemsSound
<1>7. CASE o.what \in {"nothing", "broken"}
  <2>1. items' = items /\ loop' = loop
    BY <1>1, <1>2, <1>7 DEF ItemsAfter, LoopAfter, NoLoop
  <2> QED BY <2>1, <1>2, <1>3, SameItemsSound
<1> QED BY <1>4, <1>5, <1>6, <1>7 DEF Proper

\* Items that keep their keys and values, whatever their marks are.
LEMMA SameKeysSound ==
    ASSUME IInv, items' \in Seq(Item), Len(items') = Len(items),
           \A i \in 1 .. Len(items) :
              items'[i].key = items[i].key /\ items'[i].value = items[i].value,
           kind' = kind, loop' = NoLoop \/ loop'.pos \in 1 .. Len(items) + 1,
           owner' = owner, undefined' \in BOOLEAN
    PROVE  TypeOK' /\ MembersSound' /\ DOMAIN items' = 1 .. Len(items)
<1>1. TypeOK /\ MembersSound
  BY DEF IInv
<1>2. DOMAIN items = 1 .. Len(items) /\ DOMAIN items' = 1 .. Len(items)
  BY <1>1, LenProperties DEF TypeOK
<1>3. TypeOK'
  <2>1. Linear' = Linear
    BY DEF Linear
  <2> QED BY <1>1, <1>2, <2>1 DEF TypeOK
<1>4. MembersSound'
  BY <1>1, <1>2 DEF MembersSound
<1> QED BY <1>2, <1>3, <1>4

LEMMA MarkedFacts ==
    ASSUME NEW s \in Seq(Item), NEW m \in {"new", "due", "given"}
    PROVE  /\ Marked(s, m) \in Seq(Item) /\ Len(Marked(s, m)) = Len(s)
           /\ \A i \in 1 .. Len(s) :
                 /\ Marked(s, m)[i].key = s[i].key /\ Marked(s, m)[i].value = s[i].value
                 /\ Marked(s, m)[i].mark = m
<1>1. Len(s) \in Nat /\ DOMAIN s = 1 .. Len(s) /\ \A i \in 1 .. Len(s) : s[i] \in Item
  BY LenProperties
<1>2. Marked(s, m) = [i \in 1 .. Len(s) |-> [s[i] EXCEPT !.mark = m]]
  BY <1>1 DEF Marked
<1>3. ASSUME NEW i \in 1 .. Len(s)
      PROVE  /\ [s[i] EXCEPT !.mark = m] \in Item
             /\ [s[i] EXCEPT !.mark = m].key = s[i].key
             /\ [s[i] EXCEPT !.mark = m].value = s[i].value
             /\ [s[i] EXCEPT !.mark = m].mark = m
  BY <1>1 DEF Item
<1>4. Marked(s, m) \in [1 .. Len(s) -> Item]
  BY <1>2, <1>3
<1>5. Marked(s, m) \in Seq(Item) /\ Len(Marked(s, m)) = Len(s)
  <2>1. Marked(s, m) \in Seq(Item)
    BY <1>1, <1>4, SeqDef
  <2>2. DOMAIN Marked(s, m) = 1 .. Len(s)
    BY <1>4
  <2>3. Len(Marked(s, m)) \in Nat /\ DOMAIN Marked(s, m) = 1 .. Len(Marked(s, m))
    BY <2>1, LenProperties
  <2> DEFINE a == Len(Marked(s, m))
             b == Len(s)
  <2>4. a \in Nat /\ b \in Nat /\ 1 .. a = 1 .. b
    BY <2>2, <2>3, <1>1
  <2> HIDE DEF a, b
  <2>5. a = b
    <3>1. a \in 1 .. a \/ a = 0
      BY <2>4
    <3>2. b \in 1 .. b \/ b = 0
      BY <2>4
    <3>3. a \in 1 .. b \/ a = 0
      BY <3>1, <2>4
    <3>4. b \in 1 .. a \/ b = 0
      BY <3>2, <2>4
    <3> QED BY <3>3, <3>4, <2>4
  <2> QED BY <2>1, <2>5 DEF a, b
<1> QED BY <1>2, <1>3, <1>5

\* The end of a traversal.
LEMMA OverSound ==
    ASSUME IInv, loop' = NoLoop, items' = Marked(items, "new"),
           kind' = kind, owner' = owner, undefined' = undefined
    PROVE  IInv'
<1>1. TypeOK' /\ MembersSound'
  BY MarkedFacts, SameKeysSound DEF IInv, TypeOK
<1> QED BY <1>1 DEF IInv, LoopSound, EachItemOnce, CountSound

LEMMA BeginSound ==
    ASSUME IInv, NEW counts \in BOOLEAN, Begin(counts)
    PROVE  IInv'
<1>1. TypeOK
  BY DEF IInv
<1>2. /\ loop' = [pos |-> 1, valid |-> TRUE, control |-> 0, counts |-> counts, moved |-> FALSE]
      /\ items' = Marked(items, "due")
      /\ kind' = kind /\ owner' = owner /\ undefined' = undefined
  BY DEF Begin
<1>3. loop' \in Traversal /\ loop'.pos = 1 /\ loop'.control = 0
  BY <1>2 DEF Traversal
<1>4. /\ items' \in Seq(Item) /\ Len(items') = Len(items) /\ Len(items) \in Nat
      /\ \A i \in 1 .. Len(items) :
            /\ items'[i].key = items[i].key /\ items'[i].value = items[i].value
            /\ items'[i].mark = "due"
  BY <1>1, <1>2, MarkedFacts, ItemsFacts DEF TypeOK
<1>5. TypeOK' /\ MembersSound' /\ DOMAIN items' = 1 .. Len(items)
  <2>1. loop'.pos \in 1 .. Len(items) + 1
    BY <1>3, <1>4
  <2>2. undefined' \in BOOLEAN
    BY <1>1, <1>2 DEF TypeOK
  <2> QED BY <2>1, <2>2, <1>2, <1>4, SameKeysSound
<1>6. EachItemOnce'
  BY <1>3, <1>4, <1>5 DEF EachItemOnce
<1> QED BY <1>3, <1>5, <1>6 DEF IInv, LoopSound, CountSound

\* What next_iter does when it hands out an item.
LEMMA HandOutFacts ==
    ASSUME IInv, Next_iter, undefined' = undefined, loop' # NoLoop
    PROVE  LET q == loop.pos  x == items[q] IN
           /\ q \in 1 .. Len(items)
           /\ loop' = [loop EXCEPT !.pos = q + 1, !.control = KeyOf(x)]
           /\ items' = [items EXCEPT ![q].mark = "given"]
           /\ Call("next", KeyOf(x), x.value, TRUE)
           /\ loop' \in Traversal /\ loop'.pos = q + 1 /\ loop'.control = KeyOf(x)
           /\ loop'.counts = loop.counts /\ loop'.moved = loop.moved
           /\ items' \in Seq(Item) /\ Len(items') = Len(items)
           /\ \A i \in 1 .. Len(items) :
                 /\ items'[i].key = items[i].key /\ items'[i].value = items[i].value
                 /\ items'[i].mark = IF i = q THEN "given" ELSE items[i].mark
<1> DEFINE q == loop.pos
           n == Len(items)
           x == items[q]
           y == [x EXCEPT !.mark = "given"]
<1>1. TypeOK /\ LoopSound /\ loop # NoLoop /\ ~undefined
  BY DEF IInv, Next_iter
<1>2. n \in Nat /\ loop \in Traversal /\ q \in 1 .. n + 1 /\ items \in Seq(Item)
  BY <1>1, ItemsFacts, LoopFacts DEF TypeOK
<1>3. /\ ~(q = n + 1)
      /\ loop' = [loop EXCEPT !.pos = q + 1, !.control = KeyOf(x)]
      /\ items' = [items EXCEPT ![q].mark = "given"]
      /\ Call("next", KeyOf(x), x.value, TRUE)
  BY <1>1 DEF Next_iter, HandOut
<1>4. q \in 1 .. n
  BY <1>2, <1>3
<1>5. x \in Item /\ x.key \in Nat
  BY <1>1, <1>4, ItemsFacts
<1>6. KeyOf(x) \in Nat
  BY <1>2, <1>5 DEF KeyOf, Traversal
<1>7. /\ loop' \in Traversal /\ loop'.pos = q + 1 /\ loop'.control = KeyOf(x)
      /\ loop'.counts = loop.counts /\ loop'.moved = loop.moved
  <2>1. q \in Nat
    BY <1>4
  <2> DEFINE c == KeyOf(x)
             r == q + 1
  <2>2. r \in Nat /\ c \in Nat /\ loop \in Traversal
    BY <2>1, <1>2, <1>6
  <2>3. loop' = [loop EXCEPT !.pos = r, !.control = c]
    BY <1>3
  <2> HIDE DEF c, r
  <2>4. /\ loop' \in Traversal /\ loop'.pos = r /\ loop'.control = c
        /\ loop'.counts = loop.counts /\ loop'.moved = loop.moved
    BY <2>2, <2>3 DEF Traversal
  <2> QED BY <2>4 DEF c, r
<1>8. y \in Item /\ y.key = x.key /\ y.value = x.value /\ y.mark = "given"
  BY <1>5 DEF Item
<1>9. items' = [items EXCEPT ![q] = y]
  BY <1>3
<1> HIDE DEF y, n
<1>10. /\ [items EXCEPT ![q] = y] \in Seq(Item) /\ Len([items EXCEPT ![q] = y]) = Len(items)
       /\ \A j \in 1 .. Len(items) : [items EXCEPT ![q] = y][j] = IF j = q THEN y ELSE items[j]
  <2>1. q \in 1 .. Len(items)
    BY <1>4 DEF n
  <2> HIDE DEF q
  <2> QED BY <2>1, <1>2, <1>8, ExceptSeq
<1> QED BY <1>3, <1>4, <1>7, <1>8, <1>9, <1>10 DEF n

LEMMA Next_iterSound ==
    ASSUME IInv, Next_iter
    PROVE  IInv'
<1>1. TypeOK /\ LoopSound /\ MembersSound /\ EachItemOnce /\ CountSound /\ loop # NoLoop
  BY DEF IInv, Next_iter
<1>2. kind' = kind /\ owner' = owner
  BY DEF Next_iter
<1>3. CASE undefined' # undefined
  <2>1. items' = items /\ loop' = loop /\ undefined' \in BOOLEAN
    BY <1>3 DEF Next_iter
  <2> QED BY <2>1, <1>1, <1>2, SameItemsSound DEF TypeOK
<1>4. CASE undefined' = undefined /\ loop' = NoLoop
  <2>1. undefined = FALSE
    BY <1>1 DEF Next_iter, TypeOK
  <2>2. CASE items' = Marked(items, "new")
    BY <2>2, <1>2, <1>4, OverSound
  <2>3. CASE items' # Marked(items, "new")
    <3>1. /\ loop' = [loop EXCEPT !.pos = loop.pos + 1, !.control = KeyOf(items[loop.pos])]
      BY <2>1, <2>3, <1>4 DEF Next_iter, HandOut
    <3>2. loop \in Traversal /\ loop.pos \in Nat
      BY <1>1, LoopFacts
    <3>3. loop'.pos = loop.pos + 1
      BY <3>1, <3>2 DEF Traversal
    <3> QED BY <3>2, <3>3, <1>4 DEF NoLoop
  <2> QED BY <2>2, <2>3
<1>5. CASE undefined' = undefined /\ loop' # NoLoop
  <2> DEFINE q == loop.pos
             n == Len(items)
             x == items[q]
  <2>1. /\ q \in 1 .. n
        /\ loop' \in Traversal /\ loop'.pos = q + 1 /\ loop'.control = KeyOf(x)
        /\ loop'.counts = loop.counts /\ loop'.moved = loop.moved
        /\ items' \in Seq(Item) /\ Len(items') = n
        /\ \A i \in 1 .. n :
              /\ items'[i].key = items[i].key /\ items'[i].value = items[i].value
              /\ items'[i].mark = IF i = q THEN "given" ELSE items[i].mark
    BY <1>5, HandOutFacts
  <2>2. n \in Nat /\ DOMAIN items = 1 .. n
    BY <1>1, ItemsFacts
  <2> HIDE DEF q, n, x
  <2>3. loop'.pos \in 1 .. n + 1
    BY <2>1, <2>2
  <2>4. TypeOK' /\ MembersSound' /\ DOMAIN items' = 1 .. n
    <3>1. undefined' \in BOOLEAN
      BY <1>1, <1>5 DEF TypeOK
    <3> QED BY <3>1, <2>1, <2>3, <1>2, SameKeysSound DEF n
  <2>5. EachItemOnce'
    <3>1. SUFFICES ASSUME NEW i \in 1 .. n
                   PROVE  IF i < q + 1 THEN items'[i].mark # "due" ELSE items'[i].mark # "given"
      BY <2>1, <2>4 DEF EachItemOnce
    <3>2. IF i < q THEN items[i].mark # "due" ELSE items[i].mark # "given"
      BY <1>1, <2>2 DEF EachItemOnce, q
    <3>3. (i < q + 1 <=> i < q \/ i = q) /\ (i = q => ~(i < q))
      BY <2>1, <2>2
    <3> QED BY <3>2, <3>3, <2>1
  <2>6. CountSound'
    <3>1. loop.moved \/ HandsKeys \/ loop.control = q - 1
      BY <1>1 DEF CountSound, q
    <3>2. HandsKeys' = HandsKeys
      BY <2>1, <1>2 DEF HandsKeys
    <3>3. HandsKeys \/ loop'.control = loop.control + 1
      BY <2>1 DEF KeyOf, HandsKeys
    <3>4. loop.control = q - 1 => loop.control + 1 = q + 1 - 1
      BY <2>1, <2>2
    <3> QED BY <3>1, <3>2, <3>3, <3>4, <2>1 DEF CountSound
  <2> QED BY <2>1, <2>4, <2>5, <2>6 DEF IInv, LoopSound
<1> QED BY <1>3, <1>4, <1>5

LEMMA ClearSound ==
    ASSUME IInv, Clear
    PROVE  IInv'
<1>1. TypeOK /\ LoopSound
  BY DEF IInv
<1>2. kind' = kind /\ owner' = owner /\ undefined' = undefined
  BY DEF Clear
<1>3. CASE kind = "array"
  <2>1. items' = items /\ loop' = loop
    BY <1>3 DEF Clear
  <2> QED BY <2>1, <1>1, <1>2, SameItemsSound DEF TypeOK
<1>4. CASE kind # "array"
  <2>1. /\ items' = <<>>
        /\ loop' = IF loop = NoLoop THEN NoLoop
                   ELSE [loop EXCEPT !.pos = 1, !.moved = TRUE,
                                     !.valid = /\ @ /\ kind # "vector"
                                               /\ loop.pos = Len(items) + 1]
    BY <1>4 DEF Clear
  <2>2. items' \in Seq(Item) /\ Len(items') = 0 /\ DOMAIN items' = {} /\ 0 <= MaxSize
    BY <2>1, ContainersAssumption
  <2>3. loop' = NoLoop \/ (loop' \in Traversal /\ loop'.pos = 1 /\ loop'.moved = TRUE)
    <3>1. CASE loop # NoLoop
      <4>1. loop \in Traversal
        BY <3>1, <1>1, LoopFacts
      <4> QED BY <4>1, <3>1, <2>1 DEF Traversal
    <3> QED BY <3>1, <2>1
  <2>4. TypeOK'
    BY <2>2, <2>3, <1>1, <1>2 DEF TypeOK
  <2> QED BY <2>2, <2>3, <2>4 DEF IInv, LoopSound, MembersSound, EachItemOnce, CountSound
<1> QED BY <1>3, <1>4

LEMMA InitSound == Init => IInv
<1> SUFFICES ASSUME Init PROVE IInv
  OBVIOUS
<1>1. kind \in Kinds /\ loop = NoLoop /\ owner = "held" /\ undefined = FALSE
  BY DEF Init
<1>2. CASE kind = "array"
  <2>1. PICK v \in Values, w \in Values : items = <<Fresh(0, v), Fresh(0, w)>>
    BY <1>2 DEF Init
  <2>2. Fresh(0, v) \in Item /\ Fresh(0, w) \in Item /\ Fresh(0, v).key = 0 /\ Fresh(0, w).key = 0
    BY FreshFacts
  <2>3. /\ items \in Seq(Item) /\ Len(items) = 2 /\ DOMAIN items = 1 .. 2
        /\ items[1].key = 0 /\ items[2].key = 0
    <3> DEFINE x == Fresh(0, v)
               y == Fresh(0, w)
    <3>1. items = <<x, y>> /\ x \in Item /\ y \in Item /\ x.key = 0 /\ y.key = 0
      BY <2>1, <2>2
    <3> HIDE DEF x, y
    <3> QED BY <3>1
  <2>4. Linear /\ 2 <= MaxSize
    BY <1>1, <1>2, ContainersAssumption DEF Linear
  <2>5. TypeOK
    <3>1. \A i \in DOMAIN items : items[i].key = 0
      BY <2>3
    <3>2. items \in Seq(Item) /\ Len(items) <= MaxSize
      BY <2>3, <2>4
    <3> QED BY <3>1, <3>2, <2>4, <1>1 DEF TypeOK
  <2> QED BY <2>5, <1>1, <1>2 DEF IInv, LoopSound, MembersSound, EachItemOnce, CountSound
<1>3. CASE kind # "array"
  <2>1. items = <<>>
    BY <1>3 DEF Init
  <2>2. items \in Seq(Item) /\ Len(items) = 0 /\ DOMAIN items = {} /\ 0 <= MaxSize
    BY <2>1, ContainersAssumption
  <2>3. TypeOK
    BY <2>2, <1>1 DEF TypeOK
  <2> QED BY <2>2, <2>3, <1>1 DEF IInv, LoopSound, MembersSound, EachItemOnce, CountSound
<1> QED BY <1>2, <1>3
\* A step of a script, or of the collector.
LEMMA StepSound ==
    ASSUME IInv, [Next]_vars
    PROVE  IInv'
<1>1. TypeOK /\ (\A k \in 0 .. MaxSize + 2 : k \in Nat)
  BY ContainersAssumption DEF IInv
<1>2. ASSUME NEW k \in 0 .. MaxSize + 2, NEW v \in Values, ~Linear => k \in Keys, Set(k, v)
      PROVE  IInv'
  BY <1>1, <1>2, SetProper, PerformSound DEF Set
<1>3. ASSUME NEW k \in 0 .. MaxSize + 2, NEW v \in Values, Insert(k, v)
      PROVE  IInv'
  BY <1>1, <1>3, InsertProper, PerformSound DEF Insert
<1>4. ASSUME NEW k \in 0 .. MaxSize + 2, NEW v \in Values, ~Linear => k \in Keys,
             Add(CASE Linear -> 0 [] kind = "set" -> v [] OTHER -> k, v)
      PROVE  IInv'
  <2> DEFINE j == CASE Linear -> 0 [] kind = "set" -> v [] OTHER -> k
  <2>1. ~Linear => j \in Keys \cup Values
    BY <1>4
  <2> HIDE DEF j
  <2>2. Add(j, v)
    BY <1>4 DEF j
  <2> QED BY <2>1, <2>2, AddProper, PerformSound DEF Add
<1>5. ASSUME NEW k \in 0 .. MaxSize + 2, Erase(k)
      PROVE  IInv'
  BY <1>1, <1>5, EraseProper, PerformSound DEF Erase
<1>6. CASE Clear
  BY <1>6, ClearSound
<1>7. ASSUME NEW counts \in BOOLEAN, Begin(counts) PROVE IInv'
  BY <1>7, BeginSound
<1>8. CASE Next_iter
  BY <1>8, Next_iterSound
<1>9. CASE Break
  BY <1>9, OverSound DEF Break
<1>10. CASE LetGo
  BY <1>1, <1>10, SameItemsSound DEF LetGo, TypeOK
<1>11. CASE Collect
  BY <1>1, <1>11, SameItemsSound DEF Collect, TypeOK
<1>12. CASE UNCHANGED vars
  BY <1>1, <1>12, SameItemsSound DEF vars, TypeOK
<1> QED BY <1>2, <1>3, <1>4, <1>5, <1>6, <1>7, <1>8, <1>9, <1>10, <1>11, <1>12 DEF Next

\* The types hold, trees are in the order of their keys.
THEOREM InvariantHolds == Spec => []IInv
BY InitSound, StepSound, PTL DEF Spec

-----------------------------------------------------------------------------
(* What the script was told.                                               *)

\* The last item handed out is the one before the traversal.
HandedOut ==
    called.op = "next" /\ loop # NoLoop =>
        /\ loop.pos - 1 \in 1 .. Len(items)
        /\ called.value = items[loop.pos - 1].value
        /\ called.key = IF HandsKeys THEN items[loop.pos - 1].key ELSE loop.control

LEMMA HandedOutSound ==
    ASSUME IInv, HandedOut, [Next]_vars
    PROVE  HandedOut'
<1>1. CASE called'.op # "next"
  BY <1>1 DEF HandedOut
<1>2. CASE UNCHANGED vars
  BY <1>2 DEF vars, HandedOut, HandsKeys
<1>3. CASE Next_iter /\ undefined' = undefined /\ loop' # NoLoop
  <2> DEFINE q == loop.pos
             x == items[q]
  <2>1. /\ q \in 1 .. Len(items)
        /\ Call("next", KeyOf(x), x.value, TRUE)
        /\ loop'.pos = q + 1 /\ loop'.control = KeyOf(x) /\ loop'.counts = loop.counts
        /\ Len(items') = Len(items)
        /\ \A i \in 1 .. Len(items) :
              items'[i].key = items[i].key /\ items'[i].value = items[i].value
    BY <1>3, HandOutFacts
  <2>2. called'.key = KeyOf(x) /\ called'.value = x.value
    BY <2>1 DEF Call
  <2>3. HandsKeys' = HandsKeys
    BY <1>3, <2>1 DEF HandsKeys, Next_iter
  <2>4. HandsKeys => KeyOf(x) = x.key
    BY DEF KeyOf, HandsKeys
  <2>5. loop'.pos - 1 = q
    BY <2>1
  <2> HIDE DEF q
  <2> QED BY <2>1, <2>2, <2>3, <2>4, <2>5 DEF HandedOut
<1>4. CASE Next_iter /\ undefined' # undefined
  BY <1>4 DEF Next_iter, Call, HandedOut
<1>5. CASE Next_iter /\ loop' = NoLoop
  BY <1>5 DEF HandedOut
<1>6. \A k, v : Set(k, v) => called'.op # "next"
  BY DEF Set, Perform, Call
<1>7. \A k, v : Insert(k, v) => called'.op # "next"
  BY DEF Insert, Perform, Call
<1>8. \A k, v : Add(k, v) => called'.op # "next"
  BY DEF Add, Perform, Call
<1>9. \A k : Erase(k) => called'.op # "next"
  BY DEF Erase, Perform, Call
<1>10. \A c : Begin(c) => called'.op # "next"
  BY DEF Begin, Call
<1>11. Clear \/ Break \/ LetGo \/ Collect => called'.op # "next"
  BY DEF Clear, Break, LetGo, Collect, Call
<1> QED BY <1>1, <1>2, <1>3, <1>4, <1>5, <1>6, <1>7, <1>8, <1>9, <1>10, <1>11 DEF Next

\* Where a value is found.
PlaceOf(v) == SelectInSeq(items, LAMBDA y : y.value = v)

LEMMA ValueFacts ==
    ASSUME NEW v, Len(items) \in Nat
    PROVE  PlaceOf(v) \in 0 .. Len(items) /\ (PlaceOf(v) # 0 => items[PlaceOf(v)].value = v)
<1> DEFINE I == {i \in 1 .. Len(items) : items[i].value = v}
           p == PlaceOf(v)
<1>1. p = IF I # {} THEN Min(I) ELSE 0
  BY DEF PlaceOf, SelectInSeq
<1>2. I # {} => Min(I) \in I
  <2>1. I \subseteq Nat
    OBVIOUS
  <2> HIDE DEF I
  <2> QED BY <2>1, LeastFacts
<1> HIDE DEF p
<1>3. p \in 0 .. Len(items) /\ (p # 0 => items[p].value = v)
  BY <1>1, <1>2
<1> QED BY <1>3 DEF p

LEMMA ReadsBack == IInv /\ HandedOut => KeysReadBack
<1> SUFFICES ASSUME IInv, HandedOut PROVE KeysReadBack
  OBVIOUS
<1> DEFINE n == Len(items)
<1>1. TypeOK /\ LoopSound /\ MembersSound /\ CountSound
  BY DEF IInv
<1>2. /\ n \in Nat /\ DOMAIN items = 1 .. n
      /\ \A i \in 1 .. n : items[i].key \in Nat /\ items[i].value \in Nat
  BY <1>1, ItemsFacts
<1>3. \A p \in 1 .. n : at(p) = items[p].value
  <2> SUFFICES ASSUME NEW p \in 1 .. n PROVE at(p) = items[p].value
    OBVIOUS
  <2>1. ~(p - 1 < 0 \/ p - 1 >= n) /\ p - 1 + 1 = p
    BY <1>2
  <2>2. at(p) = IF p - 1 < 0 \/ p - 1 >= n THEN Nil ELSE items[p - 1 + 1].value
    BY DEF at, index_adjustment
  <2> QED BY <2>1, <2>2
<1>4. ASSUME ~Linear, NEW p \in 1 .. n
      PROVE  Position(items[p].key) = p
  <2> DEFINE k == items[p].key
             q == Position(k)
  <2>1. q # 0 /\ q \in 0 .. n /\ items[q].key = k
    BY <1>2, PositionFacts
  <2>2. \A i, j \in 1 .. n : i < j => items[i].key < items[j].key
    BY <1>1, <1>2, <1>4 DEF TypeOK
  <2> HIDE DEF q
  <2>3. q \in 1 .. n
    BY <2>1, <1>2
  <2>4. ~(q < p) /\ ~(p < q)
    BY <2>1, <2>2, <2>3, <1>2
  <2> QED BY <2>3, <2>4 DEF q
<1>5. ASSUME called.op = "next", loop # NoLoop, kind # "set",
             ~(kind = "map" /\ loop.counts), ~loop.moved
      PROVE  get(called.key) = called.value
  <2> DEFINE p == loop.pos - 1
  <2>1. /\ p \in 1 .. n /\ called.value = items[p].value
        /\ called.key = IF HandsKeys THEN items[p].key ELSE loop.control
    BY <1>5 DEF HandedOut
  <2> HIDE DEF p
  <2>2. CASE kind = "map"
    <3>1. HandsKeys /\ ~Linear
      BY <2>2, <1>5 DEF HandsKeys, Linear
    <3>2. Position(called.key) = p
      BY <3>1, <2>1, <1>4
    <3>3. p # 0
      BY <2>1, <1>2
    <3>4. get(called.key) = IF Position(called.key) = 0 THEN Nil
                            ELSE items[Position(called.key)].value
      BY <3>1 DEF get
    <3> QED BY <3>2, <3>3, <3>4, <2>1
  <2>3. CASE kind # "map"
    <3>1. ~HandsKeys
      BY <2>3 DEF HandsKeys
    <3>2. called.key = p
      BY <3>1, <2>1, <1>1, <1>5 DEF CountSound, p
    <3>3. Linear
      BY <2>3, <1>1, <1>5, KindFacts
    <3> QED BY <3>2, <3>3, <2>1, <1>3 DEF get
  <2> QED BY <2>2, <2>3
<1>6. ASSUME NEW x \in Values \cup Keys, index_of(x) # Nil
      PROVE  /\ at(index_of(x)) = IF kind = "map" THEN get(x) ELSE x
             /\ index_of(x) \in 1 .. n
  <2> DEFINE p == IF Linear THEN PlaceOf(x) ELSE Position(x)
  <2>1. index_of(x) = IF p = 0 THEN Nil ELSE p - 1 - index_adjustment
    BY DEF index_of, PlaceOf
  <2>2. p \in 0 .. n /\ (p # 0 => IF Linear THEN items[p].value = x ELSE items[p].key = x)
    <3> DEFINE a == PlaceOf(x)
               b == Position(x)
    <3>1. a \in 0 .. n /\ (a # 0 => items[a].value = x)
      BY <1>2, ValueFacts
    <3>2. b \in 0 .. n /\ (b # 0 => items[b].key = x)
      BY <1>2, PositionFacts
    <3>3. p = IF Linear THEN a ELSE b
      OBVIOUS
    <3> HIDE DEF a, b, p
    <3> QED BY <3>1, <3>2, <3>3
  <2> HIDE DEF p
  <2>3. p \in 1 .. n /\ index_of(x) = p
    BY <2>1, <2>2, <1>2, <1>6 DEF Nil, index_adjustment
  <2>4. CASE Linear
    BY <2>2, <2>3, <2>4, <1>2, <1>3 DEF Linear
  <2>5. CASE kind = "set"
    <3>1. ~Linear
      BY <2>5 DEF Linear
    <3> QED BY <3>1, <2>2, <2>3, <2>5, <1>1, <1>2, <1>3 DEF MembersSound
  <2>6. CASE kind = "map"
    <3>1. ~Linear /\ p # 0
      BY <2>3, <2>6, <1>2 DEF Linear
    <3>2. p = Position(x)
      BY <3>1 DEF p
    <3>3. get(x) = items[p].value
      BY <3>1, <3>2 DEF get
    <3> QED BY <3>3, <2>3, <2>6, <1>3
  <2> QED BY <2>4, <2>5, <2>6, <1>1, KindFacts
<1> QED BY <1>5, <1>6 DEF KeysReadBack

\* A traversal hands out each item that was there when it began, once.
THEOREM TraversalsAreWhole == Spec => []EachItemOnce
BY InvariantHolds, PTL DEF IInv

\* What a traversal hands out as k, v reads back as c[k] = v, and at() finds
\* what index_of() names.
THEOREM KeysAndValuesReadBack == Spec => []KeysReadBack
<1>1. Init => HandedOut
  BY DEF Init, HandedOut
<1>2. IInv /\ HandedOut /\ [Next]_vars => HandedOut'
  BY HandedOutSound
<1> QED BY <1>1, <1>2, InvariantHolds, ReadsBack, PTL DEF Spec
-----------------------------------------------------------------------------
(* Nothing is asked of C++ that it does not define.                        *)

\* A call that keeps the iterator leaves a traversal as valid as it was.
LEMMA KeptIterator ==
    ASSUME IInv, Guarded, NEW o, KeepsIterator(o), NEW grows \in BOOLEAN,
           loop' = LoopAfter(o, grows), owner' = owner
    PROVE  Guarded'
<1>1. CASE loop = NoLoop
  BY <1>1 DEF LoopAfter, Guarded
<1>2. CASE loop # NoLoop /\ o.what \notin {"place", "drop"}
  BY <1>2 DEF LoopAfter, Guarded
<1>3. CASE loop # NoLoop /\ o.what \in {"place", "drop"}
  <2>1. loop \in Traversal /\ loop.valid /\ owner = "held"
    BY <1>3, LoopFacts DEF IInv, Guarded
  <2>2. CASE o.what = "place"
    <3> DEFINE p == o.place
               q == loop.pos
               a == IF p <= q THEN q + 1 ELSE q
               b == ~(kind = "vector" /\ (grows \/ p <= q))
               c == p <= q
    <3>1. b
      BY <1>3, <2>2 DEF KeepsIterator
    <3>2. loop' = [loop EXCEPT !.pos = a, !.valid = @ /\ b, !.moved = @ \/ c]
      BY <1>3, <2>2 DEF LoopAfter
    <3> HIDE DEF a, b, c
    <3> QED BY <2>1, <3>1, <3>2 DEF Guarded, Traversal
  <2>3. CASE o.what = "drop"
    <3> DEFINE p == o.place
               q == loop.pos
               a == IF p < q THEN q - 1 ELSE q
               b == IF kind = "vector" THEN p > q ELSE p # q
               c == p < q
    <3>1. b
      BY <1>3, <2>3 DEF KeepsIterator
    <3>2. loop' = [loop EXCEPT !.pos = a, !.valid = @ /\ b, !.moved = @ \/ c]
      BY <1>3, <2>3 DEF LoopAfter
    <3> HIDE DEF a, b, c
    <3> QED BY <2>1, <3>1, <3>2 DEF Guarded, Traversal
  <2> QED BY <1>3, <2>2, <2>3
<1> QED BY <1>1, <1>2, <1>3

\* A call on a place there is, of a script that keeps to what is defined.
LEMMA DefinedCalls ==
    ASSUME IInv, NEW k \in Nat, NEW v \in Values
    PROVE  /\ add_copyable(k, v).what # "broken"
           /\ ~(kind = "forward_list" /\ items = <<>> /\ k = 1) => set_start(k, v).what # "broken"
           /\ (Linear => k \in 1 .. Len(items) + 1) => insert_copyable(k, v).what # "broken"
<1> DEFINE n == Len(items)
<1>1. TypeOK
  BY DEF IInv
<1>2. n \in Nat /\ items \in Seq(Item)
  BY <1>1, ItemsFacts DEF TypeOK
<1>3. /\ Nothing.what # "broken" /\ Error.what # "broken"
      /\ \A p, x : Place(p, x).what # "broken" /\ Write(p, x).what # "broken"
      /\ \A p : Drop(p).what # "broken"
  BY DEF Nothing, Error, Place, Write, Drop, Outcome
<1>4. ASSUME NEW j PROVE add_copyable(j, v).what # "broken"
  BY <1>1, <1>3, KindFacts DEF add_copyable
<1>5. ASSUME ~(kind = "forward_list" /\ items = <<>> /\ k = 1)
      PROVE  set_start(k, v).what # "broken"
  <2>1. CASE kind = "array"
    BY <2>1, <1>3 DEF set_start, set_array
  <2>2. CASE kind = "vector"
    <3>1. \/ set_random(k, v) = Error \/ set_random(k, v) = add_copyable(0, v)
          \/ \E p : set_random(k, v) = Write(p, Fresh(0, v))
      BY DEF set_random
    <3> QED BY <2>2, <3>1, <1>3, <1>4 DEF set_start
  <2>3. CASE kind \in {"list", "forward_list"}
    <3> DEFINE steps == IF k - 1 < 0 THEN 0 ELSE IF k - 1 > n THEN n ELSE k - 1
    <3>1. set_start(k, v) =
            IF steps < n THEN Write(steps + 1, Fresh(0, v))
            ELSE IF k - 1 # steps THEN Error
            ELSE IF kind = "list" THEN add_copyable(0, v)
            ELSE IF items = <<>> THEN Broken ELSE Place(steps + 1, Fresh(0, v))
      BY <2>3 DEF set_start, set_walking, index_adjustment
    <3>2. items = <<>> /\ ~(steps < n) /\ k - 1 = steps => k = 1
      <4>1. items = <<>> => n = 0
        OBVIOUS
      <4> QED BY <4>1, <1>2
    <3> HIDE DEF steps
    <3> QED BY <2>3, <3>1, <3>2, <1>3, <1>4, <1>5
  <2>4. CASE kind \in {"map", "set"}
    BY <2>4, <1>3 DEF set_start, set_found
  <2> QED BY <1>1, <2>1, <2>2, <2>3, <2>4, KindFacts
<1>6. ASSUME Linear => k \in 1 .. n + 1
      PROVE  insert_copyable(k, v).what # "broken"
  <2>1. CASE kind = "array"
    BY <2>1, <1>3 DEF insert_copyable
  <2>2. CASE kind \in {"map", "set"}
    BY <2>2, <1>4 DEF insert_copyable
  <2>3. CASE kind = "forward_list"
    <3>1. ~(k - 1 < 0) /\ ~(k - 1 > n)
      BY <2>3, <1>2, <1>6 DEF Linear
    <3>2. insert_copyable(k, v) = Place(k - 1 + 1, Fresh(0, v))
      BY <2>3, <3>1 DEF insert_copyable, index_adjustment
    <3> QED BY <3>2, <1>3
  <2>4. CASE kind \in {"vector", "list"}
    <3>1. k - 1 \in 0 .. n
      BY <2>4, <1>2, <1>6 DEF Linear
    <3>2. insert_copyable(k, v) = Place(k - 1 + 1, Fresh(0, v))
      BY <2>4, <3>1 DEF insert_copyable, index_adjustment
    <3> QED BY <3>2, <1>3
  <2> QED BY <1>1, <2>1, <2>2, <2>3, <2>4, KindFacts
<1> QED BY <1>4, <1>5, <1>6

LEMMA DefinedErase ==
    ASSUME IInv, NEW k \in Nat, Linear => k \in 1 .. Len(items)
    PROVE  erase_start(k).what # "broken"
<1> DEFINE n == Len(items)
<1>1. TypeOK
  BY DEF IInv
<1>2. n \in Nat
  BY <1>1, ItemsFacts
<1>3. Nothing.what # "broken" /\ Error.what # "broken" /\ \A p : Drop(p).what # "broken"
  BY DEF Nothing, Error, Drop, Outcome
<1>4. CASE kind = "array"
  BY <1>4, <1>3 DEF erase_start
<1>5. CASE kind \in {"map", "set"}
  BY <1>5, <1>3 DEF erase_start
<1>6. CASE kind = "forward_list"
  <2>1. ~(k - 1 < 0) /\ k - 1 < n
    BY <1>2, <1>6 DEF Linear
  <2>2. erase_start(k) = Drop(k - 1 + 1)
    BY <1>6, <2>1 DEF erase_start, index_adjustment
  <2> QED BY <2>2, <1>3
<1>7. CASE kind \in {"vector", "list"}
  <2>1. k - 1 \in 0 .. n - 1
    BY <1>2, <1>7 DEF Linear
  <2>2. erase_start(k) = Drop(k - 1 + 1)
    BY <1>7, <2>1 DEF erase_start, index_adjustment
  <2> QED BY <2>2, <1>3
<1> QED BY <1>1, <1>4, <1>5, <1>6, <1>7, KindFacts

\* Nothing in the code sees to it that the arguments are places there are.
LEMMA GuardedSound ==
    ASSUME KeepsToDefined, IInv, Guarded, ~undefined, [Next]_vars
    PROVE  Guarded' /\ ~undefined'
<1>1. \A u \in {"out_of_range", "empty_forward", "break_loop", "drop"} : u \notin Uses
  BY DEF KeepsToDefined
<1>2. ASSUME NEW op, NEW k, NEW v, NEW o, o.what # "broken", Perform(op, k, v, o)
      PROVE  Guarded' /\ ~undefined'
  <2>1. KeepsIterator(o) /\ owner' = owner /\ ~undefined'
    BY <1>1, <1>2 DEF Perform
  <2>2. PICK grows \in BOOLEAN : loop' = LoopAfter(o, grows)
    BY <1>2 DEF Perform
  <2> QED BY <2>1, <2>2, KeptIterator
<1>3. \A k \in 0 .. MaxSize + 2 : k \in Nat
  BY ContainersAssumption
<1>4. ASSUME NEW k \in 0 .. MaxSize + 2, NEW v \in Values, Set(k, v)
      PROVE  Guarded' /\ ~undefined'
  <2>1. ~(kind = "forward_list" /\ items = <<>> /\ k = 1)
    BY <1>1, <1>4 DEF Set
  <2> QED BY <2>1, <1>2, <1>3, <1>4, DefinedCalls DEF Set
<1>5. ASSUME NEW k \in 0 .. MaxSize + 2, NEW v \in Values, Insert(k, v)
      PROVE  Guarded' /\ ~undefined'
  <2>1. Linear => k \in 1 .. Len(items) + 1
    BY <1>1, <1>5 DEF Insert, Within
  <2> QED BY <2>1, <1>2, <1>3, <1>5, DefinedCalls DEF Insert
<1>6. ASSUME NEW k \in Nat, NEW v \in Values, Add(k, v)
      PROVE  Guarded' /\ ~undefined'
  BY <1>2, <1>6, DefinedCalls DEF Add
<1>7. ASSUME NEW k \in 0 .. MaxSize + 2, Erase(k)
      PROVE  Guarded' /\ ~undefined'
  <2>1. Linear => k \in 1 .. Len(items)
    BY <1>1, <1>7 DEF Erase, Within
  <2>2. erase_start(k).what # "broken"
    BY <2>1, <1>3, DefinedErase
  <2> QED BY <2>1, <2>2, <1>2, <1>3, <1>7 DEF Erase
<1>8. CASE Clear
  BY <1>1, <1>8 DEF Clear, Guarded
<1>9. ASSUME NEW counts \in BOOLEAN, Begin(counts)
      PROVE  Guarded' /\ ~undefined'
  BY <1>9 DEF Begin, Guarded
<1>10. CASE Next_iter
  <2>1. loop # NoLoop /\ loop.valid /\ owner = "held"
    BY <1>10 DEF Next_iter, Guarded
  <2>2. undefined' = undefined /\ owner' = owner
    BY <1>10, <2>1 DEF Next_iter
  <2>3. loop' # NoLoop => loop'.valid
    <3> SUFFICES ASSUME loop' # NoLoop PROVE loop'.valid
      OBVIOUS
    <3> DEFINE r == loop.pos + 1
               c == KeyOf(items[loop.pos])
    <3>1. loop' = [loop EXCEPT !.pos = r, !.control = c]
      BY <1>10, <2>2, HandOutFacts
    <3>2. loop \in Traversal
      BY <2>1, LoopFacts DEF IInv
    <3> HIDE DEF r, c
    <3> QED BY <3>1, <3>2, <2>1 DEF Traversal
  <2> QED BY <2>1, <2>2, <2>3 DEF Guarded
<1>11. CASE Break
  BY <1>11 DEF Break, Guarded
<1>12. CASE LetGo
  BY <1>1, <1>12 DEF LetGo, Guarded
<1>13. CASE Collect
  BY <1>13 DEF Collect, Guarded
<1>14. CASE UNCHANGED vars
  BY <1>14 DEF vars, Guarded
<1>15. ASSUME NEW k \in 0 .. MaxSize + 2, NEW v \in Values
       PROVE  (CASE Linear -> 0 [] kind = "set" -> v [] OTHER -> k) \in Nat
  BY <1>3, ContainersAssumption
<1> QED BY <1>4, <1>5, <1>6, <1>7, <1>8, <1>9, <1>10, <1>11, <1>12, <1>13, <1>14, <1>15 DEF Next

\* A script that names places there are, and leaves the item alone that a
\* traversal comes to next, asks nothing of C++ that is not defined.
THEOREM ContainersStayDefined == KeepsToDefined => (Spec => []NothingUndefined)
<1> SUFFICES ASSUME KeepsToDefined PROVE Spec => []NothingUndefined
  OBVIOUS
<1>1. Init => Guarded /\ ~undefined
  BY DEF Init, Guarded
<1>2. IInv /\ Guarded /\ ~undefined /\ [Next]_vars => Guarded' /\ ~undefined'
  BY GuardedSound
<1>3. IInv /\ ~undefined => NothingUndefined
  BY DEF IInv, NothingUndefined
<1> QED BY <1>1, <1>2, <1>3, InvariantHolds, PTL DEF Spec
-----------------------------------------------------------------------------
(* One list or one table.                                                  *)

\* What scripts see of a list.
LEMMA ContentsFacts ==
    ASSUME NEW s \in Seq(Item)
    PROVE  /\ Contents(s) \in Seq(Values \cup Keys) /\ Len(Contents(s)) = Len(s)
           /\ DOMAIN Contents(s) = 1 .. Len(s)
           /\ \A i \in 1 .. Len(s) : Contents(s)[i] = s[i].value
<1> DEFINE V == Values \cup Keys
           c == Contents(s)
           n == Len(s)
<1>1. n \in Nat /\ DOMAIN s = 1 .. n /\ \A i \in 1 .. n : s[i] \in Item
  BY LenProperties
<1>2. c = [i \in 1 .. n |-> s[i].value]
  BY <1>1 DEF Contents
<1>3. \A i \in 1 .. n : s[i].value \in V
  BY <1>1 DEF Item
<1> HIDE DEF c, V
<1>4. c \in [1 .. n -> V] /\ DOMAIN c = 1 .. n /\ \A i \in 1 .. n : c[i] = s[i].value
  BY <1>2, <1>3
<1>5. c \in Seq(V)
  BY <1>1, <1>4, SeqDef
<1>6. Len(c) = n
  <2> DEFINE m == Len(c)
  <2>1. m \in Nat /\ 1 .. m = 1 .. n
    BY <1>4, <1>5, LenProperties
  <2> HIDE DEF m, n
  <2>2. (m \in 1 .. m \/ m = 0) /\ (n \in 1 .. n \/ n = 0)
    BY <2>1, <1>1
  <2>3. (m \in 1 .. n \/ m = 0) /\ (n \in 1 .. m \/ n = 0)
    BY <2>2, <2>1
  <2>4. m = n
    BY <2>1, <2>3, <1>1
  <2> QED BY <2>4 DEF m
<1> QED BY <1>4, <1>5, <1>6 DEF c, V

LEMMA PlaceContents ==
    ASSUME NEW s \in Seq(Item), NEW p \in 1 .. Len(s) + 1, NEW x \in Item
    PROVE  /\ Contents(InsertAt(s, p, x)) = InsertAt(Contents(s), p, x.value)
           /\ p = Len(s) + 1 => Contents(InsertAt(s, p, x)) = Append(Contents(s), x.value)
<1> DEFINE V == Values \cup Keys
           c == Contents(s)
           t == InsertAt(s, p, x)
           d == Contents(t)
           v == x.value
           n == Len(s)
<1>1. n \in Nat /\ v \in V
  BY LenProperties DEF Item
<1>2. c \in Seq(V) /\ Len(c) = n /\ \A i \in 1 .. n : c[i] = s[i].value
  BY ContentsFacts
<1>3. /\ t \in Seq(Item) /\ Len(t) = n + 1
      /\ \A i \in 1 .. n + 1 : t[i] = IF i < p THEN s[i] ELSE IF i = p THEN x ELSE s[i - 1]
  <2>1. InsertAt(s, p, x) \in Seq(Item) /\ Inserted(InsertAt(s, p, x), s, p, x)
    BY InsertFacts
  <2> HIDE DEF n
  <2> QED BY <2>1 DEF Inserted, n
<1> HIDE DEF t
<1>4. d \in Seq(V) /\ Len(d) = n + 1 /\ \A i \in 1 .. n + 1 : d[i] = t[i].value
  BY <1>3, ContentsFacts
<1> HIDE DEF c, d, v, V, n
<1>5. \A i \in 1 .. n + 1 : d[i] = IF i < p THEN c[i] ELSE IF i = p THEN v ELSE c[i - 1]
  <2> SUFFICES ASSUME NEW i \in 1 .. n + 1
               PROVE  d[i] = IF i < p THEN c[i] ELSE IF i = p THEN v ELSE c[i - 1]
    OBVIOUS
  <2>1. d[i] = t[i].value
    BY <1>4
  <2>2. i < p => i \in 1 .. n
    BY <1>1 DEF n
  <2>3. ~(i < p) /\ i # p => i - 1 \in 1 .. n
    BY <1>1 DEF n
  <2> QED BY <2>1, <2>2, <2>3, <1>2, <1>3 DEF v
<1>6. d = InsertAt(c, p, v)
  <2>1. p \in 1 .. Len(c) + 1
    BY <1>2 DEF n
  <2>2. /\ InsertAt(c, p, v) \in Seq(V) /\ Len(InsertAt(c, p, v)) = Len(c) + 1
        /\ \A i \in 1 .. Len(c) + 1 :
              InsertAt(c, p, v)[i] = IF i < p THEN c[i] ELSE IF i = p THEN v ELSE c[i - 1]
    <3>1. InsertAt(c, p, v) \in Seq(V) /\ Inserted(InsertAt(c, p, v), c, p, v)
      BY <2>1, <1>1, <1>2, InsertFacts
    <3> QED BY <3>1 DEF Inserted
  <2> DEFINE e == InsertAt(c, p, v)
  <2>3. e \in Seq(V) /\ Len(d) = Len(e) /\ \A i \in 1 .. Len(d) : d[i] = e[i]
    BY <2>2, <1>2, <1>4, <1>5
  <2> HIDE DEF e
  <2>4. d = e
    BY <2>3, <1>4, SeqEqual
  <2> QED BY <2>4 DEF e
<1>7. ASSUME p = n + 1
      PROVE  d = Append(c, v)
  <2> DEFINE e == Append(c, v)
  <2>1. /\ e \in Seq(V) /\ Len(e) = n + 1
        /\ \A i \in 1 .. n + 1 : e[i] = IF i = n + 1 THEN v ELSE c[i]
    BY <1>1, <1>2
  <2>2. \A i \in 1 .. n + 1 : d[i] = IF i = n + 1 THEN v ELSE c[i]
    BY <1>1, <1>5, <1>7
  <2>3. Len(d) = Len(e) /\ \A i \in 1 .. Len(d) : d[i] = e[i]
    BY <2>1, <2>2, <1>4
  <2> HIDE DEF e
  <2>4. d = e
    BY <2>1, <2>3, <1>4, SeqEqual
  <2> QED BY <2>4 DEF e
<1> QED BY <1>6, <1>7 DEF t, d, c, v, n

LEMMA DropContents ==
    ASSUME NEW s \in Seq(Item), NEW p \in 1 .. Len(s)
    PROVE  Contents(RemoveAt(s, p)) = RemoveAt(Contents(s), p)
<1> DEFINE V == Values \cup Keys
           c == Contents(s)
           t == RemoveAt(s, p)
           d == Contents(t)
           e == RemoveAt(c, p)
           n == Len(s)
<1>1. n \in Nat
  BY LenProperties
<1>2. c \in Seq(V) /\ Len(c) = n /\ \A i \in 1 .. n : c[i] = s[i].value
  BY ContentsFacts
<1>3. /\ t \in Seq(Item) /\ Len(t) = n - 1
      /\ \A i \in 1 .. n - 1 : t[i] = IF i < p THEN s[i] ELSE s[i + 1]
  BY RemoveFacts
<1> HIDE DEF t
<1>4. d \in Seq(V) /\ Len(d) = n - 1 /\ \A i \in 1 .. n - 1 : d[i] = t[i].value
  BY <1>3, ContentsFacts
<1> HIDE DEF c, d, V
<1>5. /\ e \in Seq(V) /\ Len(e) = n - 1
      /\ \A i \in 1 .. n - 1 : e[i] = IF i < p THEN c[i] ELSE c[i + 1]
  <2>1. p \in 1 .. Len(c)
    BY <1>2
  <2>2. /\ RemoveAt(c, p) \in Seq(V) /\ Len(RemoveAt(c, p)) = Len(c) - 1
        /\ \A i \in 1 .. Len(c) - 1 : RemoveAt(c, p)[i] = IF i < p THEN c[i] ELSE c[i + 1]
    BY <2>1, <1>2, RemoveFacts
  <2> QED BY <2>2, <1>2
<1> HIDE DEF e
<1>6. \A i \in 1 .. n - 1 : d[i] = e[i]
  <2> SUFFICES ASSUME NEW i \in 1 .. n - 1 PROVE d[i] = e[i]
    OBVIOUS
  <2>1. i \in 1 .. n /\ i + 1 \in 1 .. n
    BY <1>1
  <2> QED BY <2>1, <1>2, <1>3, <1>4, <1>5
<1>7. d = e
  BY <1>4, <1>5, <1>6, SeqEqual
<1> QED BY <1>7 DEF d, t, e, c

LEMMA WriteContents ==
    ASSUME NEW s \in Seq(Item), NEW t \in Seq(Item), NEW p \in 1 .. Len(s), NEW v \in Values,
           Len(t) = Len(s),
           \A i \in 1 .. Len(s) : t[i].value = IF i = p THEN v ELSE s[i].value
    PROVE  Contents(t) = [Contents(s) EXCEPT ![p] = v]
<1> DEFINE V == Values \cup Keys
           c == Contents(s)
           d == Contents(t)
           n == Len(s)
<1>1. c \in Seq(V) /\ Len(c) = n /\ \A i \in 1 .. n : c[i] = s[i].value
  BY ContentsFacts
<1>2. d \in Seq(V) /\ Len(d) = n /\ \A i \in 1 .. n : d[i] = t[i].value
  BY ContentsFacts
<1>3. v \in V /\ p \in 1 .. Len(c)
  BY <1>1
<1> HIDE DEF c, d, V
<1>4. /\ [c EXCEPT ![p] = v] \in Seq(V) /\ Len([c EXCEPT ![p] = v]) = Len(c)
      /\ \A j \in 1 .. Len(c) : [c EXCEPT ![p] = v][j] = IF j = p THEN v ELSE c[j]
  BY <1>1, <1>3, ExceptSeq
<1>5. \A i \in 1 .. Len(d) : d[i] = [c EXCEPT ![p] = v][i]
  BY <1>1, <1>2, <1>4
<1>6. d = [c EXCEPT ![p] = v]
  <2> DEFINE e == [c EXCEPT ![p] = v]
  <2>1. e \in Seq(V) /\ Len(d) = Len(e) /\ \A i \in 1 .. Len(d) : d[i] = e[i]
    BY <1>1, <1>2, <1>4, <1>5
  <2> HIDE DEF e
  <2>2. d = e
    BY <2>1, <1>2, SeqEqual
  <2> QED BY <2>2 DEF e
<1> QED BY <1>6 DEF c, d

\* Marks are not seen.
LEMMA SameContents ==
    ASSUME NEW s \in Seq(Item), NEW t \in Seq(Item), Len(t) = Len(s),
           \A i \in 1 .. Len(s) : t[i].value = s[i].value
    PROVE  Contents(t) = Contents(s)
<1>1. DOMAIN s = 1 .. Len(s) /\ DOMAIN t = 1 .. Len(s)
  BY LenProperties
<1> QED BY <1>1 DEF Contents

\* What scripts see of a table: each key has one value.
InKeyOrder(s) == \A i, j \in 1 .. Len(s) : i < j => s[i].key < s[j].key

LEMMA MappingFacts ==
    ASSUME NEW s \in Seq(Item), InKeyOrder(s)
    PROVE  /\ Mapping(s) = [k \in {s[i].key : i \in 1 .. Len(s)} |-> Mapping(s)[k]]
           /\ DOMAIN Mapping(s) = {s[i].key : i \in 1 .. Len(s)}
           /\ \A i \in 1 .. Len(s) : Mapping(s)[s[i].key] = s[i].value
           /\ \A i, j \in 1 .. Len(s) : s[i].key = s[j].key => i = j
<1> DEFINE n == Len(s)
           K == {s[i].key : i \in 1 .. n}
           The(k) == CHOOSE x \in ToSet(s) : x.key = k
<1>1. n \in Nat /\ DOMAIN s = 1 .. n /\ \A i \in 1 .. n : s[i] \in Item
  BY LenProperties
<1>2. \A i \in 1 .. n : s[i].key \in Nat
  <2>1. Keys \cup Values \cup {0} \subseteq Nat
    BY ContainersAssumption DEF Keys
  <2>2. \A x \in Item : x.key \in Nat
    BY <2>1 DEF Item
  <2> QED BY <2>2, <1>1
<1>3. \A i, j \in 1 .. n : s[i].key = s[j].key => i = j
  <2> SUFFICES ASSUME NEW i \in 1 .. n, NEW j \in 1 .. n, s[i].key = s[j].key PROVE i = j
    OBVIOUS
  <2>1. ~(i < j) /\ ~(j < i)
    BY <1>2 DEF InKeyOrder
  <2> QED BY <2>1, <1>1
<1>4. Mapping(s) = [k \in K |-> The(k).value]
  BY <1>1 DEF Mapping
<1>5. ToSet(s) = {s[i] : i \in 1 .. n}
  BY <1>1 DEF ToSet
<1>6. ASSUME NEW i \in 1 .. n PROVE The(s[i].key) = s[i]
  <2>1. \E x \in ToSet(s) : x.key = s[i].key
    BY <1>5
  <2>2. The(s[i].key) \in ToSet(s) /\ The(s[i].key).key = s[i].key
    BY <2>1
  <2> HIDE DEF The
  <2>3. PICK j \in 1 .. n : The(s[i].key) = s[j]
    BY <2>2, <1>5
  <2> QED BY <2>2, <2>3, <1>3
<1> HIDE DEF The
<1>7. DOMAIN Mapping(s) = K /\ \A i \in 1 .. n : Mapping(s)[s[i].key] = s[i].value
  BY <1>4, <1>6
<1>8. Mapping(s) = [k \in K |-> Mapping(s)[k]]
  BY <1>4
<1> QED BY <1>3, <1>7, <1>8
\* A table with v for k.
With(f, k, v) == [y \in DOMAIN f \cup {k} |-> IF y = k THEN v ELSE f[y]]

\* A table without one for k.
Without(f, k) == [y \in DOMAIN f \ {k} |-> f[y]]

LEMMA PlaceMapping ==
    ASSUME NEW s \in Seq(Item), NEW t \in Seq(Item), NEW p \in 1 .. Len(s) + 1, NEW x \in Item,
           Inserted(t, s, p, x), InKeyOrder(s), InKeyOrder(t)
    PROVE  Mapping(t) = With(Mapping(s), x.key, x.value)
<1> DEFINE n == Len(s)
           f == Mapping(s)
           g == Mapping(t)
           D == DOMAIN f \cup {x.key}
<1>1. n \in Nat
  BY LenProperties
<1>2. /\ Len(t) = n + 1
      /\ \A i \in 1 .. n + 1 : t[i] = IF i < p THEN s[i] ELSE IF i = p THEN x ELSE s[i - 1]
  BY DEF Inserted
<1>3. /\ DOMAIN f = {s[i].key : i \in 1 .. n} /\ \A i \in 1 .. n : f[s[i].key] = s[i].value
      /\ \A i, j \in 1 .. n : s[i].key = s[j].key => i = j
  BY MappingFacts
<1>4. /\ g = [k \in DOMAIN g |-> g[k]] /\ DOMAIN g = {t[i].key : i \in 1 .. n + 1}
      /\ \A i \in 1 .. n + 1 : g[t[i].key] = t[i].value
      /\ \A i, j \in 1 .. n + 1 : t[i].key = t[j].key => i = j
  BY <1>2, MappingFacts
<1> HIDE DEF n, f, g
\* Where an item is then.
<1>5. ASSUME NEW i \in 1 .. n
      PROVE  \E j \in 1 .. n + 1 : t[j] = s[i] /\ j # p
  <2>1. CASE i < p
    <3>1. i \in 1 .. n + 1 /\ i # p
      BY <2>1, <1>1
    <3> QED BY <3>1, <2>1, <1>2
  <2>2. CASE ~(i < p)
    <3>1. i + 1 \in 1 .. n + 1 /\ ~(i + 1 < p) /\ i + 1 # p /\ i + 1 - 1 = i
      BY <2>2, <1>1
    <3>2. t[i + 1] = s[i + 1 - 1]
      BY <3>1, <1>2
    <3> QED BY <3>1, <3>2
  <2> QED BY <2>1, <2>2
<1>6. p \in 1 .. n + 1 /\ t[p] = x
  BY <1>1, <1>2 DEF n
<1>7. ASSUME NEW j \in 1 .. n + 1, j # p
      PROVE  \E i \in 1 .. n : t[j] = s[i]
  <2>1. CASE j < p
    <3>1. j \in 1 .. n
      BY <2>1, <1>1 DEF n
    <3> QED BY <3>1, <2>1, <1>2
  <2>2. CASE ~(j < p)
    <3>1. j - 1 \in 1 .. n
      BY <2>2, <1>1, <1>7 DEF n
    <3> QED BY <3>1, <2>2, <1>2, <1>7
  <2> QED BY <2>1, <2>2
<1>8. DOMAIN g = D
  <2>1. ASSUME NEW k \in DOMAIN g PROVE k \in D
    <3>1. PICK j \in 1 .. n + 1 : k = t[j].key
      BY <2>1, <1>4
    <3>2. j # p => \E i \in 1 .. n : t[j] = s[i]
      BY <1>7
    <3> QED BY <3>1, <3>2, <1>3, <1>6
  <2>2. ASSUME NEW k \in DOMAIN f PROVE k \in DOMAIN g
    <3>1. PICK i \in 1 .. n : k = s[i].key
      BY <2>2, <1>3
    <3>2. PICK j \in 1 .. n + 1 : t[j] = s[i]
      BY <1>5
    <3> QED BY <3>1, <3>2, <1>4
  <2>3. x.key \in DOMAIN g
    BY <1>4, <1>6
  <2> QED BY <2>1, <2>2, <2>3
<1>9. ASSUME NEW k \in D
      PROVE  g[k] = IF k = x.key THEN x.value ELSE f[k]
  <2>1. CASE k = x.key
    BY <2>1, <1>4, <1>6
  <2>2. CASE k # x.key
    <3>1. PICK i \in 1 .. n : k = s[i].key
      BY <2>2, <1>3
    <3>2. PICK j \in 1 .. n + 1 : t[j] = s[i]
      BY <1>5
    <3>3. g[t[j].key] = t[j].value /\ f[s[i].key] = s[i].value
      BY <1>3, <1>4
    <3>4. g[k] = f[k]
      BY <3>1, <3>2, <3>3
    <3> QED BY <2>2, <3>4
  <2> QED BY <2>1, <2>2
<1>10. g = [k \in D |-> g[k]]
  BY <1>4, <1>8
<1>11. g = [k \in D |-> IF k = x.key THEN x.value ELSE f[k]]
  <2> HIDE DEF D
  <2> QED BY <1>9, <1>10
<1> QED BY <1>11 DEF f, g, With

LEMMA DropMapping ==
    ASSUME NEW s \in Seq(Item), NEW p \in 1 .. Len(s),
           InKeyOrder(s), InKeyOrder(RemoveAt(s, p))
    PROVE  Mapping(RemoveAt(s, p)) = Without(Mapping(s), s[p].key)
<1> DEFINE n == Len(s)
           t == RemoveAt(s, p)
           f == Mapping(s)
           g == Mapping(t)
           D == DOMAIN f \ {s[p].key}
<1>1. n \in Nat
  BY LenProperties
<1>2. /\ t \in Seq(Item) /\ Len(t) = n - 1
      /\ \A i \in 1 .. n - 1 : t[i] = IF i < p THEN s[i] ELSE s[i + 1]
  BY RemoveFacts
<1> HIDE DEF t
<1>3. /\ DOMAIN f = {s[i].key : i \in 1 .. n} /\ \A i \in 1 .. n : f[s[i].key] = s[i].value
      /\ \A i, j \in 1 .. n : s[i].key = s[j].key => i = j
  BY MappingFacts
<1>4. /\ g = [k \in DOMAIN g |-> g[k]] /\ DOMAIN g = {t[i].key : i \in 1 .. n - 1}
      /\ \A i \in 1 .. n - 1 : g[t[i].key] = t[i].value
  <2>1. InKeyOrder(t)
    BY DEF t
  <2> QED BY <2>1, <1>2, MappingFacts
<1> HIDE DEF n, f, g
<1>5. ASSUME NEW i \in 1 .. n, i # p
      PROVE  \E j \in 1 .. n - 1 : t[j] = s[i]
  <2>1. CASE i < p
    <3>1. i \in 1 .. n - 1
      BY <2>1, <1>1 DEF n
    <3> QED BY <3>1, <2>1, <1>2
  <2>2. CASE ~(i < p)
    <3>1. i - 1 \in 1 .. n - 1 /\ ~(i - 1 < p) /\ i - 1 + 1 = i
      BY <2>2, <1>1, <1>5 DEF n
    <3>2. t[i - 1] = s[i - 1 + 1]
      BY <3>1, <1>2
    <3> QED BY <3>1, <3>2
  <2> QED BY <2>1, <2>2
<1>6. ASSUME NEW j \in 1 .. n - 1
      PROVE  \E i \in 1 .. n : t[j] = s[i] /\ i # p
  <2>1. CASE j < p
    <3>1. j \in 1 .. n /\ j # p
      BY <2>1, <1>1 DEF n
    <3> QED BY <3>1, <2>1, <1>2
  <2>2. CASE ~(j < p)
    <3>1. j + 1 \in 1 .. n /\ j + 1 # p
      BY <2>2, <1>1 DEF n
    <3> QED BY <3>1, <2>2, <1>2
  <2> QED BY <2>1, <2>2
<1>7. p \in 1 .. n
  BY DEF n
<1>8. DOMAIN g = D
  <2>1. ASSUME NEW k \in DOMAIN g PROVE k \in D
    <3>1. PICK j \in 1 .. n - 1 : k = t[j].key
      BY <2>1, <1>4
    <3>2. PICK i \in 1 .. n : t[j] = s[i] /\ i # p
      BY <1>6
    <3>3. k = s[i].key /\ k \in DOMAIN f
      BY <3>1, <3>2, <1>3
    <3>4. k # s[p].key
      BY <3>2, <3>3, <1>3, <1>7
    <3> QED BY <3>3, <3>4
  <2>2. ASSUME NEW k \in D PROVE k \in DOMAIN g
    <3>1. PICK i \in 1 .. n : k = s[i].key
      BY <2>2, <1>3
    <3>2. PICK j \in 1 .. n - 1 : t[j] = s[i]
      BY <3>1, <2>2, <1>5
    <3> QED BY <3>1, <3>2, <1>4
  <2> QED BY <2>1, <2>2
<1>9. ASSUME NEW k \in D PROVE g[k] = f[k]
  <2>1. PICK i \in 1 .. n : k = s[i].key
    BY <1>3
  <2>2. PICK j \in 1 .. n - 1 : t[j] = s[i]
    BY <2>1, <1>5
  <2> QED BY <2>1, <2>2, <1>3, <1>4, SMTT(60)
<1>10. g = [k \in D |-> g[k]]
  BY <1>4, <1>8
<1>11. g = [k \in D |-> f[k]]
  <2> HIDE DEF D
  <2> QED BY <1>9, <1>10
<1> QED BY <1>11 DEF f, g, t, Without

\* Writing the value v at p; no place of the sequence, writing nothing.
LEMMA WriteMapping ==
    ASSUME NEW s \in Seq(Item), NEW t \in Seq(Item), NEW p \in Nat, NEW v,
           Len(t) = Len(s), InKeyOrder(s),
           \A i \in 1 .. Len(s) :
              t[i].key = s[i].key /\ t[i].value = IF i = p THEN v ELSE s[i].value
    PROVE  /\ p \in 1 .. Len(s) => Mapping(t) = With(Mapping(s), s[p].key, v)
           /\ p = 0 => Mapping(t) = Mapping(s)
<1> DEFINE n == Len(s)
           f == Mapping(s)
           g == Mapping(t)
           D == DOMAIN f
<1>1. InKeyOrder(t)
  BY DEF InKeyOrder
<1>2. /\ f = [k \in D |-> f[k]]
      /\ D = {s[i].key : i \in 1 .. n} /\ \A i \in 1 .. n : f[s[i].key] = s[i].value
      /\ \A i, j \in 1 .. n : s[i].key = s[j].key => i = j
  BY MappingFacts
<1>3. /\ g = [k \in DOMAIN g |-> g[k]] /\ DOMAIN g = {t[i].key : i \in 1 .. n}
      /\ \A i \in 1 .. n : g[t[i].key] = t[i].value
  BY <1>1, MappingFacts
<1> HIDE DEF n, f, g
<1>4. DOMAIN g = D
  BY <1>2, <1>3, SMTT(30) DEF n
<1>5. g = [k \in D |-> g[k]]
  BY <1>3, <1>4
<1>6. ASSUME NEW i \in 1 .. n PROVE g[s[i].key] = IF i = p THEN v ELSE f[s[i].key]
  BY <1>2, <1>3 DEF n
<1> HIDE DEF D
<1>7. ASSUME p \in 1 .. n
      PROVE  g = [y \in D \cup {s[p].key} |-> IF y = s[p].key THEN v ELSE f[y]]
  <2>1. D \cup {s[p].key} = D
    BY <1>2, <1>7
  <2>2. ASSUME NEW y \in D PROVE g[y] = IF y = s[p].key THEN v ELSE f[y]
    <3>1. PICK i \in 1 .. n : y = s[i].key
      BY <1>2
    <3>2. y = s[p].key <=> i = p
      BY <3>1, <1>2, <1>7
    <3> QED BY <3>1, <3>2, <1>6
  <2> QED BY <2>1, <2>2, <1>5
<1>8. ASSUME p = 0
      PROVE  g = f
  <2>1. ASSUME NEW y \in D PROVE g[y] = f[y]
    <3>1. PICK i \in 1 .. n : y = s[i].key
      BY <1>2
    <3>2. i # p
      BY <1>8
    <3> QED BY <3>1, <3>2, <1>6
  <2> QED BY <2>1, <1>2, <1>5
<1> QED BY <1>7, <1>8 DEF f, g, n, D, With
\* What a call does, told with what scripts see.
LEMMA PerformSeen ==
    ASSUME IInv, NEW op, NEW k, NEW v, NEW o, Proper(o), Perform(op, k, v, o)
    PROVE  LET old == Contents(items)  new == Contents(items')
               from == Mapping(items)  to == Mapping(items') IN
           /\ called' = [op |-> op, key |-> k, value |-> v, ok |-> o.ok]
           /\ o.what = "nothing" => items' = items
           /\ Places(o) =>
                 /\ new = InsertAt(old, o.place, o.item.value)
                 /\ o.place = Len(items) + 1 => new = Append(old, o.item.value)
                 /\ ~Linear => to = With(from, o.item.key, o.item.value)
           /\ Drops(o) =>
                 /\ new = RemoveAt(old, o.place)
                 /\ ~Linear => to = Without(from, items[o.place].key)
           /\ Writes(o) =>
                 /\ new = [old EXCEPT ![o.place] = o.item.value]
                 /\ ~Linear => to = With(from, items[o.place].key, o.item.value)
<1> DEFINE p == o.place
           x == o.item
<1>1. items' = ItemsAfter(o) /\ called' = [op |-> op, key |-> k, value |-> v, ok |-> o.ok]
  BY DEF Perform, Call
<1>2. TypeOK /\ items \in Seq(Item) /\ Len(items) \in Nat
  BY ItemsFacts DEF IInv, TypeOK
<1>3. ~Linear => InKeyOrder(items) /\ InKeyOrder(items')
  <2>1. IInv' /\ kind' = kind
    BY PerformSound DEF Perform
  <2>2. items' \in Seq(Item)
    BY <2>1 DEF IInv, TypeOK
  <2>3. DOMAIN items = 1 .. Len(items) /\ DOMAIN items' = 1 .. Len(items')
    BY <1>2, <2>2, LenProperties
  <2>4. Linear' = Linear
    BY <2>1 DEF Linear
  <2> QED BY <1>2, <2>1, <2>3, <2>4 DEF IInv, TypeOK, InKeyOrder
<1>4. o.what = "nothing" => items' = items
  BY <1>1 DEF ItemsAfter
<1>5. ASSUME Places(o)
      PROVE  /\ Contents(items') = InsertAt(Contents(items), p, x.value)
             /\ p = Len(items) + 1 => Contents(items') = Append(Contents(items), x.value)
             /\ ~Linear => Mapping(items') = With(Mapping(items), x.key, x.value)
  <2>1. p \in 1 .. Len(items) + 1 /\ x \in Item /\ items' = InsertAt(items, p, x)
    BY <1>1, <1>5 DEF Places, ItemsAfter
  <2> HIDE DEF p, x
  <2>2. InsertAt(items, p, x) \in Seq(Item) /\ Inserted(InsertAt(items, p, x), items, p, x)
    BY <1>2, <2>1, InsertFacts
  <2>3. /\ Contents(InsertAt(items, p, x)) = InsertAt(Contents(items), p, x.value)
        /\ p = Len(items) + 1 => Contents(InsertAt(items, p, x)) = Append(Contents(items), x.value)
    BY <1>2, <2>1, PlaceContents
  <2>4. ASSUME ~Linear
        PROVE  Mapping(InsertAt(items, p, x)) = With(Mapping(items), x.key, x.value)
    <3>1. InKeyOrder(items) /\ InKeyOrder(InsertAt(items, p, x))
      BY <1>3, <2>1, <2>4
    <3> QED BY <3>1, <1>2, <2>1, <2>2, PlaceMapping
  <2> QED BY <2>1, <2>3, <2>4
<1>6. ASSUME Drops(o)
      PROVE  /\ Contents(items') = RemoveAt(Contents(items), p)
             /\ ~Linear => Mapping(items') = Without(Mapping(items), items[p].key)
  <2>1. p \in 1 .. Len(items) /\ items' = RemoveAt(items, p)
    BY <1>1, <1>6 DEF Drops, ItemsAfter
  <2> HIDE DEF p
  <2>2. Contents(RemoveAt(items, p)) = RemoveAt(Contents(items), p)
    BY <1>2, <2>1, DropContents
  <2>3. ASSUME ~Linear
        PROVE  Mapping(RemoveAt(items, p)) = Without(Mapping(items), items[p].key)
    <3>1. InKeyOrder(items) /\ InKeyOrder(RemoveAt(items, p))
      BY <1>3, <2>1, <2>3
    <3> QED BY <3>1, <1>2, <2>1, DropMapping
  <2> QED BY <2>1, <2>2, <2>3
<1>7. ASSUME Writes(o)
      PROVE  /\ Contents(items') = [Contents(items) EXCEPT ![p] = x.value]
             /\ ~Linear => Mapping(items') = With(Mapping(items), items[p].key, x.value)
  <2> DEFINE w == x.value
  <2>1. p \in 1 .. Len(items) /\ w \in Values
    BY <1>7 DEF Writes
  <2>2. /\ items' \in Seq(Item) /\ Len(items') = Len(items)
        /\ \A i \in 1 .. Len(items) :
              /\ items'[i].key = items[i].key
              /\ items'[i].value = IF i = p THEN w ELSE items[i].value
    BY <1>1, <1>7, WriteFacts
  <2> HIDE DEF p, w
  <2> DEFINE t == items'
  <2>3. Contents(t) = [Contents(items) EXCEPT ![p] = w]
    BY <1>2, <2>1, <2>2, WriteContents
  <2>4. ASSUME ~Linear
        PROVE  Mapping(t) = With(Mapping(items), items[p].key, w)
    <3>1. InKeyOrder(items) /\ p \in Nat
      BY <1>3, <2>1, <2>4
    <3> QED BY <3>1, <1>2, <2>1, <2>2, WriteMapping
  <2> QED BY <2>3, <2>4 DEF w
<1> QED BY <1>1, <1>4, <1>5, <1>6, <1>7
\* What next_iter, begin and end of a traversal leave as scripts see it.
LEMMA MarksUnseen ==
    ASSUME IInv, items' \in Seq(Item), Len(items') = Len(items),
           \A i \in 1 .. Len(items) :
              items'[i].key = items[i].key /\ items'[i].value = items[i].value
    PROVE  /\ Contents(items') = Contents(items)
           /\ ~Linear => Mapping(items') = Mapping(items)
<1> DEFINE t == items'
<1>1. TypeOK /\ items \in Seq(Item)
  BY DEF IInv, TypeOK
<1>2. Contents(t) = Contents(items)
  BY <1>1, SameContents
<1>3. ASSUME ~Linear PROVE Mapping(t) = Mapping(items)
  <2>1. InKeyOrder(items)
    BY <1>1, <1>3, ItemsFacts DEF TypeOK, InKeyOrder
  <2>2. 0 \in Nat /\ \A i \in 1 .. Len(items) :
            t[i].key = items[i].key /\ t[i].value = IF i = 0 THEN Nil ELSE items[i].value
    OBVIOUS
  <2> QED BY <2>1, <2>2, <1>1, WriteMapping
<1> QED BY <1>2, <1>3

-----------------------------------------------------------------------------
(* The places the overloads of linear containers come to.                  *)

LEMMA SetOfList ==
    ASSUME IInv, Linear, NEW k \in Nat, NEW v \in Values,
           kind \in {"list", "forward_list"} => k > 0,
           ~(kind = "forward_list" /\ items = <<>> /\ k = 1)
    PROVE  \/ k \in 1 .. Len(items) /\ set_start(k, v) = Write(k, Fresh(0, v))
           \/ k = Len(items) + 1 /\ set_start(k, v) = Place(Len(items) + 1, Fresh(0, v))
           \/ set_start(k, v) = Error
<1> DEFINE n == Len(items)
<1>1. TypeOK
  BY DEF IInv
<1>2. n \in Nat
  BY <1>1, ItemsFacts
<1>3. CASE kind = "array"
  <2>1. CASE k - 1 \in 0 .. n - 1
    <3>1. k \in 1 .. n /\ k - 1 + 1 = k
      BY <2>1, <1>2
    <3>2. set_start(k, v) = Write(k - 1 + 1, Fresh(0, v))
      BY <2>1, <1>3 DEF set_start, set_array, index_adjustment
    <3> QED BY <3>1, <3>2
  <2>2. CASE k - 1 \notin 0 .. n - 1
    BY <2>2, <1>3 DEF set_start, set_array, index_adjustment
  <2> QED BY <2>1, <2>2
<1>4. CASE kind = "vector"
  <2>1. set_start(k, v) = set_random(k, v)
    BY <1>4 DEF set_start
  <2>2. CASE k <= 0 \/ k - 1 > n
    <3>1. k - 1 # n
      BY <2>2, <1>2
    <3> QED BY <2>1, <2>2, <3>1 DEF set_random, index_adjustment
  <2>3. CASE ~(k <= 0 \/ k - 1 > n) /\ k - 1 = n
    <3>1. set_random(k, v) = add_copyable(0, v)
      BY <2>3 DEF set_random, index_adjustment
    <3>2. k = n + 1 /\ add_copyable(0, v) = Place(n + 1, Fresh(0, v))
      BY <2>3, <1>2, <1>4 DEF add_copyable
    <3> QED BY <2>1, <3>1, <3>2
  <2>4. CASE ~(k <= 0 \/ k - 1 > n) /\ k - 1 # n
    <3>1. set_random(k, v) = Write(k - 1 + 1, Fresh(0, v))
      BY <2>4 DEF set_random, index_adjustment
    <3>2. k \in 1 .. n /\ k - 1 + 1 = k
      BY <2>4, <1>2
    <3> QED BY <2>1, <3>1, <3>2
  <2> QED BY <2>2, <2>3, <2>4
<1>5. CASE kind \in {"list", "forward_list"}
  <2> DEFINE steps == IF k - 1 < 0 THEN 0 ELSE IF k - 1 > n THEN n ELSE k - 1
  <2>1. set_start(k, v) =
            IF steps < n THEN Write(steps + 1, Fresh(0, v))
            ELSE IF k - 1 # steps THEN Error
            ELSE IF kind = "list" THEN add_copyable(0, v)
            ELSE IF items = <<>> THEN Broken ELSE Place(steps + 1, Fresh(0, v))
    BY <1>5 DEF set_start, set_walking, index_adjustment
  <2>2. k > 0
    BY <1>5
  <2>3. /\ steps < n => steps + 1 = k /\ k \in 1 .. n
        /\ ~(steps < n) /\ k - 1 = steps => steps + 1 = n + 1 /\ k = n + 1
    BY <2>2, <1>2
  <2>4. items = <<>> => n + 1 = 1
    OBVIOUS
  <2>5. kind = "list" => add_copyable(0, v) = Place(n + 1, Fresh(0, v))
    BY DEF add_copyable
  <2> HIDE DEF steps
  <2> QED BY <2>1, <2>3, <2>4, <2>5, <1>5
<1> QED BY <1>1, <1>3, <1>4, <1>5, KindFacts DEF Linear

LEMMA OthersOfList ==
    ASSUME IInv, Linear, NEW k \in Nat, NEW v \in Values
    PROVE  /\ \A j : \/ add_copyable(j, v) = Error
                     \/ add_copyable(j, v) = Place(Len(items) + 1, Fresh(0, v))
           /\ k \in 1 .. Len(items) + 1 =>
                 \/ insert_copyable(k, v) = Error
                 \/ insert_copyable(k, v) = Place(k, Fresh(0, v))
<1> DEFINE n == Len(items)
<1>1. kind \in {"vector", "list", "forward_list", "array"}
  BY DEF Linear
<1>2. n \in Nat
  BY ItemsFacts DEF IInv
<1>3. ASSUME NEW j
      PROVE  add_copyable(j, v) = Error \/ add_copyable(j, v) = Place(n + 1, Fresh(0, v))
  BY <1>1 DEF add_copyable
<1>4. ASSUME k \in 1 .. n + 1
      PROVE  insert_copyable(k, v) = Error \/ insert_copyable(k, v) = Place(k, Fresh(0, v))
  <2>1. CASE kind = "array"
    BY <2>1 DEF insert_copyable
  <2>2. CASE kind = "forward_list"
    <3>1. ~(k - 1 < 0) /\ ~(k - 1 > n) /\ k - 1 + 1 = k
      BY <1>2, <1>4
    <3>2. insert_copyable(k, v) = Place(k - 1 + 1, Fresh(0, v))
      BY <2>2, <3>1 DEF insert_copyable, index_adjustment
    <3> QED BY <3>1, <3>2
  <2>3. CASE kind \in {"vector", "list"}
    <3>1. k - 1 \in 0 .. n /\ k - 1 + 1 = k
      BY <1>2, <1>4
    <3>2. insert_copyable(k, v) = Place(k - 1 + 1, Fresh(0, v))
      BY <2>3, <3>1 DEF insert_copyable, index_adjustment
    <3> QED BY <3>1, <3>2
  <2> QED BY <1>1, <2>1, <2>2, <2>3
<1> QED BY <1>3, <1>4

LEMMA EraseOfList ==
    ASSUME IInv, Linear, NEW k \in Nat, k \in 1 .. Len(items)
    PROVE  erase_start(k) = Error \/ erase_start(k) = Drop(k)
<1> DEFINE n == Len(items)
<1>1. kind \in {"vector", "list", "forward_list", "array"}
  BY DEF Linear
<1>2. n \in Nat
  BY ItemsFacts DEF IInv
<1>3. CASE kind = "array"
  BY <1>3 DEF erase_start
<1>4. CASE kind = "forward_list"
  <2>1. ~(k - 1 < 0) /\ k - 1 < n /\ k - 1 + 1 = k
    BY <1>2
  <2>2. erase_start(k) = Drop(k - 1 + 1)
    BY <1>4, <2>1 DEF erase_start, index_adjustment
  <2> QED BY <2>1, <2>2
<1>5. CASE kind \in {"vector", "list"}
  <2>1. k - 1 \in 0 .. n - 1 /\ k - 1 + 1 = k
    BY <1>2
  <2>2. erase_start(k) = Drop(k - 1 + 1)
    BY <1>5, <2>1 DEF erase_start, index_adjustment
  <2> QED BY <2>1, <2>2
<1> QED BY <1>1, <1>3, <1>4, <1>5

-----------------------------------------------------------------------------
(* Lists.                                                                  *)

KeepsToPlaces == Uses \cap {"out_of_range", "set_below", "empty_forward", "map_insert"} = {}

LEMMA OutcomeFields ==
    /\ \A p, x : /\ Place(p, x).what = "place" /\ Place(p, x).place = p
                 /\ Place(p, x).item = x /\ Place(p, x).ok = TRUE
    /\ \A p, x : /\ Write(p, x).what = "write" /\ Write(p, x).place = p
                 /\ Write(p, x).item = x /\ Write(p, x).ok = TRUE
    /\ \A p : Drop(p).what = "drop" /\ Drop(p).place = p /\ Drop(p).ok = TRUE
    /\ Error.what = "nothing" /\ Error.ok = FALSE /\ Nothing.what = "nothing"
BY DEF Place, Write, Drop, Error, Nothing, Outcome

LEMMA ListSet ==
    ASSUME KeepsToPlaces, IInv, Linear, NEW k \in Nat, NEW v \in Values, Set(k, v)
    PROVE  LikeAList
<1> DEFINE o == set_start(k, v)
           n == Len(items)
           old == Contents(items)
           new == Contents(items')
<1>1. kind \in {"list", "forward_list"} => k > 0
  BY DEF Set, KeepsToPlaces
<1>2. ~(kind = "forward_list" /\ items = <<>> /\ k = 1)
  BY DEF Set, KeepsToPlaces
<1>3. Perform("set", k, v, o) /\ Proper(o)
  BY SetProper DEF Set
<1>4. /\ called' = [op |-> "set", key |-> k, value |-> v, ok |-> o.ok]
      /\ o.what = "nothing" => items' = items
      /\ Places(o) /\ o.place = n + 1 => new = Append(old, o.item.value)
      /\ Writes(o) => new = [old EXCEPT ![o.place] = o.item.value]
  BY <1>3, PerformSeen
<1>5. called'.op = "set" /\ called'.key = k /\ called'.value = v /\ called'.ok = o.ok
  BY <1>4
<1>6. DOMAIN old = 1 .. n /\ n \in Nat
  <2>1. items \in Seq(Item) /\ n \in Nat
    BY ItemsFacts DEF IInv, TypeOK
  <2> QED BY <2>1, ContentsFacts
<1>7. Fresh(0, v).value = v
  BY DEF Fresh
<1>8. LikeAList <=> IF o.ok THEN new = IF k \in DOMAIN old THEN [old EXCEPT ![k] = v]
                                       ELSE Append(old, v)
                    ELSE new = old
  BY <1>5 DEF LikeAList
<1> HIDE DEF o, n, old, new
<1>9. CASE k \in 1 .. n /\ o = Write(k, Fresh(0, v))
  <2>1. o.what = "write" /\ o.place = k /\ o.item.value = v /\ o.ok = TRUE
    BY <1>7, <1>9, OutcomeFields
  <2>2. Writes(o)
    BY <2>1, <1>3 DEF Proper, Places, Drops
  <2> QED BY <2>1, <2>2, <1>4, <1>6, <1>8, <1>9
<1>10. CASE k = n + 1 /\ o = Place(n + 1, Fresh(0, v))
  <2>1. o.what = "place" /\ o.place = n + 1 /\ o.item.value = v /\ o.ok = TRUE
    BY <1>7, <1>10, OutcomeFields
  <2>2. Places(o)
    BY <2>1, <1>3 DEF Proper, Writes, Drops
  <2>3. k \notin DOMAIN old
    BY <1>6, <1>10
  <2> QED BY <2>1, <2>2, <2>3, <1>4, <1>8
<1>11. CASE o = Error
  <2>1. o.what = "nothing" /\ o.ok = FALSE
    BY <1>11, OutcomeFields
  <2> QED BY <2>1, <1>4, <1>8 DEF old, new
<1> QED BY <1>1, <1>2, <1>9, <1>10, <1>11, SetOfList DEF o, n

LEMMA ListAdd ==
    ASSUME IInv, Linear, NEW k \in Nat, NEW v \in Values, Add(k, v)
    PROVE  LikeAList
<1> DEFINE o == add_copyable(k, v)
           n == Len(items)
           old == Contents(items)
           new == Contents(items')
<1>1. Perform("add", k, v, o) /\ Proper(o)
  BY AddProper DEF Add
<1>2. /\ called' = [op |-> "add", key |-> k, value |-> v, ok |-> o.ok]
      /\ o.what = "nothing" => items' = items
      /\ Places(o) /\ o.place = n + 1 => new = Append(old, o.item.value)
  BY <1>1, PerformSeen
<1>3. called'.op = "add" /\ called'.value = v /\ called'.ok = o.ok
  BY <1>2
<1>4. Fresh(0, v).value = v
  BY DEF Fresh
<1>5. LikeAList <=> IF o.ok THEN new = Append(old, v) ELSE new = old
  BY <1>3 DEF LikeAList
<1>6. o = Error \/ o = Place(n + 1, Fresh(0, v))
  BY OthersOfList
<1> HIDE DEF o, n, old, new
<1>7. CASE o = Place(n + 1, Fresh(0, v))
  <2>1. o.what = "place" /\ o.place = n + 1 /\ o.item.value = v /\ o.ok = TRUE
    BY <1>4, <1>7, OutcomeFields
  <2>2. Places(o)
    BY <2>1, <1>1 DEF Proper, Writes, Drops
  <2> QED BY <2>1, <2>2, <1>2, <1>5
<1>8. CASE o = Error
  <2>1. o.what = "nothing" /\ o.ok = FALSE
    BY <1>8, OutcomeFields
  <2> QED BY <2>1, <1>2, <1>5 DEF old, new
<1> QED BY <1>6, <1>7, <1>8

LEMMA ListInsert ==
    ASSUME KeepsToPlaces, IInv, Linear, NEW k \in Nat, NEW v \in Values, Insert(k, v)
    PROVE  LikeAList
<1> DEFINE o == insert_copyable(k, v)
           n == Len(items)
           old == Contents(items)
           new == Contents(items')
<1>1. Perform("insert", k, v, o) /\ Proper(o)
  BY InsertProper DEF Insert
<1>2. /\ called' = [op |-> "insert", key |-> k, value |-> v, ok |-> o.ok]
      /\ o.what = "nothing" => items' = items
      /\ Places(o) => new = InsertAt(old, o.place, o.item.value)
  BY <1>1, PerformSeen
<1>3. called'.op = "insert" /\ called'.key = k /\ called'.value = v /\ called'.ok = o.ok
  BY <1>2
<1>4. Fresh(0, v).value = v
  BY DEF Fresh
<1>5. LikeAList <=> IF o.ok THEN new = InsertAt(old, k, v) ELSE new = old
  BY <1>3 DEF LikeAList
<1>6. k \in 1 .. n + 1
  BY DEF Insert, Within, KeepsToPlaces
<1>7. o = Error \/ o = Place(k, Fresh(0, v))
  BY <1>6, OthersOfList
<1> HIDE DEF o, n, old, new
<1>8. CASE o = Place(k, Fresh(0, v))
  <2>1. o.what = "place" /\ o.place = k /\ o.item.value = v /\ o.ok = TRUE
    BY <1>4, <1>8, OutcomeFields
  <2>2. Places(o)
    BY <2>1, <1>1 DEF Proper, Writes, Drops
  <2> QED BY <2>1, <2>2, <1>2, <1>5
<1>9. CASE o = Error
  <2>1. o.what = "nothing" /\ o.ok = FALSE
    BY <1>9, OutcomeFields
  <2> QED BY <2>1, <1>2, <1>5 DEF old, new
<1> QED BY <1>7, <1>8, <1>9

LEMMA ListErase ==
    ASSUME KeepsToPlaces, IInv, Linear, NEW k \in Nat, Erase(k)
    PROVE  LikeAList
<1> DEFINE o == erase_start(k)
           n == Len(items)
           old == Contents(items)
           new == Contents(items')
<1>1. Perform("erase", k, Nil, o) /\ Proper(o)
  BY EraseProper DEF Erase
<1>2. /\ called' = [op |-> "erase", key |-> k, value |-> Nil, ok |-> o.ok]
      /\ o.what = "nothing" => items' = items
      /\ Drops(o) => new = RemoveAt(old, o.place)
  BY <1>1, PerformSeen
<1>3. called'.op = "erase" /\ called'.key = k /\ called'.ok = o.ok
  BY <1>2
<1>5. LikeAList <=> IF o.ok THEN new = RemoveAt(old, k) ELSE new = old
  BY <1>3 DEF LikeAList
<1>6. k \in 1 .. n
  BY DEF Erase, Within, KeepsToPlaces
<1>7. o = Error \/ o = Drop(k)
  BY <1>6, EraseOfList
<1> HIDE DEF o, n, old, new
<1>8. CASE o = Drop(k)
  <2>1. o.what = "drop" /\ o.place = k /\ o.ok = TRUE
    BY <1>8, OutcomeFields
  <2>2. Drops(o)
    BY <2>1, <1>1 DEF Proper, Writes, Places
  <2> QED BY <2>1, <2>2, <1>2, <1>5
<1>9. CASE o = Error
  <2>1. o.what = "nothing" /\ o.ok = FALSE
    BY <1>9, OutcomeFields
  <2> QED BY <2>1, <1>2, <1>5 DEF old, new
<1> QED BY <1>7, <1>8, <1>9
-----------------------------------------------------------------------------
(* Tables.                                                                 *)

\* What is a key of the table is the key of the item found.
LEMMA TableFacts ==
    ASSUME IInv, ~Linear, NEW k
    PROVE  /\ kind \in {"map", "set"} /\ InKeyOrder(items)
           /\ Mapping(items) = [x \in DOMAIN Mapping(items) |-> Mapping(items)[x]]
           /\ k \in DOMAIN Mapping(items) <=> Position(k) # 0
           /\ Position(k) # 0 => Position(k) \in 1 .. Len(items) /\ items[Position(k)].key = k
<1>1. TypeOK
  BY DEF IInv
<1>2. Len(items) \in Nat /\ DOMAIN items = 1 .. Len(items) /\ items \in Seq(Item)
  BY <1>1, ItemsFacts DEF TypeOK
<1>3. InKeyOrder(items)
  BY <1>1, <1>2 DEF TypeOK, InKeyOrder
<1>4. /\ Mapping(items) = [x \in {items[i].key : i \in 1 .. Len(items)} |-> Mapping(items)[x]]
      /\ DOMAIN Mapping(items) = {items[i].key : i \in 1 .. Len(items)}
  BY <1>2, <1>3, MappingFacts
<1>5. /\ Position(k) \in 0 .. Len(items)
      /\ Position(k) # 0 => items[Position(k)].key = k
      /\ Position(k) = 0 => \A i \in 1 .. Len(items) : items[i].key # k
  BY <1>2, PositionFacts
<1>6. Position(k) # 0 => Position(k) \in 1 .. Len(items)
  BY <1>2, <1>5
<1>7. k \in DOMAIN Mapping(items) <=> Position(k) # 0
  BY <1>4, <1>5, <1>6
<1>8. kind \in {"map", "set"}
  BY <1>1, KindFacts
<1> QED BY <1>3, <1>4, <1>5, <1>6, <1>7, <1>8

LEMMA TablePerform ==
    ASSUME IInv, ~Linear, NEW op, NEW k, NEW v, NEW o, Proper(o), Perform(op, k, v, o)
    PROVE  LET from == Mapping(items)  to == Mapping(items') IN
           /\ called' = [op |-> op, key |-> k, value |-> v, ok |-> o.ok]
           /\ o.what = "nothing" => items' = items
           /\ Places(o) => to = With(from, o.item.key, o.item.value)
           /\ Drops(o)  => to = Without(from, items[o.place].key)
           /\ Writes(o) => to = With(from, items[o.place].key, o.item.value)
BY PerformSeen

LEMMA TableSet ==
    ASSUME IInv, ~Linear, NEW k \in Keys, NEW v \in Values, Set(k, v)
    PROVE  LikeATable
<1> DEFINE o == set_start(k, v)
           old == Mapping(items)
           new == Mapping(items')
           w == IF kind = "set" THEN k ELSE v
           p == Position(k)
<1>1. Perform("set", k, v, o) /\ Proper(o)
  <2>1. k \in Nat
    BY ContainersAssumption DEF Keys
  <2> QED BY <2>1, SetProper DEF Set
<1>2. /\ called' = [op |-> "set", key |-> k, value |-> v, ok |-> o.ok]
      /\ o.what = "nothing" => items' = items
      /\ Places(o) => new = With(old, o.item.key, o.item.value)
      /\ Writes(o) => new = With(old, items[o.place].key, o.item.value)
  BY <1>1, TablePerform
<1>3. called'.op = "set" /\ called'.key = k /\ called'.value = v /\ called'.ok = o.ok
  BY <1>2
<1>4. \A x : Fresh(k, x).key = k /\ Fresh(k, x).value = x
  BY DEF Fresh
<1>5. LikeATable <=> IF o.ok THEN new = With(old, k, w) ELSE new = old
  BY <1>3 DEF LikeATable, With
<1>6. kind \in {"map", "set"} /\ (p # 0 => items[p].key = k)
  BY TableFacts
<1>7. o = IF p = 0 THEN Place(Sorted(k), Fresh(k, w))
          ELSE IF kind = "set" THEN Error ELSE Write(p, Fresh(k, v))
  BY <1>6 DEF set_start, set_found
<1> HIDE DEF o, old, new, w, p
<1>8. CASE p = 0
  <2>1. o.what = "place" /\ o.item = Fresh(k, w) /\ o.ok = TRUE
    BY <1>7, <1>8, OutcomeFields
  <2>2. Places(o)
    BY <2>1, <1>1 DEF Proper, Writes, Drops
  <2> QED BY <2>1, <2>2, <1>2, <1>4, <1>5
<1>9. CASE p # 0 /\ kind = "set"
  <2>1. o.what = "nothing" /\ o.ok = FALSE
    BY <1>7, <1>9, OutcomeFields
  <2> QED BY <2>1, <1>2, <1>5 DEF old, new
<1>10. CASE p # 0 /\ kind # "set"
  <2>1. o.what = "write" /\ o.place = p /\ o.item = Fresh(k, v) /\ o.ok = TRUE
    BY <1>7, <1>10, OutcomeFields
  <2>2. Writes(o)
    BY <2>1, <1>1 DEF Proper, Places, Drops
  <2>3. w = v
    BY <1>10 DEF w
  <2> QED BY <2>1, <2>2, <2>3, <1>2, <1>4, <1>5, <1>6, <1>10
<1> QED BY <1>8, <1>9, <1>10

\* add(), and insert(), which adds the value as a key.
LEMMA TableAdd ==
    ASSUME IInv, ~Linear, NEW op \in {"add", "insert"}, NEW k, NEW v \in Values,
           NEW j \in Keys \cup Values, kind = "set" => j = v,
           IF op = "add" THEN k = j ELSE j = v /\ (kind = "map" => k = v),
           Perform(op, k, v, add_copyable(j, v))
    PROVE  LikeATable
<1> DEFINE o == add_copyable(j, v)
           old == Mapping(items)
           new == Mapping(items')
           w == IF kind = "set" THEN j ELSE v
           p == Position(j)
<1>1. Proper(o)
  BY AddProper
<1>2. /\ called' = [op |-> op, key |-> k, value |-> v, ok |-> o.ok]
      /\ o.what = "nothing" => items' = items
      /\ Places(o) => new = With(old, o.item.key, o.item.value)
  BY <1>1, TablePerform
<1>3. called'.op = op /\ called'.key = k /\ called'.value = v
  BY <1>2
<1>4. \A x : Fresh(j, x).key = j /\ Fresh(j, x).value = x
  BY DEF Fresh
<1>5. kind \in {"map", "set"} /\ (p # 0 <=> j \in DOMAIN old)
  BY TableFacts
<1>6. (IF kind = "set" /\ op = "insert" THEN v ELSE k) = j
  BY <1>5
<1>7. LikeATable <=> new = IF j \in DOMAIN old THEN old ELSE With(old, j, w)
  BY <1>3, <1>6 DEF LikeATable, With
<1>8. o = IF p # 0 THEN Nothing ELSE Place(Sorted(j), Fresh(j, w))
  BY <1>5 DEF add_copyable
<1> HIDE DEF o, old, new, w, p
<1>9. CASE p # 0
  <2>1. o.what = "nothing"
    BY <1>8, <1>9, OutcomeFields
  <2> QED BY <2>1, <1>2, <1>5, <1>7, <1>9 DEF old, new
<1>10. CASE p = 0
  <2>1. o.what = "place" /\ o.item = Fresh(j, w)
    BY <1>8, <1>10, OutcomeFields
  <2>2. Places(o)
    BY <2>1, <1>1 DEF Proper, Writes, Drops
  <2> QED BY <2>1, <2>2, <1>2, <1>4, <1>5, <1>7, <1>10
<1> QED BY <1>9, <1>10

LEMMA TableErase ==
    ASSUME IInv, ~Linear, NEW k \in Keys, Erase(k)
    PROVE  LikeATable
<1> DEFINE o == erase_start(k)
           old == Mapping(items)
           new == Mapping(items')
           p == Position(k)
<1>1. Perform("erase", k, Nil, o) /\ Proper(o)
  <2>1. k \in Nat
    BY ContainersAssumption DEF Keys
  <2> QED BY <2>1, EraseProper DEF Erase
<1>2. /\ called' = [op |-> "erase", key |-> k, value |-> Nil, ok |-> o.ok]
      /\ o.what = "nothing" => items' = items
      /\ Drops(o) => new = Without(old, items[o.place].key)
  BY <1>1, TablePerform
<1>3. called'.op = "erase" /\ called'.key = k
  BY <1>2
<1>4. LikeATable <=> new = Without(old, k)
  BY <1>3 DEF LikeATable, Without
<1>5. /\ kind \in {"map", "set"} /\ (p # 0 => items[p].key = k) /\ (k \in DOMAIN old <=> p # 0)
      /\ old = [x \in DOMAIN old |-> old[x]]
  BY TableFacts
<1>6. o = IF p = 0 THEN Nothing ELSE Drop(p)
  BY <1>5 DEF erase_start
<1> HIDE DEF o, old, new, p
<1>7. CASE p # 0
  <2>1. o.what = "drop" /\ o.place = p
    BY <1>6, <1>7, OutcomeFields
  <2>2. Drops(o)
    BY <2>1, <1>1 DEF Proper, Writes, Places
  <2> QED BY <2>1, <2>2, <1>2, <1>4, <1>5, <1>7
<1>8. CASE p = 0
  <2>1. new = old
    BY <1>2, <1>6, <1>8, OutcomeFields DEF old, new
  <2>2. DOMAIN old \ {k} = DOMAIN old
    BY <1>5, <1>8
  <2> QED BY <2>1, <2>2, <1>4, <1>5 DEF Without
<1> QED BY <1>7, <1>8

-----------------------------------------------------------------------------
(* All calls.                                                              *)

\* Steps that change no keys and values.
LEMMA Unseen ==
    ASSUME IInv, items' \in Seq(Item), Len(items') = Len(items),
           \A i \in 1 .. Len(items) :
              items'[i].key = items[i].key /\ items'[i].value = items[i].value,
           called'.op \in {"other", "next"}
    PROVE  IF Linear THEN LikeAList ELSE LikeATable
<1>1. Contents(items') = Contents(items) /\ (~Linear => Mapping(items') = Mapping(items))
  BY MarksUnseen
<1>2. /\ called'.op # "set" /\ called'.op # "add" /\ called'.op # "insert"
      /\ called'.op # "erase" /\ called'.op # "clear"
  OBVIOUS
<1>3. LikeAList
  BY <1>1, <1>2 DEF LikeAList
<1>4. ~Linear => LikeATable
  BY <1>1, <1>2 DEF LikeATable
<1> QED BY <1>3, <1>4

LEMMA ClearSeen ==
    ASSUME IInv, Clear
    PROVE  IF Linear THEN LikeAList ELSE LikeATable
<1>1. CASE kind = "array"
  <2>1. items' = items /\ called'.op = "other"
    BY <1>1 DEF Clear, Call
  <2> QED BY <2>1, Unseen DEF IInv, TypeOK
<1>2. CASE kind # "array"
  <2>1. items' = <<>> /\ called'.op = "clear"
    BY <1>2 DEF Clear, Call
  <2>2. Contents(items') = <<>> /\ Mapping(items') = <<>>
    <3>1. Contents(<<>>) = <<>>
      BY DEF Contents
    <3>2. Mapping(<<>>) = <<>>
      BY DEF Mapping
    <3> QED BY <2>1, <3>1, <3>2
  <2>3. /\ called'.op # "set" /\ called'.op # "add" /\ called'.op # "insert"
        /\ called'.op # "erase" /\ called'.op \notin {"add", "insert"}
    BY <2>1
  <2>4. LikeAList
    BY <2>1, <2>2, <2>3 DEF LikeAList
  <2>5. LikeATable
    BY <2>1, <2>2, <2>3 DEF LikeATable
  <2> QED BY <2>4, <2>5
<1> QED BY <1>1, <1>2

LEMMA StepLikeLua ==
    ASSUME KeepsToPlaces, IInv, Next
    PROVE  IF Linear THEN LikeAList ELSE LikeATable
<1> DEFINE Like == IF Linear THEN LikeAList ELSE LikeATable
<1>1. items \in Seq(Item) /\ \A k \in 0 .. MaxSize + 2 : k \in Nat
  BY ContainersAssumption DEF IInv, TypeOK
<1>2. ASSUME NEW k \in 0 .. MaxSize + 2, NEW v \in Values, ~Linear => k \in Keys, Set(k, v)
      PROVE  Like
  BY <1>1, <1>2, ListSet, TableSet
<1>3. ASSUME NEW k \in 0 .. MaxSize + 2, NEW v \in Values, ~Linear => k \in Keys, Insert(k, v)
      PROVE  Like
  <2>1. CASE Linear
    BY <1>1, <1>3, <2>1, ListInsert
  <2>2. CASE ~Linear
    <3>1. kind \in {"map", "set"}
      BY <2>2, TableFacts
    <3>2. Perform("insert", k, v, add_copyable(v, v))
      BY <1>3, <3>1 DEF Insert, insert_copyable
    <3>3. kind = "map" => k = v
      BY <1>3 DEF Insert, KeepsToPlaces
    <3>4. LikeATable
      BY <2>2, <3>2, <3>3, TableAdd
    <3> QED BY <2>2, <3>4
  <2> QED BY <2>1, <2>2
<1>4. ASSUME NEW k \in 0 .. MaxSize + 2, NEW v \in Values, ~Linear => k \in Keys,
             Add(CASE Linear -> 0 [] kind = "set" -> v [] OTHER -> k, v)
      PROVE  Like
  <2> DEFINE j == CASE Linear -> 0 [] kind = "set" -> v [] OTHER -> k
  <2>1. (Linear => j = 0) /\ (~Linear => j \in Keys \cup Values /\ (kind = "set" => j = v))
    BY <1>4 DEF Linear
  <2> HIDE DEF j
  <2>2. Add(j, v)
    BY <1>4 DEF j
  <2>3. CASE Linear
    BY <2>1, <2>2, <2>3, ListAdd
  <2>4. CASE ~Linear
    <3>1. Perform("add", j, v, add_copyable(j, v))
      BY <2>2 DEF Add
    <3>2. LikeATable
      BY <2>1, <2>4, <3>1, TableAdd
    <3> QED BY <2>4, <3>2
  <2> QED BY <2>3, <2>4
<1>5. ASSUME NEW k \in 0 .. MaxSize + 2, ~Linear => k \in Keys, Erase(k)
      PROVE  Like
  BY <1>1, <1>5, ListErase, TableErase
<1>6. CASE Clear
  BY <1>6, ClearSeen
<1>7. ASSUME NEW m \in {"new", "due", "given"}, items' = Marked(items, m), called'.op = "other"
      PROVE  Like
  BY <1>1, <1>7, MarkedFacts, Unseen
<1>8. ASSUME NEW counts \in BOOLEAN, Begin(counts) PROVE Like
  BY <1>7, <1>8 DEF Begin, Call
<1>9. CASE Next_iter
  <2>1. CASE undefined' # undefined
    BY <2>1, <1>1, <1>9, Unseen DEF Next_iter, Call
  <2>2. CASE undefined' = undefined /\ loop' # NoLoop
    <3>1. /\ items' \in Seq(Item) /\ Len(items') = Len(items)
          /\ \A i \in 1 .. Len(items) :
                items'[i].key = items[i].key /\ items'[i].value = items[i].value
          /\ Call("next", KeyOf(items[loop.pos]), items[loop.pos].value, TRUE)
      BY <1>9, <2>2, HandOutFacts
    <3>2. called'.op = "next"
      BY <3>1 DEF Call
    <3> QED BY <3>1, <3>2, Unseen
  <2>3. CASE undefined' = undefined /\ items' = Marked(items, "new") /\ called'.op = "other"
    BY <2>3, <1>7
  <2>4. CASE undefined' = undefined /\ loop' = NoLoop /\ ~(items' = Marked(items, "new") /\ called'.op = "other")
    <3>1. loop' = [loop EXCEPT !.pos = loop.pos + 1, !.control = KeyOf(items[loop.pos])] /\ loop # NoLoop
      BY <1>9, <2>4 DEF Next_iter, HandOut, Call
    <3>2. loop \in Traversal /\ loop.pos \in Nat
      BY <3>1, LoopFacts DEF IInv
    <3>3. loop'.pos = loop.pos + 1
      BY <3>1, <3>2 DEF Traversal
    <3> QED BY <2>4, <3>2, <3>3 DEF NoLoop
  <2> QED BY <2>1, <2>2, <2>3, <2>4
<1>10. CASE Break
  BY <1>7, <1>10 DEF Break, Call
<1>11. CASE LetGo
  BY <1>1, <1>11, Unseen DEF LetGo, Call
<1>12. CASE Collect
  BY <1>1, <1>12, Unseen DEF Collect, Call
<1> QED BY <1>2, <1>3, <1>4, <1>5, <1>6, <1>8, <1>9, <1>10, <1>11, <1>12 DEF Next

\* Whatever overloads the type of a container selects, what a script that
\* names places there are does to it is what it does to a Lua list or table.
THEOREM OneListOrOneTable == KeepsToPlaces => (Spec => CallsLikeLua)
<1> SUFFICES ASSUME KeepsToPlaces PROVE Spec => CallsLikeLua
  OBVIOUS
<1>1. IInv /\ [Next]_vars => [IF Linear THEN LikeAList ELSE LikeATable]_vars
  BY StepLikeLua
<1> QED BY <1>1, InvariantHolds, PTL DEF Spec, CallsLikeLua
================================================================================

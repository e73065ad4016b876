---------------------------- MODULE CallResultsProof ----------------------------
(***************************************************************************)
(* What CallResults promises for any number of calls, frames, arguments,   *)
(* results and result objects.                                             *)
(***************************************************************************)
EXTENDS CallResults, SequenceTheorems, FiniteSetTheorems, FunctionTheorems,
        WellFoundedInduction, TLAPS

-----------------------------------------------------------------------------
(* The inductive invariant.                                                *)

\* Frame f was called with so many handlers below its function.
Handed(f) == IF frames[f].call.handler = "none" THEN 0 ELSE 1

\* How far what frame f has itself reaches on the stack.
Top(f) == IF f = Depth THEN Len(stack) ELSE frames[f + 1].base - 1 - Handed(f + 1)

\* Frames lie above each other, each over its function and handler.
FramesSound ==
    /\ frames[1].base = 0
    /\ \A f \in 1 .. Depth : frames[f].base <= Len(stack)
    /\ \A f, g \in 1 .. Depth : f < g => frames[f].base + Handed(g) < frames[g].base
    /\ \A f \in 2 .. Depth :
          /\ stack[frames[f].base] = F
          /\ frames[f].call.handler # "elsewhere"
          /\ frames[f].call.handler = "here" =>
                /\ stack[frames[f].base - 1] = H
                /\ frames[f].call.stackindex = frames[f].base - 1 - frames[f - 1].base
          /\ frames[f].call.first = frames[f].base - frames[f - 1].base - Handed(f)

\* The objects calls in progress will deliver to are not there yet.
TargetsSound ==
    /\ \A f \in 2 .. Depth : res[frames[f].call.into] = Gone
    /\ \A f, g \in 2 .. Depth : frames[f].call.into = frames[g].call.into => f = g

\* What an object owns lies in its frame.
ResultSound(o) ==
    /\ res[o].frame \in 1 .. Depth /\ res[o].popcount = res[o].returncount
    /\ Owns(o) =>
          /\ res[o].index >= 1
          /\ frames[res[o].frame].base + res[o].index + res[o].popcount - 1 <= Top(res[o].frame)
          /\ \A i \in Span(o) : stack[i] = Val(res[o].call)

ResultsSound == \A o \in Objects : res[o] # Gone => ResultSound(o)

SpansApart ==
    \A o, p \in Objects : Owns(o) /\ Owns(p) /\ o # p => \A i \in Span(o) : i \notin Span(p)

HandlersPlaced ==
    \A i \in 1 .. Len(stack) : stack[i] = H =>
       \E f \in 2 .. Depth : frames[f].call.handler = "here" /\ i = frames[f].base - 1

\* The values a result owned that another one was moved over are forgotten.
ValuesOwned ==
    "assign_over" \notin Uses =>
       \A i \in 1 .. Len(stack), c \in Calls : stack[i] = Val(c) =>
          \E o \in Objects : Owns(o) /\ i \in Span(o)

IInv == /\ TypeOK /\ elsewhere = <<>> /\ FramesSound /\ TargetsSound /\ ResultsSound
        /\ SpansApart /\ HandlersPlaced /\ ValuesOwned /\ NothingTaken
-----------------------------------------------------------------------------
(* Sequences.                                                              *)

LEMMA PrefixFacts ==
    ASSUME NEW S, NEW s \in Seq(S), NEW m \in Int, m <= Len(s)
    PROVE  /\ SubSeq(s, 1, m) \in Seq(S)
           /\ Len(SubSeq(s, 1, m)) = IF m > 0 THEN m ELSE 0
           /\ \A i \in 1 .. m : SubSeq(s, 1, m)[i] = s[i]
<1> DEFINE t == SubSeq(s, 1, m)
<1>1. Len(s) \in Nat /\ \A i \in 1 .. Len(s) : s[i] \in S
  BY LenProperties
<1>2. 1 \in Int /\ \A i \in 1 .. m : s[i] \in S
  BY <1>1
<1>3. /\ t \in Seq(S)
      /\ Len(t) = IF 1 <= m THEN m - 1 + 1 ELSE 0
      /\ \A i \in 1 .. m - 1 + 1 : t[i] = s[1 + i - 1]
  BY <1>2, SubSeqProperties
<1> HIDE DEF t
<1>4. Len(t) = IF m > 0 THEN m ELSE 0
  BY <1>3
<1>5. ASSUME NEW i \in 1 .. m PROVE t[i] = s[i]
  <2>1. i \in 1 .. m - 1 + 1 /\ 1 + i - 1 = i
    OBVIOUS
  <2> QED BY <2>1, <1>3
<1> QED BY <1>3, <1>4, <1>5 DEF t

LEMMA SuffixFacts ==
    ASSUME NEW S, NEW s \in Seq(S), NEW m \in 1 .. Len(s) + 1
    PROVE  /\ SubSeq(s, m, Len(s)) \in Seq(S)
           /\ Len(SubSeq(s, m, Len(s))) = Len(s) - m + 1
           /\ \A i \in 1 .. Len(s) - m + 1 : SubSeq(s, m, Len(s))[i] = s[m + i - 1]
<1> DEFINE n == Len(s)
<1>1. n \in Nat /\ m \in 1 .. n + 1 /\ \A i \in 1 .. n : s[i] \in S
  BY LenProperties
<1> HIDE DEF n
<1>2. \A i \in m .. n : s[i] \in S
  BY <1>1
<1>3. /\ SubSeq(s, m, n) \in Seq(S)
      /\ Len(SubSeq(s, m, n)) = IF m <= n THEN n - m + 1 ELSE 0
      /\ \A i \in 1 .. n - m + 1 : SubSeq(s, m, n)[i] = s[m + i - 1]
  BY <1>1, <1>2, SubSeqProperties
<1>4. Len(SubSeq(s, m, n)) = n - m + 1
  BY <1>1, <1>3
<1> QED BY <1>3, <1>4 DEF n

LEMMA CutFacts ==
    ASSUME NEW S, NEW s \in Seq(S), NEW n \in 0 .. Len(s)
    PROVE  /\ Cut(s, n) \in Seq(S) /\ Len(Cut(s, n)) = Len(s) - n
           /\ \A i \in 1 .. Len(s) - n : Cut(s, n)[i] = s[i]
<1> DEFINE m == Len(s) - n
<1>1. m \in Nat /\ m <= Len(s)
  BY LenProperties
<1>2. Cut(s, n) = SubSeq(s, 1, m)
  BY DEF Cut
<1> HIDE DEF m
<1>3. /\ SubSeq(s, 1, m) \in Seq(S) /\ Len(SubSeq(s, 1, m)) = IF m > 0 THEN m ELSE 0
      /\ \A i \in 1 .. m : SubSeq(s, 1, m)[i] = s[i]
  BY <1>1, PrefixFacts
<1> QED BY <1>1, <1>2, <1>3 DEF m

LEMMA RepeatFacts ==
    ASSUME NEW S, NEW x \in S, NEW m \in Nat
    PROVE  /\ Repeat(x, m) \in Seq(S) /\ Len(Repeat(x, m)) = m
           /\ \A i \in 1 .. m : Repeat(x, m)[i] = x
<1>1. Repeat(x, m) = [i \in 1 .. m |-> x]
  BY DEF Repeat
<1>2. Repeat(x, m) \in [1 .. m -> S] /\ DOMAIN Repeat(x, m) = 1 .. m
  BY <1>1
<1>3. Repeat(x, m) \in Seq(S)
  BY <1>2, SeqDef
<1> DEFINE k == Len(Repeat(x, m))
<1>4. k \in Nat /\ 1 .. k = 1 .. m
  BY <1>2, <1>3, LenProperties
<1> HIDE DEF k
<1>5. k = m
  <2>1. (k \in 1 .. k \/ k = 0) /\ (m \in 1 .. m \/ m = 0)
    BY <1>4
  <2>2. (k \in 1 .. m \/ k = 0) /\ (m \in 1 .. k \/ m = 0)
    BY <2>1, <1>4
  <2> QED BY <2>2, <1>4
<1> QED BY <1>1, <1>3, <1>5 DEF k

\* t is the first b items of s and m times x over them.
Topped(t, s, b, x, m) ==
    /\ Len(t) = b + m
    /\ \A i \in 1 .. b : t[i] = s[i]
    /\ \A i \in b + 1 .. b + m : t[i] = x

LEMMA ToppedFacts ==
    ASSUME NEW S, NEW s \in Seq(S), NEW b \in 0 .. Len(s), NEW x \in S, NEW m \in Nat
    PROVE  /\ SubSeq(s, 1, b) \o Repeat(x, m) \in Seq(S)
           /\ Topped(SubSeq(s, 1, b) \o Repeat(x, m), s, b, x, m)
<1> DEFINE p == SubSeq(s, 1, b)
           r == Repeat(x, m)
           t == p \o r
<1>1. Len(s) \in Nat /\ b \in Int /\ b <= Len(s)
  BY LenProperties
<1>2. p \in Seq(S) /\ Len(p) = b /\ \A i \in 1 .. b : p[i] = s[i]
  <2>1. p \in Seq(S) /\ Len(p) = (IF b > 0 THEN b ELSE 0) /\ \A i \in 1 .. b : p[i] = s[i]
    BY <1>1, PrefixFacts
  <2> HIDE DEF p
  <2> QED BY <2>1
<1>3. r \in Seq(S) /\ Len(r) = m /\ \A i \in 1 .. m : r[i] = x
  BY RepeatFacts
<1> HIDE DEF p, r
<1>4. /\ t \in Seq(S) /\ Len(t) = Len(p) + Len(r)
      /\ \A i \in 1 .. Len(p) + Len(r) : t[i] = IF i <= Len(p) THEN p[i] ELSE r[i - Len(p)]
  BY <1>2, <1>3, ConcatProperties
<1> HIDE DEF t
<1>5. ASSUME NEW i \in b + 1 .. b + m PROVE t[i] = x
  <2>1. i \in 1 .. b + m /\ ~(i <= b) /\ i - b \in 1 .. m
    OBVIOUS
  <2> QED BY <2>1, <1>2, <1>3, <1>4
<1>6. ASSUME NEW i \in 1 .. b PROVE t[i] = s[i]
  <2>1. i \in 1 .. b + m /\ i <= b
    OBVIOUS
  <2> QED BY <2>1, <1>2, <1>3, <1>4
<1> QED BY <1>2, <1>3, <1>4, <1>5, <1>6 DEF Topped, t, p, r

\* t is s without n items from place a.
Without(t, s, a, n) ==
    /\ Len(t) = Len(s) - n
    /\ \A i \in 1 .. Len(s) - n : t[i] = IF i < a THEN s[i] ELSE s[i + n]

LEMMA WindowFacts ==
    ASSUME NEW S, NEW s \in Seq(S), NEW n \in Nat, NEW a \in Nat \ {0}, a + n <= Len(s) + 1
    PROVE  LET t == SubSeq(s, 1, a - 1) \o SubSeq(s, a + n, Len(s)) IN
           t \in Seq(S) /\ Without(t, s, a, n)
<1> DEFINE k == Len(s)
           p == SubSeq(s, 1, a - 1)
           q == SubSeq(s, a + n, k)
           t == p \o q
<1>1. k \in Nat /\ a - 1 \in Int /\ a - 1 <= k /\ a + n \in 1 .. k + 1
  BY LenProperties
<1>2. p \in Seq(S) /\ Len(p) = a - 1 /\ \A i \in 1 .. a - 1 : p[i] = s[i]
  <2>1. p \in Seq(S) /\ Len(p) = (IF a - 1 > 0 THEN a - 1 ELSE 0) /\ \A i \in 1 .. a - 1 : p[i] = s[i]
    BY <1>1, PrefixFacts
  <2> HIDE DEF p
  <2> QED BY <2>1
<1>3. q \in Seq(S) /\ Len(q) = k - (a + n) + 1 /\ \A i \in 1 .. k - (a + n) + 1 : q[i] = s[a + n + i - 1]
  BY <1>1, SuffixFacts
<1> HIDE DEF p, q
<1>4. /\ t \in Seq(S) /\ Len(t) = Len(p) + Len(q)
      /\ \A i \in 1 .. Len(p) + Len(q) : t[i] = IF i <= Len(p) THEN p[i] ELSE q[i - Len(p)]
  BY <1>2, <1>3, ConcatProperties
<1> HIDE DEF t
<1>5. Len(t) = k - n
  BY <1>1, <1>2, <1>3, <1>4
<1>6. ASSUME NEW i \in 1 .. k - n
      PROVE  t[i] = IF i < a THEN s[i] ELSE s[i + n]
  <2>1. CASE i < a
    <3>1. i \in 1 .. a - 1 /\ i \in 1 .. Len(p) + Len(q) /\ i <= Len(p)
      BY <2>1, <1>1, <1>2, <1>3
    <3>2. t[i] = p[i]
      BY <3>1, <1>4
    <3>3. p[i] = s[i]
      BY <3>1, <1>2
    <3> QED BY <2>1, <3>2, <3>3
  <2>2. CASE ~(i < a)
    <3>1. t[i] = q[i - (a - 1)]
      <4>1. i \in 1 .. Len(p) + Len(q) /\ ~(i <= Len(p)) /\ Len(p) = a - 1
        BY <2>2, <1>1, <1>2, <1>3
      <4> QED BY <4>1, <1>4
    <3>2. i - (a - 1) \in 1 .. k - (a + n) + 1 /\ a + n + (i - (a - 1)) - 1 = i + n
      BY <2>2, <1>1
    <3> QED BY <2>2, <3>1, <3>2, <1>3
  <2> QED BY <2>1, <2>2
<1> QED BY <1>4, <1>5, <1>6 DEF Without, t, p, q, k

\* stack::remove() of values that are there.
LEMMA RemovedFacts ==
    ASSUME NEW S, NEW s \in Seq(S), NEW b \in Nat, NEW index \in Nat \ {0}, NEW n \in Nat,
           b + index + n <= Len(s) + 1
    PROVE  /\ removed(s, b, index, n) \in Seq(S)
           /\ Without(removed(s, b, index, n), s, b + index, n)
<1> DEFINE k == Len(s)
           a == b + index
<1>1. k \in Nat /\ a \in Nat \ {0} /\ a + n <= k + 1
  BY LenProperties
<1>2. CASE n = 0
  <2>1. removed(s, b, index, n) = s
    BY <1>2 DEF removed
  <2> QED BY <2>1, <1>1, <1>2 DEF Without
<1>3. CASE n # 0 /\ index = k - b
  <2>1. n = 1 /\ ~(n < 1 \/ k - b < 1) /\ a = k
    BY <1>1, <1>3
  <2>2. removed(s, b, index, n) = Cut(s, 1)
    BY <2>1, <1>3 DEF removed
  <2>3. 1 \in 0 .. k
    BY <2>1, <1>1
  <2>4. /\ Cut(s, 1) \in Seq(S) /\ Len(Cut(s, 1)) = k - 1
        /\ \A i \in 1 .. k - 1 : Cut(s, 1)[i] = s[i]
    BY <2>3, CutFacts
  <2>5. \A i \in 1 .. k - 1 : i < a
    BY <2>1, <1>1
  <2> QED BY <2>1, <2>2, <2>4, <2>5 DEF Without
<1>4. CASE n # 0 /\ index # k - b
  <2>1. ~(n < 1 \/ k - b < 1) /\ ~(b + index + n - 1 > k)
    BY <1>1, <1>4
  <2>2. removed(s, b, index, n) = SubSeq(s, 1, b + index - 1) \o SubSeq(s, b + index + n, k)
    <3>1. \A x, y : ~(n < 1 \/ k - b < 1) /\ ~(index = k - b \/ b + index + n - 1 > k) =>
             (IF n < 1 \/ k - b < 1 THEN s
              ELSE IF index = k - b \/ b + index + n - 1 > k THEN x ELSE y) = y
      OBVIOUS
    <3> QED BY <2>1, <1>4, <3>1 DEF removed
  <2> HIDE DEF a
  <2>3. /\ SubSeq(s, 1, a - 1) \o SubSeq(s, a + n, k) \in Seq(S)
        /\ Without(SubSeq(s, 1, a - 1) \o SubSeq(s, a + n, k), s, a, n)
    BY <1>1, WindowFacts
  <2> QED BY <2>2, <2>3 DEF a
<1> QED BY <1>2, <1>3, <1>4

-----------------------------------------------------------------------------
(* Types.                                                                  *)

LEMMA ItemFacts ==
    /\ User \in Item /\ H \in Item /\ F \in Item /\ Arg \in Item /\ \A c \in Calls : Val(c) \in Item
    /\ User # H /\ User # F /\ User # Arg /\ H # F /\ H # Arg /\ F # Arg
    /\ \A c : Val(c) # User /\ Val(c) # H /\ Val(c) # F /\ Val(c) # Arg
    /\ \A c, d : Val(c) = Val(d) => c = d
BY DEF User, H, F, Arg, Val, Item

LEMMA TypeFacts ==
    ASSUME TypeOK
    PROVE  /\ stack \in Seq(Item) /\ Len(stack) \in Nat
           /\ Depth \in Nat \ {0} /\ Depth \in 1 .. MaxDepth /\ DOMAIN frames = 1 .. Depth
           /\ \A f \in 1 .. Depth :
                 /\ frames[f] \in [base : Nat, users : 0 .. MaxUsers, call : Call]
                 /\ frames[f].base \in Nat /\ frames[f].users \in 0 .. MaxUsers /\ frames[f].users \in Nat
                 /\ frames[f].call \in Call /\ frames[f].call.handler \in Handlers
                 /\ frames[f].call.into \in Objects
                 /\ frames[f].call.rets \in {MULTRET} \cup 0 .. MaxRets
                 /\ frames[f].call.kind \in Kinds
           /\ \A o \in Objects : res[o] # Gone =>
                 /\ res[o] \in Result /\ res[o].index \in Nat /\ res[o].returncount \in Nat
                 /\ res[o].popcount \in Nat /\ res[o].call \in Calls /\ res[o].kind \in Kinds
<1> DEFINE R == [base : Nat, users : 0 .. MaxUsers, call : Call]
<1>1. stack \in Seq(Item) /\ Len(stack) \in Nat
  BY LenProperties DEF TypeOK
<1>2. frames \in Seq(R) /\ Depth \in 1 .. MaxDepth
  BY DEF TypeOK
<1>3. Depth \in Nat \ {0} /\ DOMAIN frames = 1 .. Depth /\ \A f \in 1 .. Depth : frames[f] \in R
  <2> HIDE DEF R
  <2>1. Depth \in Nat /\ DOMAIN frames = 1 .. Depth /\ \A f \in 1 .. Depth : frames[f] \in R
    BY <1>2, LenProperties DEF Depth
  <2> QED BY <2>1, <1>2
<1>4. ASSUME NEW x \in Call
      PROVE  /\ x.handler \in Handlers /\ x.into \in Objects /\ x.kind \in Kinds
             /\ x.rets \in {MULTRET} \cup 0 .. MaxRets
  BY DEF Call
<1>5. ASSUME NEW x \in R
      PROVE  x.base \in Nat /\ x.users \in 0 .. MaxUsers /\ x.users \in Nat /\ x.call \in Call
  <2>1. x.base \in Nat /\ x.users \in 0 .. MaxUsers /\ x.call \in Call
    OBVIOUS
  <2> QED BY <2>1, CallAssumption
<1>6. ASSUME NEW o \in Objects, res[o] # Gone
      PROVE  /\ res[o] \in Result /\ res[o].index \in Nat /\ res[o].returncount \in Nat
             /\ res[o].popcount \in Nat /\ res[o].call \in Calls /\ res[o].kind \in Kinds
  <2>1. res[o] \in Result
    BY <1>6 DEF TypeOK
  <2> QED BY <2>1 DEF Result
<1> HIDE DEF R
<1>7. \A f \in 1 .. Depth :
         /\ frames[f].base \in Nat /\ frames[f].users \in 0 .. MaxUsers /\ frames[f].users \in Nat
         /\ frames[f].call \in Call /\ frames[f].call.handler \in Handlers
         /\ frames[f].call.into \in Objects
         /\ frames[f].call.rets \in {MULTRET} \cup 0 .. MaxRets /\ frames[f].call.kind \in Kinds
  BY <1>3, <1>4, <1>5
<1> QED BY <1>1, <1>2, <1>3, <1>6, <1>7 DEF R

LEMMA GoneFacts == \A r \in Result : r # Gone
BY DEF Result, Gone, Kinds

-----------------------------------------------------------------------------
(* What the invariant says of the frames.                                  *)

LEMMA TopFacts ==
    ASSUME TypeOK, FramesSound
    PROVE  /\ Base = frames[Depth].base /\ Base \in 0 .. Len(stack)
           /\ \A f \in 1 .. Depth :
                 /\ Handed(f) \in 0 .. 1 /\ Top(f) \in Nat
                 /\ frames[f].base <= Top(f) /\ Top(f) <= Len(stack)
                 /\ \A g \in 1 .. Depth : f < g => Top(f) <= frames[g].base - 1 - Handed(g)
<1>1. /\ Len(stack) \in Nat /\ Depth \in Nat \ {0}
      /\ \A f \in 1 .. Depth : frames[f].base \in Nat
  BY TypeFacts
<1>2. Base = frames[Depth].base /\ Base \in 0 .. Len(stack)
  BY <1>1 DEF Base, FramesSound
<1>3. \A f : Handed(f) \in 0 .. 1
  BY DEF Handed
<1>4. ASSUME NEW f \in 1 .. Depth, f # Depth
      PROVE  /\ f + 1 \in 1 .. Depth /\ f < f + 1
             /\ Top(f) = frames[f + 1].base - 1 - Handed(f + 1)
             /\ frames[f].base <= Top(f) /\ Top(f) < frames[f + 1].base
  <2>1. f + 1 \in 1 .. Depth /\ f < f + 1
    BY <1>1, <1>4
  <2>2. frames[f].base + Handed(f + 1) < frames[f + 1].base
    BY <2>1 DEF FramesSound
  <2>3. Top(f) = frames[f + 1].base - 1 - Handed(f + 1)
    BY <1>4 DEF Top
  <2>4. frames[f].base \in Nat /\ frames[f + 1].base \in Nat /\ Handed(f + 1) \in 0 .. 1
    BY <1>1, <1>3, <2>1
  <2> QED BY <2>1, <2>2, <2>3, <2>4
<1>5. ASSUME NEW f \in 1 .. Depth
      PROVE  Top(f) \in Nat /\ frames[f].base <= Top(f) /\ Top(f) <= Len(stack)
  <2>1. CASE f = Depth
    BY <2>1, <1>1, <1>2 DEF Top
  <2>2. CASE f # Depth
    <3>1. frames[f + 1].base <= Len(stack) /\ frames[f].base \in Nat /\ frames[f + 1].base \in Nat
      BY <1>1, <1>4, <2>2 DEF FramesSound
    <3>2. Handed(f + 1) \in 0 .. 1
      BY <1>3
    <3> QED BY <1>1, <1>4, <2>2, <3>1, <3>2, SMTT(30)
  <2> QED BY <2>1, <2>2
<1>6. ASSUME NEW f \in 1 .. Depth, NEW g \in 1 .. Depth, f < g
      PROVE  Top(f) <= frames[g].base - 1 - Handed(g)
  <2>1. f # Depth
    BY <1>1, <1>6
  <2>2. CASE g = f + 1
    BY <2>1, <2>2, <1>4, <1>1, <1>3
  <2>3. CASE g # f + 1
    <3>1. f + 1 \in 1 .. Depth /\ f + 1 < g
      BY <1>1, <1>6, <2>1, <2>3
    <3>2. frames[f + 1].base + Handed(g) < frames[g].base
      BY <3>1 DEF FramesSound
    <3>3. Top(f) < frames[f + 1].base
      BY <2>1, <1>4
    <3>4. frames[f + 1].base \in Nat /\ frames[g].base \in Nat /\ Handed(g) \in 0 .. 1 /\ Top(f) \in Nat
      BY <3>1, <1>1, <1>3, <1>5
    <3> QED BY <3>2, <3>3, <3>4
  <2> QED BY <2>2, <2>3
<1> QED BY <1>2, <1>3, <1>5, <1>6

\* What an object owns is on the stack, over the base of its frame and below the
\* next frame, and no two own the same place.
LEMMA OwnerFacts ==
    ASSUME IInv, NEW o \in Objects, Owns(o)
    PROVE  /\ res[o].frame \in 1 .. Depth /\ res[o].popcount = res[o].returncount
           /\ res[o].popcount \in Nat \ {0} /\ res[o].index \in Nat \ {0}
           /\ \A i \in Span(o) :
                 /\ i \in 1 .. Len(stack) /\ stack[i] = Val(res[o].call)
                 /\ frames[res[o].frame].base < i /\ i <= Top(res[o].frame)
                 /\ \A g \in 1 .. Depth : res[o].frame < g => i < frames[g].base - Handed(g)
<1> DEFINE f == res[o].frame
           n == res[o].popcount
           x == res[o].index
<1>1. res[o] # Gone /\ n > 0
  BY DEF Owns
<1>2. x \in Nat /\ n \in Nat
  BY <1>1, TypeFacts DEF IInv
<1>3. /\ f \in 1 .. Depth /\ n = res[o].returncount /\ x >= 1
      /\ frames[f].base + x + n - 1 <= Top(f)
      /\ \A i \in Span(o) : stack[i] = Val(res[o].call)
  BY <1>1 DEF IInv, ResultsSound, ResultSound
<1>4. /\ Top(f) \in Nat /\ Top(f) <= Len(stack)
      /\ \A g \in 1 .. Depth : f < g => Top(f) <= frames[g].base - 1 - Handed(g)
  BY <1>3, TopFacts DEF IInv
<1>5. /\ frames[f].base \in Nat /\ Len(stack) \in Nat
      /\ \A g \in 1 .. Depth : frames[g].base \in Nat
  BY <1>3, TypeFacts DEF IInv
<1>6. Span(o) = frames[f].base + x .. frames[f].base + x + n - 1
  BY DEF Span
<1> HIDE DEF f, n, x
<1>7. ASSUME NEW i \in Span(o)
      PROVE  /\ i \in 1 .. Len(stack) /\ frames[f].base < i /\ i <= Top(f)
             /\ \A g \in 1 .. Depth : f < g => i < frames[g].base - Handed(g)
  <2>1. i \in Int /\ frames[f].base + x <= i /\ i <= frames[f].base + x + n - 1
    BY <1>2, <1>5, <1>6
  <2>2. frames[f].base < i /\ i <= Top(f)
    <3>1. /\ frames[f].base \in Nat /\ Top(f) \in Nat /\ x >= 1
          /\ frames[f].base + x + n - 1 <= Top(f)
      BY <1>3, <1>4, <1>5
    <3> QED BY <2>1, <1>2, <3>1
  <2>3. i \in 1 .. Len(stack)
    BY <2>1, <2>2, <1>4, <1>5
  <2>4. ASSUME NEW g \in 1 .. Depth, f < g PROVE i < frames[g].base - Handed(g)
    <3>1. Top(f) <= frames[g].base - 1 - Handed(g) /\ Handed(g) \in 0 .. 1 /\ frames[g].base \in Nat
      BY <2>4, <1>4, <1>5 DEF Handed
    <3> QED BY <3>1, <2>1, <2>2, <1>4
  <2> QED BY <2>2, <2>3, <2>4
<1>8. x \in Nat \ {0} /\ n \in Nat \ {0}
  BY <1>1, <1>2, <1>3 DEF n
<1> QED BY <1>3, <1>7, <1>8 DEF f, n, x

-----------------------------------------------------------------------------
(* Steps that leave the frames below, or cut some off.                     *)

Users(st, a, b) == {i \in a .. b : st[i] = User}

\* The last frame left keeps its place, what lies below it is as it was, and
\* its own values are counted.
KeepsFrames(d, b) ==
    /\ Depth' = d /\ d \in 1 .. Depth /\ frames[d].base = b
    /\ \A g \in 1 .. d : frames'[g].base = frames[g].base /\ frames'[g].call = frames[g].call
    /\ \A g \in 1 .. d : g # d => frames'[g].users = frames[g].users
    /\ b <= Len(stack')
    /\ \A i \in 1 .. b : stack'[i] = stack[i]
    /\ \A i \in 1 .. Len(stack') : stack'[i] = H => i <= b
    /\ \A g \in 2 .. d : res'[frames[g].call.into] = Gone
    /\ Cardinality(Users(stack', b + 1, Len(stack'))) = frames'[d].users

LEMMA FramesSoundKept ==
    ASSUME TypeOK, TypeOK', FramesSound, NEW d, NEW b, KeepsFrames(d, b)
    PROVE  FramesSound'
<1>1. /\ Depth' = d /\ d \in 1 .. Depth /\ frames[d].base = b /\ b <= Len(stack')
      /\ \A g \in 1 .. d : frames'[g].base = frames[g].base /\ frames'[g].call = frames[g].call
      /\ \A i \in 1 .. b : stack'[i] = stack[i]
  BY DEF KeepsFrames
<1>2. /\ Depth \in Nat \ {0} /\ d \in Nat \ {0} /\ Len(stack') \in Nat
      /\ \A g \in 1 .. Depth : frames[g].base \in Nat
      /\ 1 \in 1 .. d
  <2>1. Depth \in Nat \ {0} /\ \A g \in 1 .. Depth : frames[g].base \in Nat
    BY TypeFacts
  <2>2. stack' \in Seq(Item)
    BY DEF TypeOK
  <2>3. Len(stack') \in Nat
    BY <2>2, LenProperties
  <2>4. d \in Nat \ {0} /\ 1 \in 1 .. d
    BY <1>1, <2>1
  <2> QED BY <2>1, <2>3, <2>4
<1>3. /\ \A g \in 1 .. d : g \in 1 .. Depth
      /\ \A g \in 2 .. d : g \in 2 .. Depth /\ g \in 1 .. d /\ g - 1 \in 1 .. d
  BY <1>1, <1>2
<1>4. ASSUME NEW g \in 1 .. d PROVE frames[g].base \in 0 .. b
  <2>1. CASE g = d
    BY <2>1, <1>1, <1>2
  <2>2. CASE g # d
    <3>1. g < d /\ g \in 1 .. Depth /\ d \in 1 .. Depth
      BY <2>2, <1>1, <1>2
    <3>2. frames[g].base + Handed(d) < frames[d].base
      BY <3>1 DEF FramesSound
    <3>3. Handed(d) \in 0 .. 1 /\ frames[g].base \in Nat /\ b \in Nat
      BY <3>1, <1>1, <1>2 DEF Handed
    <3> QED BY <3>2, <3>3, <1>1
  <2> QED BY <2>1, <2>2
<1>5. \A g \in 1 .. d : Handed(g)' = Handed(g)
  BY <1>1 DEF Handed
<1>6. frames'[1].base = 0
  BY <1>1, <1>2 DEF FramesSound
<1>7. \A g \in 1 .. d : frames'[g].base <= Len(stack')
  <2>1. b \in Nat
    BY <1>1, <1>2
  <2> QED BY <1>1, <1>2, <1>4, <2>1
<1>8. \A g, h \in 1 .. d : g < h => frames'[g].base + Handed(h)' < frames'[h].base
  BY <1>1, <1>3, <1>5 DEF FramesSound
<1>9. ASSUME NEW g \in 2 .. d
      PROVE  /\ stack'[frames'[g].base] = F
             /\ frames'[g].call.handler # "elsewhere"
             /\ frames'[g].call.handler = "here" =>
                   /\ stack'[frames'[g].base - 1] = H
                   /\ frames'[g].call.stackindex = frames'[g].base - 1 - frames'[g - 1].base
             /\ frames'[g].call.first = frames'[g].base - frames'[g - 1].base - Handed(g)'
  <2>1. g \in 2 .. Depth /\ g \in 1 .. d /\ g - 1 \in 1 .. d /\ g - 1 < g /\ g \in 1 .. Depth /\ g - 1 \in 1 .. Depth
    BY <1>1, <1>2, <1>3
  <2>2. /\ stack[frames[g].base] = F
        /\ frames[g].call.handler # "elsewhere"
        /\ frames[g].call.handler = "here" =>
              /\ stack[frames[g].base - 1] = H
              /\ frames[g].call.stackindex = frames[g].base - 1 - frames[g - 1].base
        /\ frames[g].call.first = frames[g].base - frames[g - 1].base - Handed(g)
    BY <2>1 DEF FramesSound
  <2>3. /\ frames'[g].base = frames[g].base /\ frames'[g - 1].base = frames[g - 1].base
        /\ frames'[g].call = frames[g].call /\ Handed(g)' = Handed(g)
    BY <2>1, <1>1, <1>5
  <2>4. frames[g - 1].base + Handed(g) < frames[g].base
    BY <2>1 DEF FramesSound
  <2>5. frames[g - 1].base \in Nat /\ frames[g].base \in 0 .. b /\ Handed(g) \in 0 .. 1 /\ b \in Nat
    BY <2>1, <1>1, <1>2, <1>4 DEF Handed
  <2>6. frames[g].base \in 1 .. b
    BY <2>4, <2>5
  <2>7. stack'[frames[g].base] = stack[frames[g].base]
    BY <2>6, <1>1
  <2>8. frames[g].call.handler = "here" => stack'[frames[g].base - 1] = stack[frames[g].base - 1]
    <3>1. HAVE frames[g].call.handler = "here"
    <3>2. Handed(g) = 1
      BY <3>1 DEF Handed
    <3>3. frames[g].base - 1 \in 1 .. b
      BY <3>2, <2>4, <2>5
    <3> QED BY <3>3, <1>1
  <2> QED BY <2>2, <2>3, <2>7, <2>8
<1> QED BY <1>1, <1>6, <1>7, <1>8, <1>9 DEF FramesSound

LEMMA TargetsSoundKept ==
    ASSUME TypeOK, TargetsSound, NEW d, NEW b, KeepsFrames(d, b)
    PROVE  TargetsSound'
<1>1. /\ Depth' = d /\ d \in 1 .. Depth
      /\ \A g \in 1 .. d : frames'[g].call = frames[g].call
      /\ \A g \in 2 .. d : res'[frames[g].call.into] = Gone
  BY DEF KeepsFrames
<1>2. \A g \in 2 .. d : g \in 2 .. Depth /\ g \in 1 .. d
  BY <1>1, TypeFacts
<1>3. \A g \in 2 .. d : res'[frames'[g].call.into] = Gone
  BY <1>1, <1>2
<1>4. \A g, h \in 2 .. d : frames'[g].call.into = frames'[h].call.into => g = h
  BY <1>1, <1>2 DEF TargetsSound
<1> QED BY <1>1, <1>3, <1>4 DEF TargetsSound

LEMMA HandlersPlacedKept ==
    ASSUME TypeOK, FramesSound, HandlersPlaced, NEW d, NEW b, KeepsFrames(d, b)
    PROVE  HandlersPlaced'
<1>1. /\ Depth' = d /\ d \in 1 .. Depth /\ frames[d].base = b
      /\ \A g \in 1 .. d : frames'[g].base = frames[g].base /\ frames'[g].call = frames[g].call
      /\ \A i \in 1 .. b : stack'[i] = stack[i]
      /\ \A i \in 1 .. Len(stack') : stack'[i] = H => i <= b
  BY DEF KeepsFrames
<1>2. /\ Depth \in Nat \ {0} /\ Len(stack) \in Nat /\ b \in Nat /\ b <= Len(stack)
      /\ \A g \in 1 .. Depth : frames[g].base \in Nat
  BY <1>1, TypeFacts DEF FramesSound
<1> SUFFICES ASSUME NEW i \in 1 .. Len(stack'), stack'[i] = H
             PROVE  \E g \in 2 .. d : frames'[g].call.handler = "here" /\ i = frames'[g].base - 1
  BY <1>1 DEF HandlersPlaced
<1>3. i \in 1 .. b /\ i \in 1 .. Len(stack) /\ stack[i] = H
  <2>1. i \in Nat \ {0} /\ i <= b
    BY <1>1
  <2> QED BY <2>1, <1>1, <1>2
<1>4. PICK g \in 2 .. Depth : frames[g].call.handler = "here" /\ i = frames[g].base - 1
  BY <1>3 DEF HandlersPlaced
<1>5. g <= d
  <2>1. SUFFICES ASSUME g > d PROVE FALSE
    BY <1>1, <1>2
  <2>2. d < g /\ d \in 1 .. Depth /\ g \in 1 .. Depth
    BY <2>1, <1>1, <1>2
  <2>3. frames[d].base + Handed(g) < frames[g].base
    BY <2>2 DEF FramesSound
  <2>4. Handed(g) = 1
    BY <1>4 DEF Handed
  <2>5. frames[g].base \in Nat /\ b + 1 < frames[g].base
    BY <2>2, <2>3, <2>4, <1>1, <1>2
  <2> QED BY <2>5, <1>2, <1>3, <1>4
<1>6. g \in 2 .. d /\ g \in 1 .. d
  BY <1>1, <1>2, <1>5
<1> QED BY <1>1, <1>4, <1>6

LEMMA NothingTakenKept ==
    ASSUME TypeOK, FramesSound, NothingTaken, NEW d, NEW b, KeepsFrames(d, b)
    PROVE  NothingTaken'
<1>1. /\ Depth' = d /\ d \in 1 .. Depth /\ frames[d].base = b /\ b <= Len(stack')
      /\ \A g \in 1 .. d : frames'[g].base = frames[g].base
      /\ \A g \in 1 .. d : g # d => frames'[g].users = frames[g].users
      /\ \A i \in 1 .. b : stack'[i] = stack[i]
      /\ Cardinality(Users(stack', b + 1, Len(stack'))) = frames'[d].users
  BY DEF KeepsFrames
<1>2. /\ Depth \in Nat \ {0} /\ Len(stack) \in Nat
      /\ \A g \in 1 .. Depth : frames[g].base \in Nat
  BY TypeFacts
<1>3. \A g \in 1 .. d : {i \in Extent(g) : stack[i] = User}'
                           = Users(stack', frames'[g].base + 1, IF g = d THEN Len(stack') ELSE frames'[g + 1].base - 1)
  BY <1>1 DEF Users, Extent
<1>4. \A g \in 1 .. Depth : {i \in Extent(g) : stack[i] = User}
                           = Users(stack, frames[g].base + 1, IF g = Depth THEN Len(stack) ELSE frames[g + 1].base - 1)
  BY DEF Users, Extent
<1> SUFFICES ASSUME NEW g \in 1 .. d
             PROVE  Cardinality(Users(stack', frames'[g].base + 1, IF g = d THEN Len(stack') ELSE frames'[g + 1].base - 1))
                       = frames'[g].users
  BY <1>1, <1>3 DEF NothingTaken
<1>5. CASE g = d
  BY <1>1, <1>5
<1>6. CASE g # d
  <2>1. g \in 1 .. Depth /\ g # Depth /\ g + 1 \in 1 .. d /\ g + 1 \in 1 .. Depth
    BY <1>1, <1>2, <1>6
  <2>2. Cardinality(Users(stack, frames[g].base + 1, frames[g + 1].base - 1)) = frames[g].users
    BY <2>1, <1>4 DEF NothingTaken
  <2>3. frames'[g].base = frames[g].base /\ frames'[g + 1].base = frames[g + 1].base /\ frames'[g].users = frames[g].users
    BY <2>1, <1>1, <1>6
  <2>4. frames[g + 1].base <= b
    <3>1. CASE g + 1 = d
      BY <3>1, <1>1, <1>2
    <3>2. CASE g + 1 # d
      <4>1. g + 1 < d
        BY <3>2, <2>1, <1>1, <1>2
      <4>2. frames[g + 1].base + Handed(d) < frames[d].base
        BY <4>1, <2>1, <1>1 DEF FramesSound
      <4>3. Handed(d) \in 0 .. 1 /\ frames[g + 1].base \in Nat /\ frames[d].base \in Nat
        BY <1>1, <1>2, <2>1 DEF Handed
      <4> QED BY <4>2, <4>3, <1>1
    <3> QED BY <3>1, <3>2
  <2>5. Users(stack', frames[g].base + 1, frames[g + 1].base - 1) = Users(stack, frames[g].base + 1, frames[g + 1].base - 1)
    <3>1. frames[g].base \in Nat /\ frames[g + 1].base \in Nat /\ b \in Nat
      BY <2>1, <1>1, <1>2
    <3>2. \A i \in frames[g].base + 1 .. frames[g + 1].base - 1 : i \in 1 .. b
      BY <3>1, <2>4
    <3> QED BY <3>2, <1>1 DEF Users
  <2> QED BY <2>2, <2>3, <2>5, <1>6
<1> QED BY <1>5, <1>6

LEMMA FramesKept ==
    ASSUME IInv, TypeOK', elsewhere' = elsewhere, NEW d, NEW b, KeepsFrames(d, b),
           ResultsSound', SpansApart', ValuesOwned'
    PROVE  IInv'
<1>1. FramesSound'
  BY FramesSoundKept DEF IInv
<1>2. TargetsSound'
  BY TargetsSoundKept DEF IInv
<1>3. HandlersPlaced'
  BY HandlersPlacedKept DEF IInv
<1>4. NothingTaken'
  BY NothingTakenKept DEF IInv
<1> QED BY <1>1, <1>2, <1>3, <1>4 DEF IInv

\* How far frame f reaches after a step.
NewTop(f) ==
    IF f = Depth' THEN Len(stack')
    ELSE frames'[f + 1].base - 1 - (IF frames'[f + 1].call.handler = "none" THEN 0 ELSE 1)

LEMMA NewTopFacts == \A f : Top(f)' = NewTop(f)
BY DEF Top, NewTop, Handed

\* The last frame left reaches to the top now.
LEMMA TopKept ==
    ASSUME TypeOK, NEW d, NEW b, KeepsFrames(d, b)
    PROVE  /\ NewTop(d) = Len(stack')
           /\ \A g \in 1 .. Depth : g < d => NewTop(g) = Top(g)
<1>1. /\ Depth' = d /\ d \in 1 .. Depth
      /\ \A g \in 1 .. d : frames'[g].base = frames[g].base /\ frames'[g].call = frames[g].call
  BY DEF KeepsFrames
<1>2. Depth \in Nat \ {0}
  BY TypeFacts
<1>3. NewTop(d) = Len(stack')
  BY <1>1 DEF NewTop
<1>4. ASSUME NEW g \in 1 .. Depth, g < d PROVE NewTop(g) = Top(g)
  <2>1. g + 1 \in 1 .. d /\ g # d /\ g # Depth
    BY <1>1, <1>2, <1>4
  <2>2. frames'[g + 1].base = frames[g + 1].base /\ frames'[g + 1].call = frames[g + 1].call
    BY <2>1, <1>1
  <2> QED BY <2>1, <2>2, <1>1 DEF NewTop, Top, Handed
<1> QED BY <1>3, <1>4

\* A result object left alone stays sound where its values stay.
LEMMA ResultKept ==
    ASSUME IInv, NEW o \in Objects, res'[o] = res[o], res[o] # Gone,
           res[o].frame \in 1 .. Depth',
           frames'[res[o].frame].base = frames[res[o].frame].base,
           Owns(o) => \A i \in Span(o) : i <= NewTop(res[o].frame) /\ stack'[i] = stack[i]
    PROVE  ResultSound(o)' /\ Owns(o)' = Owns(o) /\ Span(o)' = Span(o)
<1>1. ResultSound(o)
  BY DEF IInv, ResultsSound
<1>2. Owns(o)' = Owns(o) /\ Span(o)' = Span(o)
  BY DEF Owns, Span
<1>3. ASSUME Owns(o)
      PROVE  /\ res[o].index >= 1
             /\ frames[res[o].frame].base + res[o].index + res[o].popcount - 1 <= NewTop(res[o].frame)
             /\ \A i \in Span(o) : stack'[i] = Val(res[o].call)
  <2>1. /\ res[o].index \in Nat \ {0} /\ res[o].popcount \in Nat \ {0} /\ res[o].frame \in 1 .. Depth
        /\ \A i \in Span(o) : stack[i] = Val(res[o].call)
    BY <1>3, OwnerFacts
  <2>2. frames[res[o].frame].base \in Nat
    BY <2>1, TypeFacts DEF IInv
  <2>3. frames[res[o].frame].base + res[o].index + res[o].popcount - 1 \in Span(o)
    BY <2>1, <2>2 DEF Span
  <2> QED BY <1>3, <2>1, <2>3
<1>4. res[o].frame \in 1 .. Depth' /\ res[o].popcount = res[o].returncount
  BY <1>1 DEF ResultSound
<1>5. Top(res[o].frame)' = NewTop(res[o].frame)
  BY NewTopFacts
<1> QED BY <1>2, <1>3, <1>4, <1>5 DEF ResultSound

LEMMA OwnersKept ==
    ASSUME IInv, res' = res, Depth' \in Nat, Depth <= Depth',
           \A f \in 1 .. Depth : frames'[f].base = frames[f].base,
           \A o \in Objects : Owns(o) =>
              \A i \in Span(o) : i <= NewTop(res[o].frame) /\ stack'[i] = stack[i]
    PROVE  /\ ResultsSound' /\ SpansApart'
           /\ \A o \in Objects : Owns(o) => Owns(o)' /\ Span(o)' = Span(o)
<1>1. Depth \in Nat
  BY TypeFacts DEF IInv
<1>2. ASSUME NEW o \in Objects, res[o] # Gone
      PROVE  ResultSound(o)' /\ Owns(o)' = Owns(o) /\ Span(o)' = Span(o)
  <2>1. res[o].frame \in 1 .. Depth
    BY <1>2 DEF IInv, ResultsSound, ResultSound
  <2>2. res[o].frame \in 1 .. Depth' /\ frames'[res[o].frame].base = frames[res[o].frame].base
    BY <2>1, <1>1
  <2> QED BY <1>2, <2>2, ResultKept
<1>3. \A o \in Objects : Owns(o)' => Owns(o)
  BY DEF Owns
<1>4. \A o \in Objects : Owns(o) => res[o] # Gone
  BY DEF Owns
<1>5. ResultsSound'
  BY <1>2 DEF ResultsSound
<1>6. \A o \in Objects : Owns(o) => Owns(o)' /\ Span(o)' = Span(o)
  BY <1>2, <1>4
<1>7. SpansApart'
  BY <1>3, <1>6 DEF IInv, SpansApart
<1> QED BY <1>5, <1>6, <1>7

\* Handlers lie below the running function.
LEMMA HandlersBelow ==
    ASSUME IInv, NEW i \in 1 .. Len(stack), stack[i] = H
    PROVE  i <= Base /\ i < Len(stack)
<1>1. PICK f \in 2 .. Depth : i = frames[f].base - 1
  BY DEF IInv, HandlersPlaced
<1>2. /\ Depth \in Nat \ {0} /\ Len(stack) \in Nat /\ f \in 1 .. Depth
      /\ frames[f].base \in Nat /\ frames[f].base <= Len(stack)
      /\ Base = frames[Depth].base /\ Base \in Nat
  <2>1. f \in 1 .. Depth
    BY TypeFacts DEF IInv
  <2> QED BY <2>1, TypeFacts, TopFacts, SMTT(30) DEF IInv, FramesSound
<1>3. frames[f].base <= Base
  <2>1. CASE f = Depth
    BY <2>1, <1>2
  <2>2. CASE f # Depth
    <3>1. f < Depth /\ Depth \in 1 .. Depth
      BY <2>2, <1>2
    <3>2. frames[f].base + Handed(Depth) < frames[Depth].base /\ Handed(Depth) \in 0 .. 1
      BY <3>1, <1>2 DEF IInv, FramesSound, Handed
    <3> QED BY <3>2, <1>2
  <2> QED BY <2>1, <2>2
<1> QED BY <1>1, <1>2, <1>3, SMTT(30)

LEMMA UsersFinite ==
    ASSUME NEW st, NEW a \in Int, NEW b \in Int
    PROVE  IsFiniteSet(Users(st, a, b))
<1>1. IsFiniteSet(a .. b)
  BY FS_Interval
<1>2. Users(st, a, b) \in SUBSET (a .. b)
  BY DEF Users
<1> QED BY <1>1, <1>2, FS_Subset

LEMMA RunningUsers ==
    ASSUME IInv
    PROVE  /\ Cardinality(Users(stack, Base + 1, Len(stack))) = frames[Depth].users
           /\ IsFiniteSet(Users(stack, Base + 1, Len(stack)))
<1>1. Depth \in 1 .. Depth /\ Base \in Nat /\ Len(stack) \in Nat
  BY TypeFacts DEF IInv, Base
<1>2. {i \in Extent(Depth) : stack[i] = User} = Users(stack, Base + 1, Len(stack))
  BY DEF Extent, Users, Base
<1>3. Cardinality(Users(stack, Base + 1, Len(stack))) = frames[Depth].users
  BY <1>1, <1>2 DEF IInv, NothingTaken
<1> QED BY <1>1, <1>3, UsersFinite

-----------------------------------------------------------------------------
(* The program's own values.                                               *)

\* What the program does with its own values changes their number only.
LEMMA UsersChanged ==
    ASSUME IInv, NEW n \in 0 .. MaxUsers, frames' = [frames EXCEPT ![Depth].users = n]
    PROVE  /\ Depth' = Depth /\ frames' \in Seq([base : Nat, users : 0 .. MaxUsers, call : Call])
           /\ frames'[Depth].users = n
           /\ \A g \in 1 .. Depth : /\ frames'[g].base = frames[g].base /\ frames'[g].call = frames[g].call
                                    /\ g # Depth => frames'[g].users = frames[g].users
<1> DEFINE R == [base : Nat, users : 0 .. MaxUsers, call : Call]
           e == [frames[Depth] EXCEPT !.users = n]
<1>1. Depth \in 1 .. Depth /\ frames \in Seq(R) /\ frames[Depth] \in R
  <2>1. Depth \in 1 .. Depth /\ frames[Depth] \in R
    BY TypeFacts DEF IInv
  <2> QED BY <2>1 DEF IInv, TypeOK
<1>2. e \in R /\ e.base = frames[Depth].base /\ e.call = frames[Depth].call /\ e.users = n
  BY <1>1
<1>3. frames' = [frames EXCEPT ![Depth] = e]
  BY <1>1
<1> HIDE DEF R, e
<1>4. /\ frames' \in Seq(R) /\ Len(frames') = Len(frames)
      /\ \A g \in 1 .. Len(frames) : frames'[g] = IF g = Depth THEN e ELSE frames[g]
  <2>1. Depth \in 1 .. Len(frames)
    BY <1>1 DEF Depth
  <2> QED BY <2>1, <1>1, <1>2, <1>3, ExceptSeq
<1>5. Depth' = Depth /\ Depth = Len(frames)
  BY <1>4 DEF Depth
<1> QED BY <1>1, <1>2, <1>4, <1>5 DEF R

LEMMA PushUserKeeps == ASSUME IInv, PushUser PROVE IInv'
<1>1. /\ frames[Depth].users < MaxUsers /\ stack' = Append(stack, User)
      /\ frames' = [frames EXCEPT ![Depth].users = frames[Depth].users + 1]
      /\ elsewhere' = elsewhere /\ res' = res
  BY DEF PushUser
<1>2. /\ Depth \in Nat \ {0} /\ Depth \in 1 .. Depth /\ Depth \in 1 .. MaxDepth
      /\ stack \in Seq(Item) /\ Len(stack) \in Nat
      /\ frames[Depth].users \in 0 .. MaxUsers /\ frames[Depth].users \in Nat
      /\ Base \in 0 .. Len(stack) /\ Base = frames[Depth].base
  BY TypeFacts, TopFacts DEF IInv
<1>3. frames[Depth].users + 1 \in 0 .. MaxUsers
  BY <1>1, <1>2, CallAssumption, SMTT(30)
<1>4. /\ Depth' = Depth /\ frames' \in Seq([base : Nat, users : 0 .. MaxUsers, call : Call])
      /\ frames'[Depth].users = frames[Depth].users + 1
      /\ \A g \in 1 .. Depth : /\ frames'[g].base = frames[g].base /\ frames'[g].call = frames[g].call
                               /\ g # Depth => frames'[g].users = frames[g].users
  BY <1>1, <1>3, UsersChanged
<1>5. /\ stack' \in Seq(Item) /\ Len(stack') = Len(stack) + 1
      /\ \A i \in 1 .. Len(stack) : stack'[i] = stack[i]
      /\ stack'[Len(stack) + 1] = User
  BY <1>1, <1>2, AppendProperties, ItemFacts
<1>6. TypeOK'
  BY <1>1, <1>2, <1>4, <1>5 DEF IInv, TypeOK
<1>7. KeepsFrames(Depth, Base)
  <2>1. Cardinality(Users(stack', Base + 1, Len(stack'))) = frames'[Depth].users
    <3>1. Users(stack', Base + 1, Len(stack')) = Users(stack, Base + 1, Len(stack)) \cup {Len(stack) + 1}
      <4>1. \A i \in Base + 1 .. Len(stack) + 1 : i \in 1 .. Len(stack) \/ i = Len(stack) + 1
        BY <1>2
      <4>2. Len(stack) + 1 \in Base + 1 .. Len(stack) + 1
        BY <1>2
      <4>3. \A i \in Base + 1 .. Len(stack) : i \in 1 .. Len(stack) /\ i \in Base + 1 .. Len(stack) + 1
        BY <1>2
      <4>4. \A i \in Base + 1 .. Len(stack) + 1 : i # Len(stack) + 1 => i \in Base + 1 .. Len(stack)
        BY <1>2
      <4> QED BY <4>1, <4>2, <4>3, <4>4, <1>5 DEF Users
    <3>2. Len(stack) + 1 \notin Users(stack, Base + 1, Len(stack))
      BY <1>2 DEF Users
    <3>3. /\ IsFiniteSet(Users(stack, Base + 1, Len(stack)))
          /\ Cardinality(Users(stack, Base + 1, Len(stack))) = frames[Depth].users
      BY RunningUsers
    <3> QED BY <3>1, <3>2, <3>3, <1>4, FS_AddElement
  <2>2. \A i \in 1 .. Len(stack') : stack'[i] = H => i <= Base
    <3>1. SUFFICES ASSUME NEW i \in 1 .. Len(stack'), stack'[i] = H PROVE i <= Base
      OBVIOUS
    <3>2. i \in 1 .. Len(stack) /\ stack[i] = H
      <4>1. i \in 1 .. Len(stack) \/ i = Len(stack) + 1
        BY <1>2, <1>5
      <4> QED BY <4>1, <3>1, <1>5, ItemFacts
    <3> QED BY <3>2, HandlersBelow
  <2>3. \A g \in 2 .. Depth : res'[frames[g].call.into] = Gone
    BY <1>1 DEF IInv, TargetsSound
  <2>4. Base <= Len(stack') /\ \A i \in 1 .. Base : stack'[i] = stack[i]
    BY <1>2, <1>5
  <2> QED BY <2>1, <2>2, <2>3, <2>4, <1>2, <1>4 DEF KeepsFrames
<1>8. \A o \in Objects : Owns(o) =>
         \A i \in Span(o) : i <= NewTop(res[o].frame) /\ stack'[i] = stack[i]
  <2>1. SUFFICES ASSUME NEW o \in Objects, Owns(o), NEW i \in Span(o)
                 PROVE  i <= NewTop(res[o].frame) /\ stack'[i] = stack[i]
    OBVIOUS
  <2>2. res[o].frame \in 1 .. Depth /\ i \in 1 .. Len(stack) /\ i <= Top(res[o].frame)
    BY <2>1, OwnerFacts
  <2>3. res[o].frame = Depth \/ res[o].frame < Depth
    BY <2>2, <1>2
  <2>4. NewTop(Depth) = Len(stack') /\ \A g \in 1 .. Depth : g < Depth => NewTop(g) = Top(g)
    BY <1>7, TopKept DEF IInv
  <2>5. stack'[i] = stack[i]
    BY <2>2, <1>5
  <2>6. CASE res[o].frame = Depth
    BY <2>2, <2>4, <2>5, <2>6, <1>2, <1>5
  <2>7. CASE res[o].frame < Depth
    BY <2>2, <2>4, <2>5, <2>7
  <2> QED BY <2>3, <2>6, <2>7
<1>9. /\ ResultsSound' /\ SpansApart'
      /\ \A o \in Objects : Owns(o) => Owns(o)' /\ Span(o)' = Span(o)
  <2>1. res' = res /\ Depth' \in Nat /\ Depth <= Depth' /\ \A f \in 1 .. Depth : frames'[f].base = frames[f].base
    BY <1>1, <1>2, <1>4
  <2> QED BY <2>1, <1>8, OwnersKept
<1>10. ValuesOwned'
  <2>1. SUFFICES ASSUME "assign_over" \notin Uses, NEW i \in 1 .. Len(stack'), NEW c \in Calls, stack'[i] = Val(c)
                 PROVE  \E o \in Objects : Owns(o)' /\ i \in Span(o)'
    BY DEF ValuesOwned
  <2>2. i \in 1 .. Len(stack) /\ stack[i] = Val(c)
    <3>1. i \in 1 .. Len(stack) \/ i = Len(stack) + 1
      BY <1>2, <1>5
    <3> QED BY <3>1, <2>1, <1>5, ItemFacts
  <2> QED BY <2>1, <2>2, <1>9 DEF IInv, ValuesOwned
<1> QED BY <1>1, <1>6, <1>7, <1>9, <1>10, FramesKept

LEMMA PopUserKeeps == ASSUME IInv, PopUser PROVE IInv'
<1>1. /\ frames[Depth].users > 0 /\ stack[Len(stack)] = User /\ stack' = Cut(stack, 1)
      /\ frames' = [frames EXCEPT ![Depth].users = frames[Depth].users - 1]
      /\ elsewhere' = elsewhere /\ res' = res
  BY DEF PopUser
<1>2. /\ Depth \in Nat \ {0} /\ Depth \in 1 .. Depth /\ Depth \in 1 .. MaxDepth
      /\ stack \in Seq(Item) /\ Len(stack) \in Nat
      /\ frames[Depth].users \in 0 .. MaxUsers /\ frames[Depth].users \in Nat
      /\ Base \in 0 .. Len(stack) /\ Base = frames[Depth].base
  BY TypeFacts, TopFacts DEF IInv
<1>3. /\ IsFiniteSet(Users(stack, Base + 1, Len(stack)))
      /\ Cardinality(Users(stack, Base + 1, Len(stack))) = frames[Depth].users
  BY RunningUsers
<1>4. Base < Len(stack)
  <2>1. Users(stack, Base + 1, Len(stack)) # {}
    BY <1>1, <1>2, <1>3, FS_EmptySet
  <2>2. PICK i \in Base + 1 .. Len(stack) : TRUE
    BY <2>1 DEF Users
  <2> QED BY <2>2, <1>2
<1>5. frames[Depth].users - 1 \in 0 .. MaxUsers
  BY <1>1, <1>2, CallAssumption, SMTT(30)
<1>6. /\ Depth' = Depth /\ frames' \in Seq([base : Nat, users : 0 .. MaxUsers, call : Call])
      /\ frames'[Depth].users = frames[Depth].users - 1
      /\ \A g \in 1 .. Depth : /\ frames'[g].base = frames[g].base /\ frames'[g].call = frames[g].call
                               /\ g # Depth => frames'[g].users = frames[g].users
  BY <1>1, <1>5, UsersChanged
<1>7. /\ stack' \in Seq(Item) /\ Len(stack') = Len(stack) - 1
      /\ \A i \in 1 .. Len(stack) - 1 : stack'[i] = stack[i]
  <2>1. 1 \in 0 .. Len(stack)
    BY <1>2, <1>4
  <2> QED BY <2>1, <1>1, <1>2, CutFacts
<1>8. TypeOK'
  BY <1>1, <1>2, <1>6, <1>7 DEF IInv, TypeOK
<1>9. KeepsFrames(Depth, Base)
  <2>1. Cardinality(Users(stack', Base + 1, Len(stack'))) = frames'[Depth].users
    <3>1. Users(stack', Base + 1, Len(stack')) = Users(stack, Base + 1, Len(stack)) \ {Len(stack)}
      <4>1. \A i \in Base + 1 .. Len(stack) - 1 : i \in 1 .. Len(stack) - 1 /\ i \in Base + 1 .. Len(stack) /\ i # Len(stack)
        BY <1>2
      <4>2. \A i \in Base + 1 .. Len(stack) : i # Len(stack) => i \in Base + 1 .. Len(stack) - 1
        BY <1>2
      <4> QED BY <4>1, <4>2, <1>7 DEF Users
    <3>2. Len(stack) \in Users(stack, Base + 1, Len(stack))
      BY <1>1, <1>2, <1>4 DEF Users
    <3> QED BY <3>1, <3>2, <1>3, <1>6, FS_RemoveElement
  <2>2. \A i \in 1 .. Len(stack') : stack'[i] = H => i <= Base
    <3>1. SUFFICES ASSUME NEW i \in 1 .. Len(stack'), stack'[i] = H PROVE i <= Base
      OBVIOUS
    <3>2. i \in 1 .. Len(stack) /\ stack[i] = H
      BY <3>1, <1>2, <1>7
    <3> QED BY <3>2, HandlersBelow
  <2>3. \A g \in 2 .. Depth : res'[frames[g].call.into] = Gone
    BY <1>1 DEF IInv, TargetsSound
  <2>4. Base <= Len(stack') /\ \A i \in 1 .. Base : stack'[i] = stack[i]
    BY <1>2, <1>4, <1>7
  <2> QED BY <2>1, <2>2, <2>3, <2>4, <1>2, <1>6 DEF KeepsFrames
<1>10. \A o \in Objects : Owns(o) =>
          \A i \in Span(o) : i <= NewTop(res[o].frame) /\ stack'[i] = stack[i]
  <2>1. SUFFICES ASSUME NEW o \in Objects, Owns(o), NEW i \in Span(o)
                 PROVE  i <= NewTop(res[o].frame) /\ stack'[i] = stack[i]
    OBVIOUS
  <2>2. /\ res[o].frame \in 1 .. Depth /\ i \in 1 .. Len(stack) /\ i <= Top(res[o].frame)
        /\ stack[i] = Val(res[o].call)
    BY <2>1, OwnerFacts
  <2>3. i # Len(stack)
    BY <2>2, <1>1, ItemFacts
  <2>4. i \in 1 .. Len(stack) - 1
    BY <2>2, <2>3, <1>2
  <2>5. NewTop(Depth) = Len(stack') /\ \A g \in 1 .. Depth : g < Depth => NewTop(g) = Top(g)
    BY <1>9, TopKept DEF IInv
  <2>6. res[o].frame = Depth \/ res[o].frame < Depth
    BY <2>2, <1>2
  <2>7. CASE res[o].frame = Depth
    BY <2>4, <2>5, <2>7, <1>7
  <2>8. CASE res[o].frame < Depth
    BY <2>2, <2>4, <2>5, <2>8, <1>7
  <2> QED BY <2>6, <2>7, <2>8
<1>11. /\ ResultsSound' /\ SpansApart'
       /\ \A o \in Objects : Owns(o) => Owns(o)' /\ Span(o)' = Span(o)
  <2>1. res' = res /\ Depth' \in Nat /\ Depth <= Depth' /\ \A f \in 1 .. Depth : frames'[f].base = frames[f].base
    BY <1>1, <1>2, <1>6
  <2> QED BY <2>1, <1>10, OwnersKept
<1>12. ValuesOwned'
  <2>1. SUFFICES ASSUME "assign_over" \notin Uses, NEW i \in 1 .. Len(stack'), NEW c \in Calls, stack'[i] = Val(c)
                 PROVE  \E o \in Objects : Owns(o)' /\ i \in Span(o)'
    BY DEF ValuesOwned
  <2>2. i \in 1 .. Len(stack) /\ stack[i] = Val(c)
    BY <2>1, <1>2, <1>7
  <2> QED BY <2>1, <2>2, <1>11 DEF IInv, ValuesOwned
<1> QED BY <1>1, <1>8, <1>9, <1>11, <1>12, FramesKept

-----------------------------------------------------------------------------
(* A call begins.                                                          *)

\* What BeginCall pushes.
Under(handler)      == IF handler = "here" THEN Append(stack, H) ELSE stack
Pushed(handler, n)  == Append(Under(handler), F) \o Repeat(Arg, n)
Begun(o, kind, handler, rets, n) ==
    [kind |-> kind, handler |-> handler, rets |-> rets, into |-> o, args |-> n,
     first |-> FirstReturn(Len(Pushed(handler, n)) - Base, n, handler),
     stackindex |-> HandlerIndex(handler)]

HandlersUnder(handler) == IF handler = "none" THEN 0 ELSE 1

\* t is the stack with the handler, the function and n arguments over it; u is
\* the place under the function.
IsPushed(t, u, handler, n) ==
    /\ Len(t) = u + 1 + n
    /\ \A i \in 1 .. Len(stack) : t[i] = stack[i]
    /\ handler = "here" => t[u] = H
    /\ t[u + 1] = F
    /\ \A i \in u + 2 .. u + 1 + n : t[i] = Arg

LEMMA PushedFacts ==
    ASSUME IInv, NEW handler \in {"none", "here"}, NEW n \in Nat,
           NEW u \in Nat, u = Len(stack) + HandlersUnder(handler)
    PROVE  /\ Len(Under(handler)) = u /\ Pushed(handler, n) \in Seq(Item)
           /\ IsPushed(Pushed(handler, n), u, handler, n)
<1> DEFINE U == Under(handler)
           V == Append(U, F)
           W == Repeat(Arg, n)
           P == V \o W
<1>1. stack \in Seq(Item) /\ Len(stack) \in Nat
  BY TypeFacts DEF IInv
<1>2. /\ U \in Seq(Item) /\ Len(U) = u /\ \A i \in 1 .. Len(stack) : U[i] = stack[i]
      /\ handler = "here" => U[u] = H
  <2>1. CASE handler = "here"
    BY <2>1, <1>1, ItemFacts, AppendProperties DEF Under, HandlersUnder
  <2>2. CASE handler # "here"
    BY <2>2, <1>1 DEF Under, HandlersUnder
  <2> QED BY <2>1, <2>2
<1>3. u \in Nat /\ Len(stack) <= u /\ (handler = "here" => u = Len(stack) + 1)
  BY <1>1 DEF HandlersUnder
<1> HIDE DEF U
<1>4. /\ V \in Seq(Item) /\ Len(V) = u + 1 /\ V[u + 1] = F
      /\ \A i \in 1 .. u : V[i] = U[i]
  <2>1. /\ V \in Seq(Item) /\ Len(V) = Len(U) + 1 /\ V[Len(U) + 1] = F
        /\ \A i \in 1 .. Len(U) : V[i] = U[i]
    BY <1>2, ItemFacts, AppendProperties
  <2> HIDE DEF V
  <2> QED BY <2>1, <1>2
<1>5. W \in Seq(Item) /\ Len(W) = n /\ \A i \in 1 .. n : W[i] = Arg
  BY ItemFacts, RepeatFacts
<1> HIDE DEF V, W
<1>6. /\ P \in Seq(Item) /\ Len(P) = Len(V) + Len(W)
      /\ \A i \in 1 .. Len(V) + Len(W) : P[i] = IF i <= Len(V) THEN V[i] ELSE W[i - Len(V)]
  BY <1>4, <1>5, ConcatProperties
<1> HIDE DEF P
<1>7. \A i \in 1 .. u + 1 : P[i] = V[i]
  <2>1. \A i \in 1 .. u + 1 : i \in 1 .. Len(V) + Len(W) /\ i <= Len(V)
    BY <1>3, <1>4, <1>5
  <2> QED BY <2>1, <1>6
<1>8. ASSUME NEW i \in u + 2 .. u + 1 + n PROVE P[i] = Arg
  <2>1. i \in 1 .. Len(V) + Len(W) /\ ~(i <= Len(V)) /\ i - Len(V) \in 1 .. n
    BY <1>3, <1>4, <1>5
  <2>2. P[i] = W[i - Len(V)]
    BY <2>1, <1>6
  <2> QED BY <2>1, <2>2, <1>5
<1>9. ASSUME NEW i \in 1 .. Len(stack) PROVE P[i] = stack[i]
  <2>1. i \in 1 .. u + 1 /\ i \in 1 .. u
    BY <1>1, <1>3
  <2> QED BY <2>1, <1>2, <1>4, <1>7
<1>10. handler = "here" => P[u] = H
  <2>1. HAVE handler = "here"
  <2>2. u \in 1 .. u + 1 /\ u \in 1 .. u
    BY <2>1, <1>1, <1>3
  <2> QED BY <2>1, <2>2, <1>2, <1>4, <1>7
<1>11. P[u + 1] = F
  <2>1. u + 1 \in 1 .. u + 1
    BY <1>3
  <2> QED BY <2>1, <1>4, <1>7
<1>12. Len(P) = u + 1 + n
  BY <1>3, <1>4, <1>5, <1>6
<1> QED BY <1>2, <1>6, <1>8, <1>9, <1>10, <1>11, <1>12 DEF IsPushed, Pushed, P, V, W, U

\* The new frame: b is its base, v the number of handlers under it.
Entered(o, handler, n, v, b) ==
    /\ handler \in {"none", "here"} /\ n \in Nat
    /\ Depth' = Depth + 1 /\ elsewhere' = elsewhere /\ res' = res
    /\ \A g \in 1 .. Depth : frames'[g] = frames[g]
    /\ frames'[Depth + 1].base = b /\ frames'[Depth + 1].users = 0
    /\ frames'[Depth + 1].call.handler = handler /\ frames'[Depth + 1].call.into = o
    /\ handler = "here" => frames'[Depth + 1].call.stackindex = b - 1 - Base
    /\ frames'[Depth + 1].call.first = b - Base - v
    /\ Len(stack') = b + n /\ stack'[b] = F
    /\ handler = "here" => stack'[b - 1] = H
    /\ \A i \in 1 .. Len(stack) : stack'[i] = stack[i]
    /\ \A i \in b + 1 .. b + n : stack'[i] = Arg

LEMMA BeginCallFacts ==
    ASSUME Uses \subseteq {"assign_over"}, IInv, NEW o \in Objects, NEW kind \in Kinds, NEW handler \in Handlers,
           NEW rets \in {MULTRET} \cup 0 .. MaxRets, NEW n \in 0 .. MaxArgs,
           BeginCall(o, kind, handler, rets, n),
           NEW v, v = HandlersUnder(handler), NEW b, b = Len(stack) + 1 + v
    PROVE  TypeOK' /\ Entered(o, handler, n, v, b)
<1> DEFINE C == Begun(o, kind, handler, rets, n)
           e == [base |-> Len(Under(handler)) + 1, users |-> 0, call |-> C]
           R == [base : Nat, users : 0 .. MaxUsers, call : Call]
<1>1. handler \in {"none", "here"}
  BY DEF BeginCall, Handlers
<1>2. /\ Depth < MaxDepth /\ elsewhere' = elsewhere /\ res' = res
      /\ stack' = Pushed(handler, n) /\ frames' = Append(frames, e)
  BY <1>1 DEF BeginCall, Begun, Pushed, Under
<1>3. /\ Depth \in Nat \ {0} /\ Len(stack) \in Nat /\ Base \in 0 .. Len(stack) /\ n \in Nat
      /\ MaxDepth \in Nat /\ frames \in Seq(R)
  BY TypeFacts, TopFacts, CallAssumption DEF IInv, TypeOK
<1>4. Len(stack) + v \in Nat
  BY <1>3 DEF HandlersUnder
<1> DEFINE u == Len(stack) + v
<1>a. u \in Nat /\ u = Len(stack) + HandlersUnder(handler)
  BY <1>4
<1> HIDE DEF u
<1>b. Len(Under(handler)) = u /\ stack' \in Seq(Item) /\ IsPushed(stack', u, handler, n)
  BY <1>1, <1>2, <1>3, <1>a, PushedFacts
<1>5. /\ Len(Under(handler)) = Len(stack) + v /\ stack' \in Seq(Item)
      /\ Len(stack') = Len(stack) + v + 1 + n
      /\ \A i \in 1 .. Len(stack) : stack'[i] = stack[i]
      /\ handler = "here" => stack'[Len(stack) + v] = H
      /\ stack'[Len(stack) + v + 1] = F
      /\ \A i \in Len(stack) + v + 2 .. Len(stack) + v + 1 + n : stack'[i] = Arg
  BY <1>b DEF IsPushed, u
<1>6. v \in 0 .. 1 /\ (handler = "here" => v = 1)
  BY DEF HandlersUnder
<1>7. b \in Nat /\ b = Len(stack) + v + 1 /\ b - 1 = Len(stack) + v /\ b + 1 = Len(stack) + v + 2 /\ b + n = Len(stack) + v + 1 + n
  <2>1. v \in Nat /\ Len(stack) \in Nat /\ n \in Nat
    BY <1>3, <1>6
  <2> QED BY <2>1
<1>8. FirstReturn(Len(stack') - Base, n, handler) = b - Base - v
  <2>1. Len(stack') - Base - n - v = b - Base - v /\ ~(b - Base - v < 1)
    <3>1. Len(stack') = Len(stack) + v + 1 + n
      BY <1>5
    <3>2. Base \in Nat /\ Base <= Len(stack) /\ n \in Nat /\ Len(stack) \in Nat /\ v \in Nat
      BY <1>3, <1>6
    <3>3. \A l, x, k, m \in Nat : x <= l =>
             /\ (l + m + 1 + k) - x - k - m = (l + 1 + m) - x - m
             /\ ~((l + 1 + m) - x - m < 1)
      OBVIOUS
    <3>4. /\ (Len(stack) + v + 1 + n) - Base - n - v = (Len(stack) + 1 + v) - Base - v
          /\ ~((Len(stack) + 1 + v) - Base - v < 1)
      BY <3>2, <3>3, SMTT(30)
    <3>5. Len(stack') - Base - n - v = (Len(stack) + v + 1 + n) - Base - n - v
      BY <3>1
    <3>6. b - Base - v = (Len(stack) + 1 + v) - Base - v
      OBVIOUS
    <3> QED BY <3>4, <3>5, <3>6
  <2> QED BY <2>1 DEF FirstReturn, HandlersUnder
<1>9. handler = "here" => HandlerIndex(handler) = b - 1 - Base
  <2>1. HAVE handler = "here"
  <2>2. HandlerIndex(handler) = Len(stack) - Base + 1
    BY <2>1 DEF HandlerIndex, gettop
  <2> QED BY <2>1, <2>2, <1>3, <1>6
<1>10. C \in Call
  <2>1. HandlerIndex(handler) \in Nat
    BY <1>1, <1>3 DEF HandlerIndex, gettop
  <2>2. FirstReturn(Len(stack') - Base, n, handler) \in Nat
    <3>1. Base \in Nat /\ Base <= Len(stack) /\ Len(stack) \in Nat /\ v \in Nat
      BY <1>3, <1>6
    <3>2. \A l, x, m \in Nat : x <= l => (l + 1 + m) - x - m \in Nat
      OBVIOUS
    <3> QED BY <3>1, <3>2, <1>8, SMTT(40)
  <2> QED BY <1>2, <2>1, <2>2 DEF Begun, Call
<1>11. /\ C.handler = handler /\ C.into = o /\ C.stackindex = HandlerIndex(handler)
       /\ C.first = FirstReturn(Len(stack') - Base, n, handler)
  BY <1>2 DEF Begun
<1> HIDE DEF C
<1>12. e \in R /\ e.base = b /\ e.users = 0 /\ e.call = C
  BY <1>5, <1>7, <1>10, CallAssumption
<1> HIDE DEF R, e
<1>13. /\ frames' \in Seq(R) /\ Len(frames') = Len(frames) + 1
       /\ \A g \in 1 .. Len(frames) : frames'[g] = frames[g]
       /\ frames'[Len(frames) + 1] = e
  BY <1>2, <1>3, <1>12, AppendProperties
<1>14. Depth' = Depth + 1 /\ (\A g \in 1 .. Depth : frames'[g] = frames[g]) /\ frames'[Depth + 1] = e
  BY <1>13 DEF Depth
<1>15. TypeOK'
  <2>1. Depth' \in 1 .. MaxDepth
    BY <1>2, <1>3, <1>14
  <2> QED BY <2>1, <1>2, <1>5, <1>13 DEF IInv, TypeOK, R
<1>16. /\ handler = "here" => frames'[Depth + 1].call.stackindex = b - 1 - Base
       /\ frames'[Depth + 1].call.first = b - Base - v
  BY <1>8, <1>9, <1>11, <1>12, <1>14
<1>17. /\ frames'[Depth + 1].base = b /\ frames'[Depth + 1].users = 0
       /\ frames'[Depth + 1].call.handler = handler /\ frames'[Depth + 1].call.into = o
  BY <1>11, <1>12, <1>14
<1>18. /\ Len(stack') = b + n /\ stack'[b] = F /\ (handler = "here" => stack'[b - 1] = H)
       /\ \A i \in b + 1 .. b + n : stack'[i] = Arg
  BY <1>5, <1>7
<1> QED BY <1>1, <1>2, <1>3, <1>5, <1>14, <1>15, <1>16, <1>17, <1>18 DEF Entered

LEMMA BeginCallKeeps ==
    ASSUME Uses \subseteq {"assign_over"}, IInv, NEW o \in Objects, NEW kind \in Kinds, NEW handler \in Handlers,
           NEW rets \in {MULTRET} \cup 0 .. MaxRets, NEW n \in 0 .. MaxArgs,
           BeginCall(o, kind, handler, rets, n)
    PROVE  IInv'
<1> DEFINE v == HandlersUnder(handler)
           b == Len(stack) + 1 + v
           d == Depth + 1
<1>2. v \in 0 .. 1 /\ (handler = "here" => v = 1) /\ (handler = "none" => v = 0)
  BY DEF HandlersUnder
<1> HIDE DEF v
<1>3. b = Len(stack) + 1 + v /\ v = HandlersUnder(handler)
  BY DEF v
<1> HIDE DEF b
<1>1. /\ handler \in {"none", "here"} /\ n \in Nat
      /\ Depth' = d /\ TypeOK' /\ elsewhere' = elsewhere /\ res' = res
      /\ \A g \in 1 .. Depth : frames'[g] = frames[g]
      /\ frames'[d].base = b /\ frames'[d].users = 0
      /\ frames'[d].call.handler = handler /\ frames'[d].call.into = o
      /\ handler = "here" => frames'[d].call.stackindex = b - 1 - Base
      /\ frames'[d].call.first = b - Base - v
      /\ Len(stack') = b + n /\ stack'[b] = F
      /\ handler = "here" => stack'[b - 1] = H
      /\ \A i \in 1 .. Len(stack) : stack'[i] = stack[i]
      /\ \A i \in b + 1 .. b + n : stack'[i] = Arg
  <2>1. TypeOK' /\ Entered(o, handler, n, v, b)
    BY <1>3, BeginCallFacts
  <2> QED BY <2>1 DEF Entered
<1>4. ASSUME NEW g PROVE Handed(g)' = IF frames'[g].call.handler = "none" THEN 0 ELSE 1
  BY DEF Handed
<1>5. ASSUME NEW g, g = d PROVE Handed(g)' = v
  BY <1>1, <1>4, <1>5 DEF v, HandlersUnder
<1>6. /\ Depth \in Nat \ {0} /\ Len(stack) \in Nat /\ d \in Nat /\ b \in Nat
      /\ Base \in 0 .. Len(stack) /\ Base = frames[Depth].base
      /\ \A g \in 1 .. Depth : frames[g].base \in Nat /\ frames[g].base <= Len(stack)
      /\ \A g \in 1 .. Depth : Handed(g) \in 0 .. 1
  <2>1. /\ Depth \in Nat \ {0} /\ Len(stack) \in Nat
        /\ Base \in 0 .. Len(stack) /\ Base = frames[Depth].base
        /\ \A g \in 1 .. Depth : frames[g].base \in Nat /\ Handed(g) \in 0 .. 1
    BY TypeFacts, TopFacts DEF IInv
  <2>2. \A g \in 1 .. Depth : frames[g].base <= Len(stack)
    BY DEF IInv, FramesSound
  <2>3. d \in Nat /\ b \in Nat
    BY <2>1, <1>2, <1>3
  <2> QED BY <2>1, <2>2, <2>3
<1>7. /\ \A g \in 1 .. d : g \in 1 .. Depth \/ g = d
      /\ \A g \in 1 .. Depth : g # d /\ g < d /\ g \in 1 .. d
      /\ \A g \in 2 .. d : g \in 2 .. Depth \/ g = d
      /\ d \in 2 .. d /\ 1 \in 1 .. Depth /\ d - 1 = Depth /\ Depth \in 1 .. Depth
  BY <1>6
<1> HIDE DEF d
<1>8. \A g \in 1 .. Depth : Handed(g)' = Handed(g)
  BY <1>1 DEF Handed
<1>9. FramesSound'
  <2>1. frames'[1].base = 0
    BY <1>1, <1>7 DEF IInv, FramesSound
  <2>2. \A g \in 1 .. d : frames'[g].base <= Len(stack')
    <3>1. ASSUME NEW g \in 1 .. Depth PROVE frames'[g].base <= Len(stack')
      <4>1. frames'[g].base \in Nat /\ frames'[g].base <= Len(stack)
        BY <1>1, <1>6
      <4> QED BY <4>1, <1>1, <1>2, <1>3, <1>6, SMTT(30)
    <3>2. frames'[d].base <= Len(stack')
      BY <1>1, <1>6
    <3> QED BY <3>1, <3>2, <1>7
  <2>3. ASSUME NEW g \in 1 .. d, NEW h \in 1 .. d, g < h
        PROVE  frames'[g].base + Handed(h)' < frames'[h].base
    <3>1. CASE h \in 1 .. Depth
      <4>1. g \in 1 .. Depth
        BY <2>3, <3>1, <1>6
      <4> QED BY <2>3, <3>1, <4>1, <1>1, <1>8 DEF IInv, FramesSound
    <3>2. CASE h = d
      <4>1. g \in 1 .. Depth
        BY <2>3, <3>2, <1>6, <1>7
      <4>2. frames'[g].base \in Nat /\ frames'[g].base <= Len(stack)
        BY <4>1, <1>1, <1>6
      <4>3. Handed(h)' = v
        BY <3>2, <1>5
      <4>4. frames'[h].base = b /\ Len(stack) \in Nat
        BY <3>2, <1>1, <1>6
      <4> QED BY <4>2, <4>3, <4>4, <1>2, <1>3
    <3> QED BY <3>1, <3>2, <1>7
  <2>4. ASSUME NEW g \in 2 .. d
        PROVE  /\ stack'[frames'[g].base] = F
               /\ frames'[g].call.handler # "elsewhere"
               /\ frames'[g].call.handler = "here" =>
                     /\ stack'[frames'[g].base - 1] = H
                     /\ frames'[g].call.stackindex = frames'[g].base - 1 - frames'[g - 1].base
               /\ frames'[g].call.first = frames'[g].base - frames'[g - 1].base - Handed(g)'
    <3>1. CASE g \in 2 .. Depth
      <4>1. g \in 1 .. Depth /\ g - 1 \in 1 .. Depth /\ g - 1 < g
        BY <3>1, <1>6
      <4>2. /\ stack[frames[g].base] = F
            /\ frames[g].call.handler # "elsewhere"
            /\ frames[g].call.handler = "here" =>
                  /\ stack[frames[g].base - 1] = H
                  /\ frames[g].call.stackindex = frames[g].base - 1 - frames[g - 1].base
            /\ frames[g].call.first = frames[g].base - frames[g - 1].base - Handed(g)
        BY <3>1 DEF IInv, FramesSound
      <4>3. frames[g - 1].base + Handed(g) < frames[g].base
        BY <4>1 DEF IInv, FramesSound
      <4>4. /\ frames[g - 1].base \in Nat /\ frames[g].base \in Nat /\ Handed(g) \in 0 .. 1
            /\ frames[g].base <= Len(stack)
        BY <4>1, <1>6
      <4>5. frames[g].base \in 1 .. Len(stack)
        BY <4>3, <4>4, <1>6
      <4>6. frames[g].call.handler = "here" => frames[g].base - 1 \in 1 .. Len(stack)
        <5>1. HAVE frames[g].call.handler = "here"
        <5>2. Handed(g) = 1
          BY <5>1 DEF Handed
        <5> QED BY <5>2, <4>3, <4>4, <1>6, SMTT(30)
      <4>7. frames'[g] = frames[g] /\ frames'[g - 1] = frames[g - 1] /\ Handed(g)' = Handed(g)
        BY <4>1, <1>1, <1>8
      <4> QED BY <4>2, <4>5, <4>6, <4>7, <1>1
    <3>2. CASE g = d
      <4>1. frames'[g - 1].base = Base /\ Handed(g)' = v
        BY <3>2, <1>1, <1>5, <1>6, <1>7
      <4> QED BY <3>2, <4>1, <1>1
    <3> QED BY <3>1, <3>2, <1>7
  <2> QED BY <2>1, <2>2, <2>3, <2>4, <1>1 DEF FramesSound
<1>10. TargetsSound'
  <2>1. res[o] = Gone /\ \A g \in 2 .. Depth : frames[g].call.into # o
    BY DEF BeginCall
  <2>2. \A g \in 2 .. Depth : frames'[g] = frames[g]
    BY <1>1, <1>6
  <2>3. \A g \in 2 .. d : res'[frames'[g].call.into] = Gone
    BY <2>1, <2>2, <1>1, <1>7 DEF IInv, TargetsSound
  <2>4. \A g, h \in 2 .. d : frames'[g].call.into = frames'[h].call.into => g = h
    BY <2>1, <2>2, <1>1, <1>7 DEF IInv, TargetsSound
  <2> QED BY <2>3, <2>4, <1>1 DEF TargetsSound
<1>11. ASSUME NEW i \in 1 .. Len(stack')
       PROVE  \/ i \in 1 .. Len(stack) /\ stack'[i] = stack[i]
              \/ handler = "here" /\ i = b - 1 /\ stack'[i] = H
              \/ stack'[i] = F \/ stack'[i] = Arg
  <2>1. i \in 1 .. Len(stack) \/ (handler = "here" /\ i = b - 1) \/ i = b \/ i \in b + 1 .. b + n
    <3>1. handler = "here" \/ handler = "none"
      BY <1>1
    <3>2. i \in Nat /\ i >= 1 /\ i <= b + n /\ n \in Nat /\ Len(stack) \in Nat
      BY <1>1, <1>6
    <3>3. CASE handler = "here"
      <4>1. v = 1
        BY <3>3, <1>2
      <4> QED BY <3>2, <3>3, <4>1, <1>3
    <3>4. CASE handler = "none"
      <4>1. v = 0
        BY <3>4, <1>2
      <4> QED BY <3>2, <4>1, <1>3
    <3> QED BY <3>1, <3>3, <3>4
  <2> QED BY <2>1, <1>1
<1>12. HandlersPlaced'
  <2>1. SUFFICES ASSUME NEW i \in 1 .. Len(stack'), stack'[i] = H
                 PROVE  \E f \in 2 .. d : frames'[f].call.handler = "here" /\ i = frames'[f].base - 1
    BY <1>1 DEF HandlersPlaced
  <2>2. CASE i \in 1 .. Len(stack) /\ stack'[i] = stack[i]
    <3>1. PICK f \in 2 .. Depth : frames[f].call.handler = "here" /\ i = frames[f].base - 1
      BY <2>1, <2>2 DEF IInv, HandlersPlaced
    <3>2. f \in 1 .. Depth /\ f \in 2 .. d
      BY <1>6 DEF d
    <3> QED BY <3>1, <3>2, <1>1
  <2>3. CASE handler = "here" /\ i = b - 1
    BY <2>3, <1>1, <1>7
  <2> QED BY <2>1, <2>2, <2>3, <1>11, ItemFacts
<1>13. \A o2 \in Objects : Owns(o2) =>
          \A i \in Span(o2) : i <= NewTop(res[o2].frame) /\ stack'[i] = stack[i]
  <2>1. SUFFICES ASSUME NEW o2 \in Objects, Owns(o2), NEW i \in Span(o2)
                 PROVE  i <= NewTop(res[o2].frame) /\ stack'[i] = stack[i]
    OBVIOUS
  <2>2. res[o2].frame \in 1 .. Depth /\ i \in 1 .. Len(stack) /\ i <= Top(res[o2].frame)
    BY <2>1, OwnerFacts
  <2>3. \A g \in 1 .. Depth : NewTop(g) = Top(g)
    <3>1. SUFFICES ASSUME NEW g \in 1 .. Depth PROVE NewTop(g) = Top(g)
      OBVIOUS
    <3>2. CASE g = Depth
      <4>1. g + 1 = d /\ g # d
        BY <3>2, <1>6, <1>7 DEF d
      <4>2. NewTop(g) = b - 1 - v
        BY <4>1, <1>1 DEF NewTop, v, HandlersUnder
      <4>3. Top(g) = Len(stack)
        BY <3>2 DEF Top
      <4> QED BY <4>2, <4>3, <1>2, <1>3, <1>6
    <3>3. CASE g # Depth
      <4>1. g + 1 \in 1 .. Depth /\ g # d
        BY <3>3, <1>6, <1>7
      <4> QED BY <3>3, <4>1, <1>1 DEF NewTop, Top, Handed
    <3> QED BY <3>2, <3>3
  <2> QED BY <2>2, <2>3, <1>1
<1>14. /\ ResultsSound' /\ SpansApart'
       /\ \A o2 \in Objects : Owns(o2) => Owns(o2)' /\ Span(o2)' = Span(o2)
  <2>1. res' = res /\ Depth' \in Nat /\ Depth <= Depth' /\ \A f \in 1 .. Depth : frames'[f].base = frames[f].base
    BY <1>1, <1>6 DEF d
  <2> QED BY <2>1, <1>13, OwnersKept
<1>15. ValuesOwned'
  <2>1. SUFFICES ASSUME "assign_over" \notin Uses, NEW i \in 1 .. Len(stack'), NEW c \in Calls, stack'[i] = Val(c)
                 PROVE  \E o2 \in Objects : Owns(o2)' /\ i \in Span(o2)'
    BY DEF ValuesOwned
  <2>2. i \in 1 .. Len(stack) /\ stack[i] = Val(c)
    BY <2>1, <1>11, ItemFacts
  <2> QED BY <2>1, <2>2, <1>14 DEF IInv, ValuesOwned
<1>16. NothingTaken'
  <2>1. \A g \in 1 .. d : {i \in Extent(g) : stack[i] = User}'
                           = Users(stack', frames'[g].base + 1, IF g = d THEN Len(stack') ELSE frames'[g + 1].base - 1)
    BY <1>1 DEF Users, Extent
  <2>2. \A g \in 1 .. Depth : {i \in Extent(g) : stack[i] = User}
                           = Users(stack, frames[g].base + 1, IF g = Depth THEN Len(stack) ELSE frames[g + 1].base - 1)
    BY DEF Users, Extent
  <2>3. SUFFICES ASSUME NEW g \in 1 .. d
                 PROVE  Cardinality(Users(stack', frames'[g].base + 1, IF g = d THEN Len(stack') ELSE frames'[g + 1].base - 1))
                           = frames'[g].users
    BY <1>1, <2>1 DEF NothingTaken
  <2>4. CASE g = d
    <3>1. Users(stack', b + 1, b + n) = {}
      BY <1>1, ItemFacts DEF Users
    <3> QED BY <2>4, <3>1, <1>1, FS_EmptySet
  <2>5. CASE g = Depth
    <3>1. g # d /\ g + 1 = d
      BY <2>5, <1>7, <1>6 DEF d
    <3>2. Users(stack', Base + 1, b - 1) = Users(stack, Base + 1, Len(stack))
      <4>1. \A i \in Base + 1 .. Len(stack) : i \in 1 .. Len(stack) /\ i \in Base + 1 .. b - 1
        BY <1>2, <1>3, <1>6
      <4>2. \A i \in Base + 1 .. b - 1 : i \in Base + 1 .. Len(stack) \/ (handler = "here" /\ i = b - 1)
        <5>1. handler = "here" \/ handler = "none"
          BY <1>1
        <5> QED BY <5>1, <1>2, <1>3, <1>6
      <4> QED BY <4>1, <4>2, <1>1, ItemFacts DEF Users
    <3>3. Cardinality(Users(stack, Base + 1, Len(stack))) = frames[Depth].users
      BY RunningUsers
    <3> QED BY <2>5, <3>1, <3>2, <3>3, <1>1, <1>6, <1>7
  <2>6. CASE g # d /\ g # Depth
    <3>1. g \in 1 .. Depth /\ g + 1 \in 1 .. Depth
      BY <2>6, <1>6, <1>7
    <3>2. Cardinality(Users(stack, frames[g].base + 1, frames[g + 1].base - 1)) = frames[g].users
      BY <2>6, <3>1, <2>2 DEF IInv, NothingTaken
    <3>3. Users(stack', frames[g].base + 1, frames[g + 1].base - 1) = Users(stack, frames[g].base + 1, frames[g + 1].base - 1)
      <4>1. frames[g].base \in Nat /\ frames[g + 1].base \in Nat /\ frames[g + 1].base <= Len(stack)
        BY <3>1, <1>6
      <4>2. \A i \in frames[g].base + 1 .. frames[g + 1].base - 1 : i \in 1 .. Len(stack)
        BY <4>1, <1>6
      <4> QED BY <4>2, <1>1 DEF Users
    <3> QED BY <2>6, <3>1, <3>2, <3>3, <1>1
  <2> QED BY <2>4, <2>5, <2>6
<1> QED BY <1>1, <1>9, <1>10, <1>12, <1>14, <1>15, <1>16 DEF IInv

-----------------------------------------------------------------------------
(* What result objects own passes from one to another.                     *)

\* p takes over what o owns, and o is left with nothing.
PassesTo(p, o) ==
    /\ res[o] # Gone /\ p # o /\ (Owns(p) => "assign_over" \in Uses)
    /\ \A f \in 2 .. Depth : frames[f].call.into # p
    /\ \A q \in Objects : q # p /\ q # o => res'[q] = res[q]
    /\ res'[p] # Gone /\ res'[p].frame = res[o].frame /\ res'[p].popcount = res[o].popcount
    /\ res'[p].returncount = res[o].popcount
    /\ res'[p].index = res[o].index /\ res'[p].call = res[o].call
    /\ res'[o] # Gone /\ res'[o].frame = res[o].frame
    /\ res'[o].popcount = 0 /\ res'[o].returncount = 0

LEMMA PassedKeeps ==
    ASSUME IInv, TypeOK', UNCHANGED <<stack, elsewhere, frames>>,
           NEW p \in Objects, NEW o \in Objects, PassesTo(p, o)
    PROVE  IInv'
<1>1. /\ res[o] # Gone /\ p # o /\ (Owns(p) => "assign_over" \in Uses)
      /\ \A f \in 2 .. Depth : frames[f].call.into # p
      /\ \A q \in Objects : q # p /\ q # o => res'[q] = res[q]
      /\ res'[p] # Gone /\ res'[p].frame = res[o].frame /\ res'[p].popcount = res[o].popcount
      /\ res'[p].returncount = res[o].popcount
      /\ res'[p].index = res[o].index /\ res'[p].call = res[o].call
      /\ res'[o] # Gone /\ res'[o].frame = res[o].frame
      /\ res'[o].popcount = 0 /\ res'[o].returncount = 0
  BY DEF PassesTo
<1>2. Depth' = Depth /\ Depth \in Nat
  BY TypeFacts DEF IInv, Depth
<1>3. FramesSound' /\ HandlersPlaced'
  BY DEF IInv, FramesSound, HandlersPlaced, Handed, Depth
<1>4. NothingTaken'
  BY DEF IInv, NothingTaken, Extent, Depth
<1>5. TargetsSound'
  <2>1. ASSUME NEW f \in 2 .. Depth PROVE res'[frames[f].call.into] = Gone
    <3>1. res[frames[f].call.into] = Gone /\ frames[f].call.into # p /\ frames[f].call.into \in Objects
      <4>1. f \in 1 .. Depth
        BY <1>2
      <4> QED BY <4>1, <1>1, TypeFacts DEF IInv, TargetsSound
    <3> QED BY <3>1, <1>1
  <2> QED BY <2>1, <1>2 DEF IInv, TargetsSound
<1>6. \A f : NewTop(f) = Top(f)
  BY <1>2 DEF NewTop, Top, Handed
<1>7. ~Owns(o)'
  BY <1>1 DEF Owns
<1>8. Owns(p)' = Owns(o) /\ Span(p)' = Span(o)
  BY <1>1 DEF Owns, Span
<1>9. ASSUME NEW q \in Objects, q # p, q # o PROVE Owns(q)' = Owns(q) /\ Span(q)' = Span(q)
  BY <1>1, <1>9 DEF Owns, Span
<1>10. ResultsSound'
  <2>1. SUFFICES ASSUME NEW q \in Objects, res'[q] # Gone PROVE ResultSound(q)'
    BY DEF ResultsSound
  <2>2. CASE q = o
    <3>1. res'[o].frame \in 1 .. Depth'
      BY <1>1, <1>2 DEF IInv, ResultsSound, ResultSound
    <3> QED BY <2>2, <3>1, <1>1, <1>7 DEF ResultSound
  <2>3. CASE q = p
    <3>1. ResultSound(o)
      BY <1>1 DEF IInv, ResultsSound
    <3>2. Top(res[p].frame)' = NewTop(res'[p].frame)
      BY NewTopFacts
    <3>3. NewTop(res'[p].frame) = Top(res[o].frame)
      BY <1>1, <1>6
    <3>4. ResultSound(p)'
      BY <3>1, <3>2, <3>3, <1>1, <1>2, <1>8 DEF ResultSound
    <3> QED BY <2>3, <3>4
  <2>4. CASE q # p /\ q # o
    <3>1. res'[q] = res[q] /\ res[q] # Gone
      BY <2>1, <2>4, <1>1
    <3>2. res[q].frame \in 1 .. Depth' /\ frames'[res[q].frame].base = frames[res[q].frame].base
      BY <3>1, <1>2 DEF IInv, ResultsSound, ResultSound
    <3>3. Owns(q) => \A i \in Span(q) : i <= NewTop(res[q].frame) /\ stack'[i] = stack[i]
      BY <1>6, OwnerFacts
    <3> QED BY <3>1, <3>2, <3>3, ResultKept
  <2> QED BY <2>2, <2>3, <2>4
<1>11. SpansApart'
  <2>1. SUFFICES ASSUME NEW q \in Objects, NEW r \in Objects, Owns(q)', Owns(r)', q # r
                 PROVE  \A i \in Span(q)' : i \notin Span(r)'
    BY DEF SpansApart
  <2>2. q # o /\ r # o
    BY <2>1, <1>7
  <2>3. CASE q = p
    <3>1. Owns(r) /\ Span(r)' = Span(r) /\ Owns(o) /\ Span(q)' = Span(o) /\ r # o
      BY <2>1, <2>2, <2>3, <1>8, <1>9
    <3> QED BY <3>1 DEF IInv, SpansApart
  <2>4. CASE r = p
    <3>1. Owns(q) /\ Span(q)' = Span(q) /\ Owns(o) /\ Span(r)' = Span(o) /\ q # o
      BY <2>1, <2>2, <2>4, <1>8, <1>9
    <3> QED BY <3>1 DEF IInv, SpansApart
  <2>5. CASE q # p /\ r # p
    <3>1. Owns(q) /\ Span(q)' = Span(q) /\ Owns(r) /\ Span(r)' = Span(r)
      BY <2>1, <2>2, <2>5, <1>9
    <3> QED BY <2>1, <3>1 DEF IInv, SpansApart
  <2> QED BY <2>3, <2>4, <2>5
<1>12. ValuesOwned'
  <2>1. SUFFICES ASSUME "assign_over" \notin Uses, NEW i \in 1 .. Len(stack), NEW c \in Calls, stack[i] = Val(c)
                 PROVE  \E q \in Objects : Owns(q)' /\ i \in Span(q)'
    BY DEF ValuesOwned
  <2>2. PICK q \in Objects : Owns(q) /\ i \in Span(q)
    BY <2>1 DEF IInv, ValuesOwned
  <2>3. CASE q = o
    BY <2>2, <2>3, <1>8
  <2>4. CASE q # o
    <3>1. q # p
      BY <2>1, <2>2, <1>1
    <3> QED BY <2>2, <2>4, <3>1, <1>9
  <2> QED BY <2>3, <2>4
<1> QED BY <1>3, <1>4, <1>5, <1>10, <1>11, <1>12 DEF IInv

\* Between the kinds too a result object takes over as many values as it pops.
LEMMA TakenFacts ==
    ASSUME NEW r \in Result, r.popcount = r.returncount, NEW kind \in Kinds
    PROVE  /\ taken(r, kind) \in Result /\ taken(r, kind) # Gone
           /\ taken(r, kind).frame = r.frame /\ taken(r, kind).index = r.index
           /\ taken(r, kind).popcount = r.popcount /\ taken(r, kind).returncount = r.popcount
           /\ taken(r, kind).call = r.call
           /\ abandoned(r) \in Result /\ abandoned(r) # Gone
           /\ abandoned(r).frame = r.frame
           /\ abandoned(r).popcount = 0 /\ abandoned(r).returncount = 0
<1>3. /\ taken(r, kind) \in Result /\ taken(r, kind) # Gone
      /\ taken(r, kind).frame = r.frame /\ taken(r, kind).index = r.index
      /\ taken(r, kind).popcount = r.popcount /\ taken(r, kind).returncount = r.popcount
      /\ taken(r, kind).call = r.call
  <2>1. CASE r.kind = kind
    <3>1. taken(r, kind) = r
      BY <2>1 DEF taken
    <3> QED BY <3>1, GoneFacts
  <2>2. CASE r.kind # kind
    <3> DEFINE t == [r EXCEPT !.kind = kind, !.popcount = r.returncount]
    <3>1. taken(r, kind) = t
      BY <2>2 DEF taken
    <3>2. t \in Result
      BY DEF Result
    <3>3. t.frame = r.frame /\ t.index = r.index /\ t.popcount = r.returncount /\ t.returncount = r.returncount /\ t.call = r.call
      BY DEF Result
    <3> HIDE DEF t
    <3> QED BY <3>1, <3>2, <3>3, GoneFacts
  <2> QED BY <2>1, <2>2
<1> DEFINE e == IF r.kind = "protected" THEN "runtime" ELSE r.err
           a == [r EXCEPT !.index = 0, !.returncount = 0, !.popcount = 0, !.err = e]
<1>4. e \in {"ok", "runtime"}
  BY DEF Result
<1>5. abandoned(r) = a
  BY DEF abandoned
<1> HIDE DEF e
<1>6. a \in Result /\ a.frame = r.frame /\ a.popcount = 0 /\ a.returncount = 0
  BY <1>4 DEF Result
<1> HIDE DEF a
<1> QED BY <1>3, <1>5, <1>6, GoneFacts

LEMMA MovedKeeps ==
    ASSUME IInv, NEW p \in Objects, NEW o \in Objects, NEW kind \in Kinds,
           res[o] # Gone, p # o, Owns(p) => "assign_over" \in Uses,
           \A f \in 2 .. Depth : frames[f].call.into # p,
           res' = [res EXCEPT ![p] = taken(res[o], kind), ![o] = abandoned(res[o])],
           UNCHANGED <<stack, elsewhere, frames>>
    PROVE  IInv'
<1>1. res[o] \in Result /\ res[o].popcount = res[o].returncount
  BY TypeFacts DEF IInv, ResultsSound, ResultSound
<1>2. /\ taken(res[o], kind) \in Result /\ taken(res[o], kind) # Gone
      /\ taken(res[o], kind).frame = res[o].frame /\ taken(res[o], kind).index = res[o].index
      /\ taken(res[o], kind).popcount = res[o].popcount /\ taken(res[o], kind).returncount = res[o].popcount
      /\ taken(res[o], kind).call = res[o].call
      /\ abandoned(res[o]) \in Result /\ abandoned(res[o]) # Gone
      /\ abandoned(res[o]).frame = res[o].frame
      /\ abandoned(res[o]).popcount = 0 /\ abandoned(res[o]).returncount = 0
  BY <1>1, TakenFacts
<1>3. res \in [Objects -> Result \cup {Gone}]
  BY DEF IInv, TypeOK
<1>4. /\ res' \in [Objects -> Result \cup {Gone}]
      /\ res'[p] = taken(res[o], kind) /\ res'[o] = abandoned(res[o])
      /\ \A q \in Objects : q # p /\ q # o => res'[q] = res[q]
  BY <1>2, <1>3
<1>5. TypeOK'
  BY <1>4 DEF IInv, TypeOK, Depth
<1>6. PassesTo(p, o)
  BY <1>2, <1>4 DEF PassesTo
<1> QED BY <1>5, <1>6, PassedKeeps

LEMMA MoveConstructKeeps ==
    ASSUME IInv, NEW p \in Objects, NEW o \in Objects, NEW kind \in Kinds, MoveConstruct(p, o, kind)
    PROVE  IInv'
<1>1. res[o] # Gone /\ ~Owns(p) /\ p # o
  BY DEF MoveConstruct, Local, Owns
<1> QED BY <1>1, MovedKeeps DEF MoveConstruct

\* A result object is not the target of a call in progress.
LEMMA NotATarget ==
    ASSUME IInv, NEW p \in Objects, res[p] # Gone
    PROVE  \A f \in 2 .. Depth : frames[f].call.into # p
BY DEF IInv, TargetsSound

LEMMA MoveAssignKeeps ==
    ASSUME Uses \subseteq {"assign_over"}, IInv, NEW p \in Objects, NEW o \in Objects, MoveAssign(p, o)
    PROVE  IInv'
<1>1. res[o] # Gone /\ res[p] # Gone /\ p # o /\ (Owns(p) => "assign_over" \in Uses)
  BY DEF MoveAssign, Local
<1>2. res[p].kind \in Kinds
  BY <1>1, TypeFacts DEF IInv
<1> QED BY <1>1, <1>2, NotATarget, MovedKeeps DEF MoveAssign

LEMMA CopyKeeps ==
    ASSUME Uses \subseteq {"assign_over"}, IInv, NEW p \in Objects, NEW o \in Objects, Copy(p, o)
    PROVE  IInv'
<1>1. /\ res[o] # Gone /\ ~Owns(o) /\ p # o /\ res' = [res EXCEPT ![p] = res[o]]
      /\ UNCHANGED <<stack, elsewhere, frames>>
  BY DEF Copy, Local
<1>2. ~Owns(p) /\ \A f \in 2 .. Depth : frames[f].call.into # p
  <2>1. CASE res[p] = Gone /\ \A f \in 2 .. Depth : frames[f].call.into # p
    BY <2>1 DEF Owns
  <2>2. CASE Local(p) /\ ~Owns(p)
    BY <2>2, NotATarget DEF Local
  <2> QED BY <2>1, <2>2 DEF Copy
<1>3. /\ res[o] \in Result /\ res[o].popcount = res[o].returncount /\ res[o].popcount = 0
      /\ res \in [Objects -> Result \cup {Gone}]
  BY <1>1, TypeFacts DEF IInv, ResultsSound, ResultSound, Owns, TypeOK
<1>4. /\ res' \in [Objects -> Result \cup {Gone}] /\ res'[p] = res[o]
      /\ \A q \in Objects : q # p => res'[q] = res[q]
  BY <1>1, <1>3
<1>5. TypeOK'
  BY <1>1, <1>4 DEF IInv, TypeOK, Depth
<1>6. PassesTo(p, o)
  BY <1>1, <1>2, <1>3, <1>4 DEF PassesTo
<1> QED BY <1>1, <1>5, <1>6, PassedKeeps

-----------------------------------------------------------------------------
(* A result object removes its values.                                     *)

\* Values of the program above the ones removed move down, none is lost.
LEMMA UsersMoveDown ==
    ASSUME NEW s, NEW t, Len(s) \in Nat, NEW a \in Nat \ {0}, NEW n \in Nat, NEW b \in Nat, b < a,
           a + n <= Len(s) + 1, Without(t, s, a, n), \A i \in a .. a + n - 1 : s[i] # User
    PROVE  Cardinality(Users(t, b + 1, Len(t))) = Cardinality(Users(s, b + 1, Len(s)))
<1> DEFINE X == Users(t, b + 1, Len(t))
           Y == Users(s, b + 1, Len(s))
           f == [i \in X |-> IF i < a THEN i ELSE i + n]
<1>1. /\ Len(t) = Len(s) - n /\ Len(t) \in Nat
      /\ \A i \in 1 .. Len(t) : i < a => t[i] = s[i]
      /\ \A i \in 1 .. Len(t) : ~(i < a) => t[i] = s[i + n]
  BY DEF Without
<1>2. ASSUME NEW i PROVE i \in X <=> i \in b + 1 .. Len(t) /\ t[i] = User
  BY DEF Users
<1>3. ASSUME NEW i PROVE i \in Y <=> i \in b + 1 .. Len(s) /\ s[i] = User
  BY DEF Users
<1>4. \A i \in X : i < a => i \in Y
  <2>1. SUFFICES ASSUME NEW i \in X, i < a PROVE i \in Y
    OBVIOUS
  <2>2. i \in b + 1 .. Len(t) /\ t[i] = User
    BY <1>2
  <2>3. i \in 1 .. Len(t) /\ i \in b + 1 .. Len(s)
    BY <2>2, <1>1
  <2> QED BY <2>1, <2>2, <2>3, <1>1, <1>3
<1>5. \A i \in X : ~(i < a) => i + n \in Y
  <2>1. SUFFICES ASSUME NEW i \in X, ~(i < a) PROVE i + n \in Y
    OBVIOUS
  <2>2. i \in b + 1 .. Len(t) /\ t[i] = User
    BY <1>2
  <2>3. i \in 1 .. Len(t) /\ i + n \in b + 1 .. Len(s)
    BY <2>2, <1>1
  <2> QED BY <2>1, <2>2, <2>3, <1>1, <1>3
<1>6. \A y \in Y : y < a => y \in X
  <2>1. SUFFICES ASSUME NEW y \in Y, y < a PROVE y \in X
    OBVIOUS
  <2>2. y \in b + 1 .. Len(s) /\ s[y] = User
    BY <1>3
  <2>3. y \in 1 .. Len(t) /\ y \in b + 1 .. Len(t)
    BY <2>1, <2>2, <1>1
  <2> QED BY <2>1, <2>2, <2>3, <1>1, <1>2
<1>7. \A y \in Y : ~(y < a) => y - n \in X /\ ~(y - n < a)
  <2>1. SUFFICES ASSUME NEW y \in Y, ~(y < a) PROVE y - n \in X /\ ~(y - n < a)
    OBVIOUS
  <2>2. y \in b + 1 .. Len(s) /\ s[y] = User
    BY <1>3
  <2>3. y \notin a .. a + n - 1
    BY <2>2
  <2>4. ~(y - n < a)
    BY <2>1, <2>2, <2>3
  <2>5. y - n \in 1 .. Len(t) /\ y - n \in b + 1 .. Len(t) /\ (y - n) + n = y
    BY <2>2, <2>4, <1>1
  <2> QED BY <2>2, <2>4, <2>5, <1>1, <1>2
<1>8. X \subseteq Int /\ Y \subseteq Int
  BY DEF Users
<1> HIDE DEF X, Y
<1>9. f \in [X -> Y]
  BY <1>4, <1>5
<1>10. \A i, j \in X : f[i] = f[j] => i = j
  <2>1. SUFFICES ASSUME NEW i \in X, NEW j \in X, f[i] = f[j] PROVE i = j
    OBVIOUS
  <2>2. i \in Int /\ j \in Int /\ f[i] = (IF i < a THEN i ELSE i + n) /\ f[j] = (IF j < a THEN j ELSE j + n)
    BY <1>8
  <2> HIDE DEF f
  <2>3. CASE i < a /\ j < a
    BY <2>1, <2>2, <2>3
  <2>4. CASE ~(i < a) /\ ~(j < a)
    <3>1. i + n = j + n
      BY <2>1, <2>2, <2>4
    <3> QED BY <3>1, <2>2
  <2>5. CASE i < a /\ ~(j < a)
    <3>1. i = j + n
      BY <2>1, <2>2, <2>5
    <3> QED BY <3>1, <2>2, <2>5
  <2>6. CASE ~(i < a) /\ j < a
    <3>1. i + n = j
      BY <2>1, <2>2, <2>6
    <3> QED BY <3>1, <2>2, <2>6
  <2> QED BY <2>3, <2>4, <2>5, <2>6
<1>11. \A y \in Y : \E i \in X : f[i] = y
  <2>1. SUFFICES ASSUME NEW y \in Y PROVE \E i \in X : f[i] = y
    OBVIOUS
  <2>2. CASE y < a
    BY <2>2, <1>6
  <2>3. CASE ~(y < a)
    <3>1. y - n \in X /\ ~(y - n < a) /\ (y - n) + n = y
      BY <2>3, <1>7, <1>8
    <3> QED BY <3>1
  <2> QED BY <2>2, <2>3
<1> HIDE DEF f
<1>12. f \in Bijection(X, Y)
  BY <1>9, <1>10, <1>11, Fun_IsBij
<1>13. ExistsBijection(X, Y)
  BY <1>12, Fun_ExistsBij
<1>14. IsFiniteSet(X)
  BY <1>1, UsersFinite DEF X
<1> QED BY <1>13, <1>14, FS_Bijection DEF X, Y

\* The places from a on, n of them, are the ones o owns, and no one else owns
\* any above them.
Vacates(o, a, n) ==
    /\ stack' \in Seq(Item) /\ Without(stack', stack, a, n)
    /\ a \in Nat \ {0} /\ n \in Nat /\ Base < a /\ a + n <= Len(stack) + 1
    /\ Owns(o) => Span(o) = a .. a + n - 1
    /\ ~Owns(o) => n = 0
    /\ \A p \in Objects : Owns(p) /\ p # o => \A i \in Span(p) : i < a

LEMMA VacatedKeeps ==
    ASSUME IInv, NEW o \in Objects, NEW a, NEW n, Vacates(o, a, n),
           res' = [res EXCEPT ![o] = Gone], UNCHANGED <<elsewhere, frames>>
    PROVE  IInv'
<1>1. /\ stack' \in Seq(Item) /\ Without(stack', stack, a, n)
      /\ a \in Nat \ {0} /\ n \in Nat /\ Base < a /\ a + n <= Len(stack) + 1
      /\ Owns(o) => Span(o) = a .. a + n - 1
      /\ ~Owns(o) => n = 0
      /\ \A p \in Objects : Owns(p) /\ p # o => \A i \in Span(p) : i < a
  BY DEF Vacates
<1>2. /\ Depth \in Nat \ {0} /\ Depth \in 1 .. Depth /\ Len(stack) \in Nat
      /\ Base \in 0 .. Len(stack) /\ Base = frames[Depth].base /\ Depth' = Depth
  BY TypeFacts, TopFacts DEF IInv, Depth
<1>3. /\ res' \in [Objects -> Result \cup {Gone}] /\ res'[o] = Gone
      /\ \A q \in Objects : q # o => res'[q] = res[q]
  BY DEF IInv, TypeOK
<1>4. TypeOK'
  BY <1>1, <1>2, <1>3 DEF IInv, TypeOK, Depth
<1>5. /\ Len(stack') = Len(stack) - n /\ Len(stack') \in Nat
      /\ \A i \in 1 .. Len(stack') : i < a => stack'[i] = stack[i] /\ i \in 1 .. Len(stack)
      /\ \A i \in 1 .. Len(stack') : ~(i < a) => stack'[i] = stack[i + n] /\ i + n \in 1 .. Len(stack)
      /\ a - 1 <= Len(stack')
  <2>1. /\ Len(stack') = Len(stack) - n
        /\ \A i \in 1 .. Len(stack) - n : i < a => stack'[i] = stack[i]
        /\ \A i \in 1 .. Len(stack) - n : ~(i < a) => stack'[i] = stack[i + n]
    BY <1>1 DEF Without
  <2>2. Len(stack') \in Nat /\ a - 1 <= Len(stack')
    BY <2>1, <1>1, <1>2
  <2>3. \A i \in 1 .. Len(stack') : i \in 1 .. Len(stack) /\ i + n \in 1 .. Len(stack)
    BY <2>1, <1>1, <1>2
  <2> QED BY <2>1, <2>2, <2>3
<1>6. KeepsFrames(Depth, Base)
  <2>1. Cardinality(Users(stack', Base + 1, Len(stack'))) = frames'[Depth].users
    <3>1. \A i \in a .. a + n - 1 : stack[i] # User
      <4>1. CASE Owns(o)
        BY <4>1, <1>1, OwnerFacts, ItemFacts
      <4>2. CASE ~Owns(o)
        BY <4>2, <1>1
      <4> QED BY <4>1, <4>2
    <3>2. Cardinality(Users(stack', Base + 1, Len(stack'))) = Cardinality(Users(stack, Base + 1, Len(stack)))
      BY <3>1, <1>1, <1>2, UsersMoveDown
    <3> QED BY <3>2, RunningUsers
  <2>2. \A i \in 1 .. Len(stack') : stack'[i] = H => i <= Base
    <3>1. SUFFICES ASSUME NEW i \in 1 .. Len(stack'), stack'[i] = H PROVE i <= Base
      OBVIOUS
    <3>2. CASE i < a
      BY <3>1, <3>2, <1>5, HandlersBelow
    <3>3. CASE ~(i < a)
      <4>1. i + n <= Base
        BY <3>1, <3>3, <1>5, HandlersBelow
      <4> QED BY <3>3, <4>1, <1>1, <1>2
    <3> QED BY <3>2, <3>3
  <2>3. \A g \in 2 .. Depth : res'[frames[g].call.into] = Gone
    <3>1. SUFFICES ASSUME NEW g \in 2 .. Depth PROVE res'[frames[g].call.into] = Gone
      OBVIOUS
    <3>2. g \in 1 .. Depth /\ res[frames[g].call.into] = Gone
      BY <1>2 DEF IInv, TargetsSound
    <3>3. frames[g].call.into \in Objects
      BY <3>2, TypeFacts DEF IInv
    <3> QED BY <3>2, <3>3, <1>3
  <2>4. Base <= Len(stack') /\ \A i \in 1 .. Base : stack'[i] = stack[i]
    <3>1. Base <= Len(stack')
      BY <1>1, <1>2, <1>5
    <3>2. \A i \in 1 .. Base : i \in 1 .. Len(stack') /\ i < a
      BY <3>1, <1>1, <1>2, <1>5
    <3> QED BY <3>1, <3>2, <1>5
  <2> QED BY <2>1, <2>2, <2>3, <2>4, <1>2 DEF KeepsFrames
<1>7. NewTop(Depth) = Len(stack') /\ \A g \in 1 .. Depth : g < Depth => NewTop(g) = Top(g)
  BY <1>6, TopKept DEF IInv
<1>8. ASSUME NEW q \in Objects, q # o, res[q] # Gone
      PROVE  ResultSound(q)' /\ Owns(q)' = Owns(q) /\ Span(q)' = Span(q)
  <2>1. res'[q] = res[q] /\ res[q].frame \in 1 .. Depth /\ frames'[res[q].frame].base = frames[res[q].frame].base
    BY <1>3, <1>8 DEF IInv, ResultsSound, ResultSound
  <2>2. ASSUME Owns(q), NEW i \in Span(q)
        PROVE  i <= NewTop(res[q].frame) /\ stack'[i] = stack[i]
    <3>1. i < a /\ i \in 1 .. Len(stack) /\ i <= Top(res[q].frame)
      BY <2>2, <1>1, <1>8, OwnerFacts
    <3>2. i \in 1 .. Len(stack')
      BY <3>1, <1>1, <1>5
    <3>3. stack'[i] = stack[i]
      BY <3>1, <3>2, <1>5
    <3>4. res[q].frame = Depth \/ res[q].frame < Depth
      BY <2>1, <1>2
    <3>5. CASE res[q].frame = Depth
      BY <3>2, <3>3, <3>5, <1>5, <1>7
    <3>6. CASE res[q].frame < Depth
      BY <3>1, <3>3, <3>6, <2>1, <1>7
    <3> QED BY <3>4, <3>5, <3>6
  <2> QED BY <2>1, <2>2, <1>2, <1>8, ResultKept
<1>9. ResultsSound'
  BY <1>3, <1>8 DEF ResultsSound
<1>10. ASSUME NEW q \in Objects, Owns(q)' PROVE q # o /\ res[q] # Gone /\ Owns(q) /\ Span(q)' = Span(q)
  <2>1. q # o /\ res[q] # Gone
    BY <1>3, <1>10 DEF Owns
  <2> QED BY <2>1, <1>8, <1>10
<1>11. SpansApart'
  BY <1>10 DEF IInv, SpansApart
<1>12. ValuesOwned'
  <2>1. SUFFICES ASSUME "assign_over" \notin Uses, NEW i \in 1 .. Len(stack'), NEW c \in Calls, stack'[i] = Val(c)
                 PROVE  \E q \in Objects : Owns(q)' /\ i \in Span(q)'
    BY DEF ValuesOwned
  <2>2. CASE i < a
    <3>1. i \in 1 .. Len(stack) /\ stack[i] = Val(c)
      BY <2>1, <2>2, <1>5
    <3>2. PICK q \in Objects : Owns(q) /\ i \in Span(q)
      BY <2>1, <3>1 DEF IInv, ValuesOwned
    <3>3. q # o
      <4>1. SUFFICES ASSUME q = o PROVE FALSE
        OBVIOUS
      <4>2. i \in a .. a + n - 1
        BY <3>2, <4>1, <1>1
      <4> QED BY <4>2, <2>2, <1>1, <1>2
    <3>4. res[q] # Gone
      BY <3>2 DEF Owns
    <3> QED BY <3>2, <3>3, <3>4, <1>8
  <2>3. CASE ~(i < a)
    <3>1. i + n \in 1 .. Len(stack) /\ stack[i + n] = Val(c)
      BY <2>1, <2>3, <1>5
    <3>2. PICK q \in Objects : Owns(q) /\ i + n \in Span(q)
      BY <2>1, <3>1 DEF IInv, ValuesOwned
    <3>3. CASE q = o
      <4>1. i + n \in a .. a + n - 1
        BY <3>2, <3>3, <1>1
      <4> QED BY <4>1, <2>3, <1>1
    <3>4. CASE q # o
      <4>1. i + n < a
        BY <3>2, <3>4, <1>1
      <4> QED BY <4>1, <2>3, <1>1
    <3> QED BY <3>3, <3>4
  <2> QED BY <2>2, <2>3
<1> QED BY <1>4, <1>6, <1>9, <1>11, <1>12, FramesKept

LEMMA DestroyKeeps ==
    ASSUME Uses \subseteq {"assign_over"}, IInv, NEW o \in Objects, Destroy(o)
    PROVE  IInv'
<1> DEFINE n == res[o].popcount
           x == res[o].index
<1>1. /\ res[o] # Gone /\ res[o].frame = Depth
      /\ Owns(o) => IF res[o].kind = "unsafe" THEN AtTop(o) ELSE Topmost(o)
      /\ stack' = IF res[o].kind = "unsafe" THEN Cut(stack, res[o].returncount)
                  ELSE removed(stack, Base, x, n)
      /\ res' = [res EXCEPT ![o] = Gone] /\ UNCHANGED <<elsewhere, frames>>
  BY DEF Destroy, Local, InOrder
<1>2. n = res[o].returncount /\ n \in Nat /\ x \in Nat /\ (~Owns(o) => n = 0)
  BY <1>1, TypeFacts DEF IInv, ResultsSound, ResultSound, Owns
<1> HIDE DEF n, x
<1>3. /\ stack \in Seq(Item) /\ Len(stack) \in Nat /\ Base \in 0 .. Len(stack)
      /\ Base = frames[Depth].base /\ Depth \in 1 .. Depth /\ Depth \in Nat
  BY TypeFacts, TopFacts DEF IInv
<1>4. CASE ~Owns(o)
  <2>1. stack' \in Seq(Item) /\ Without(stack', stack, Len(stack) + 1, 0)
    <3>1. CASE res[o].kind = "unsafe"
      <4>1. 0 \in 0 .. Len(stack) /\ stack' = Cut(stack, 0)
        BY <1>1, <1>2, <1>3, <1>4, <3>1
      <4>2. /\ Cut(stack, 0) \in Seq(Item) /\ Len(Cut(stack, 0)) = Len(stack) - 0
            /\ \A i \in 1 .. Len(stack) - 0 : Cut(stack, 0)[i] = stack[i]
        BY <4>1, <1>3, CutFacts
      <4> QED BY <4>1, <4>2, <1>3 DEF Without
    <3>2. CASE res[o].kind # "unsafe"
      <4>1. stack' = stack
        BY <1>1, <1>2, <1>4, <3>2 DEF removed
      <4> QED BY <4>1, <1>3 DEF Without
    <3> QED BY <3>1, <3>2
  <2>2. \A p \in Objects : Owns(p) /\ p # o => \A i \in Span(p) : i < Len(stack) + 1
    BY <1>3, OwnerFacts
  <2>3. Vacates(o, Len(stack) + 1, 0)
    BY <2>1, <2>2, <1>3, <1>4 DEF Vacates
  <2> QED BY <2>3, <1>1, VacatedKeeps
<1>5. CASE Owns(o)
  <2> DEFINE a == Base + x
  <2>1. /\ n \in Nat \ {0} /\ x \in Nat \ {0}
        /\ \A i \in Span(o) : i \in 1 .. Len(stack)
    BY <1>5, OwnerFacts DEF n, x
  <2>2. Span(o) = a .. a + n - 1
    BY <1>1, <1>3 DEF Span, n, x
  <2>3. a \in Nat \ {0} /\ Base < a /\ a + n <= Len(stack) + 1 /\ a \in Span(o)
    <3>1. a \in Nat \ {0} /\ Base < a /\ a \in a .. a + n - 1 /\ a + n - 1 \in a .. a + n - 1
      <4>1. Base \in Nat /\ x \in Nat /\ x > 0 /\ n \in Nat /\ n > 0
        BY <2>1, <1>3
      <4> QED BY <4>1
    <3>2. a \in Span(o) /\ a + n - 1 \in 1 .. Len(stack)
      BY <3>1, <2>1, <2>2
    <3>3. a + n <= Len(stack) + 1
      <4>1. Base \in Nat /\ x \in Nat /\ n \in Nat /\ Len(stack) \in Nat /\ a + n - 1 <= Len(stack)
        BY <3>2, <2>1, <1>3
      <4> QED BY <4>1
    <3> QED BY <3>1, <3>2, <3>3
  <2>4. stack' \in Seq(Item) /\ Without(stack', stack, a, n)
    <3>1. CASE res[o].kind = "unsafe"
      <4>1. n \in 0 .. Len(stack) /\ stack' = Cut(stack, n)
        BY <2>1, <2>3, <1>1, <1>2, <1>3, <3>1, SMTT(30)
      <4>2. /\ Cut(stack, n) \in Seq(Item) /\ Len(Cut(stack, n)) = Len(stack) - n
            /\ \A i \in 1 .. Len(stack) - n : Cut(stack, n)[i] = stack[i]
        BY <4>1, <1>3, CutFacts
      <4>3. \A i \in 1 .. Len(stack) - n : i < a
        <5>1. Len(stack) - Base = x + n - 1
          BY <1>1, <1>2, <1>5, <3>1 DEF AtTop, gettop, x
        <5>2. Base \in Nat /\ x \in Nat /\ n \in Nat /\ Len(stack) \in Nat
          BY <2>1, <1>3
        <5> QED BY <5>1, <5>2
      <4> HIDE DEF a
      <4> QED BY <4>1, <4>2, <4>3 DEF Without
    <3>2. CASE res[o].kind # "unsafe"
      <4>1. stack' = removed(stack, Base, x, n)
        BY <1>1, <3>2
      <4>2. Base \in Nat /\ Base + x + n <= Len(stack) + 1
        BY <2>3, <1>3
      <4>3. /\ removed(stack, Base, x, n) \in Seq(Item)
            /\ Without(removed(stack, Base, x, n), stack, Base + x, n)
        BY <4>2, <2>1, <1>3, RemovedFacts
      <4> QED BY <4>1, <4>3
    <3> QED BY <3>1, <3>2
  <2>5. ASSUME NEW p \in Objects, Owns(p), p # o, NEW i \in Span(p) PROVE i < a
    <3>1. /\ res[p].frame \in 1 .. Depth /\ i \in 1 .. Len(stack)
          /\ \A g \in 1 .. Depth : res[p].frame < g => i < frames[g].base - Handed(g)
          /\ res[p].index \in Nat \ {0} /\ res[p].popcount \in Nat \ {0}
      BY <2>5, OwnerFacts
    <3>2. \A j \in Span(p) : j \notin Span(o)
      BY <2>5, <1>5 DEF IInv, SpansApart
    <3>3. CASE res[p].frame # Depth
      <4>1. res[p].frame < Depth
        BY <3>1, <3>3, <1>3
      <4>2. i < Base - Handed(Depth) /\ Handed(Depth) \in 0 .. 1
        BY <4>1, <3>1, <1>3 DEF Handed
      <4> QED BY <4>2, <3>1, <2>3, <1>3
    <3>4. CASE res[p].frame = Depth /\ res[o].kind = "unsafe"
      <4>1. Len(stack) - Base = x + n - 1
        BY <1>1, <1>2, <1>5, <3>4 DEF AtTop, gettop, x
      <4>2. a + n - 1 = Len(stack)
        <5>1. Base \in Nat /\ x \in Nat /\ n \in Nat /\ Len(stack) \in Nat
          BY <2>1, <1>3
        <5> QED BY <4>1, <5>1
      <4>3. i \notin a .. a + n - 1
        BY <3>2, <2>2
      <4> QED BY <4>2, <4>3, <3>1, <2>3
    <3>5. CASE res[p].frame = Depth /\ res[o].kind # "unsafe"
      <4>1. res[p].index <= x
        BY <1>1, <1>5, <2>5, <3>5 DEF Topmost, Local, Owns, x
      <4>2. Span(p) = Base + res[p].index .. Base + res[p].index + res[p].popcount - 1
        BY <3>5, <1>3 DEF Span
      <4>3. a \notin Span(p)
        BY <3>2, <2>3
      <4>4. /\ Base \in Nat /\ x \in Nat /\ i \in Nat /\ res[p].index \in Nat /\ res[p].popcount \in Nat
            /\ Base + res[p].index <= i /\ i <= Base + res[p].index + res[p].popcount - 1
        BY <4>2, <3>1, <2>1, <1>3
      <4>5. ~(Base + res[p].index <= a /\ a <= Base + res[p].index + res[p].popcount - 1)
        BY <4>2, <4>3, <4>4
      <4> QED BY <4>1, <4>4, <4>5
    <3> QED BY <3>3, <3>4, <3>5
  <2> HIDE DEF a
  <2>6. Vacates(o, a, n)
    BY <2>1, <2>2, <2>3, <2>4, <2>5, <1>5 DEF Vacates
  <2> QED BY <2>6, <1>1, VacatedKeeps
<1> QED BY <1>4, <1>5

-----------------------------------------------------------------------------
(* A call ends.                                                            *)

\* The call in frame f left m values over b for object t, and the frames from f
\* on are gone.
Delivered(f, t, c, b, m) ==
    /\ Depth' = f - 1 /\ elsewhere' = elsewhere
    /\ \A g \in 1 .. f - 1 : frames'[g] = frames[g]
    /\ Topped(stack', stack, b, Val(c), m)
    /\ \A o \in Objects : o # t =>
          res'[o] = IF res[o] # Gone /\ res[o].frame >= f THEN Gone ELSE res[o]
    /\ res'[t] = Gone => m = 0
    /\ res'[t] # Gone =>
          /\ res'[t].frame = f - 1 /\ res'[t].call = c
          /\ res'[t].index = b + 1 - frames[f - 1].base
          /\ res'[t].popcount = m /\ res'[t].returncount = m

\* What frame f rests on: base e, the one below it base d, with v handlers.
LEMMA CalledFrom ==
    ASSUME IInv, NEW f \in 2 .. Depth
    PROVE  /\ f \in 1 .. Depth /\ f - 1 \in 1 .. Depth /\ f \in Nat /\ f - 1 \in Nat /\ f - 1 < f
           /\ frames[f].base \in Nat /\ frames[f - 1].base \in Nat /\ Handed(f) \in 0 .. 1
           /\ frames[f - 1].base + Handed(f) < frames[f].base /\ frames[f].base <= Len(stack)
           /\ Len(stack) \in Nat
           /\ frames[f].call.first = frames[f].base - frames[f - 1].base - Handed(f)
           /\ frames[f].call.handler \in {"none", "here"}
           /\ frames[f].call.handler = "none" => Handed(f) = 0
           /\ frames[f].call.handler = "here" =>
                 /\ Handed(f) = 1 /\ stack[frames[f].base - 1] = H
                 /\ frames[f].call.stackindex = frames[f].base - 1 - frames[f - 1].base
           /\ res[frames[f].call.into] = Gone /\ frames[f].call.into \in Objects
<1>1. f \in 1 .. Depth /\ f - 1 \in 1 .. Depth /\ f \in Nat /\ f - 1 \in Nat /\ f - 1 < f
  BY TypeFacts DEF IInv
<1>2. /\ frames[f].base \in Nat /\ frames[f - 1].base \in Nat /\ Len(stack) \in Nat
      /\ frames[f].call.handler \in Handlers /\ frames[f].call.into \in Objects
  BY <1>1, TypeFacts DEF IInv
<1>3. Handed(f) \in 0 .. 1
  BY DEF Handed
<1>4. /\ frames[f - 1].base + Handed(f) < frames[f].base /\ frames[f].base <= Len(stack)
      /\ frames[f].call.first = frames[f].base - frames[f - 1].base - Handed(f)
      /\ frames[f].call.handler # "elsewhere"
      /\ frames[f].call.handler = "here" =>
            /\ stack[frames[f].base - 1] = H
            /\ frames[f].call.stackindex = frames[f].base - 1 - frames[f - 1].base
  BY <1>1 DEF IInv, FramesSound
<1>5. /\ frames[f].call.handler = "none" => Handed(f) = 0
      /\ frames[f].call.handler = "here" => Handed(f) = 1
  BY DEF Handed
<1>6. frames[f].call.handler \in {"none", "here"}
  BY <1>2, <1>4 DEF Handlers
<1>7. res[frames[f].call.into] = Gone
  BY DEF IInv, TargetsSound
<1> QED BY <1>1, <1>2, <1>3, <1>4, <1>5, <1>6, <1>7

LEMMA DeliverFacts ==
    ASSUME IInv, NEW f \in 2 .. Depth, NEW c \in Calls, NEW code \in {"ok", "runtime"},
           NEW got \in Nat, NEW st \in Seq(Item),
           Topped(st, stack, frames[f].base - 1, Val(c), got),
           frames[f].call.rets # MULTRET => got = frames[f].call.rets,
           Deliver(f, st, c, code)
    PROVE  /\ TypeOK'
           /\ \E m \in Nat : Delivered(f, frames[f].call.into, c, frames[f].base - 1 - Handed(f), m)
<1> DEFINE call == frames[f].call
           e == frames[f].base
           d == frames[f - 1].base
           v == Handed(f)
           t == call.into
           b == e - 1 - v
           m == IF call.rets = MULTRET THEN got ELSE 0
           left == IF call.rets = MULTRET THEN st ELSE Cut(st, call.rets)
           count == ReturnCount(Len(st) - d - v, call.first)
           new == [kind |-> call.kind, frame |-> f - 1, index |-> call.first, returncount |-> count,
                   popcount |-> count, err |-> code, call |-> c]
           R == [base : Nat, users : 0 .. MaxUsers, call : Call]
<1>1. /\ f \in 1 .. Depth /\ f - 1 \in 1 .. Depth /\ f \in Nat /\ f - 1 \in Nat /\ f - 1 < f
      /\ e \in Nat /\ d \in Nat /\ v \in 0 .. 1 /\ d + v < e /\ e <= Len(stack) /\ Len(stack) \in Nat
      /\ call.first = e - d - v
      /\ call.handler \in {"none", "here"}
      /\ call.handler = "none" => v = 0
      /\ call.handler = "here" => v = 1 /\ stack[e - 1] = H /\ call.stackindex = e - 1 - d
      /\ res[t] = Gone /\ t \in Objects
  BY CalledFrom
<1>2. /\ Depth \in Nat /\ Depth \in 1 .. MaxDepth /\ call.kind \in Kinds
      /\ frames \in Seq(R) /\ stack \in Seq(Item) /\ res \in [Objects -> Result \cup {Gone}]
      /\ call.rets \in {MULTRET} \cup 0 .. MaxRets
  BY <1>1, TypeFacts DEF IInv, TypeOK
<1>3. /\ res' = [o \in Objects |->
                   IF o = t /\ call.rets = MULTRET THEN new
                   ELSE IF res[o] # Gone /\ res[o].frame >= f THEN Gone ELSE res[o]]
      /\ stack' = IF call.handler = "here" THEN removed(left, d, call.stackindex, 1) ELSE left
      /\ frames' = SubSeq(frames, 1, f - 1)
  BY DEF Deliver, Handed
<1>4. elsewhere' = elsewhere
  BY <1>1 DEF Deliver
<1>5. Len(st) = e - 1 + got /\ (\A i \in 1 .. e - 1 : st[i] = stack[i]) /\ \A i \in e - 1 + 1 .. e - 1 + got : st[i] = Val(c)
  BY DEF Topped
<1> HIDE DEF call, e, d, v, t, left, new, R
<1>6. count = got /\ b \in Nat /\ call.first = b + 1 - d /\ call.first \in Nat /\ d <= b
  <2>1. e \in Nat /\ d \in Nat /\ v \in Nat /\ got \in Nat /\ d + v < e
    BY <1>1
  <2>2. b \in Nat /\ call.first = b + 1 - d /\ call.first \in Nat /\ d <= b
    BY <1>1, <2>1
  <2>3. count = (e - 1 + got) - d - v - ((e - d - v) - 1)
    BY <1>1, <1>5 DEF ReturnCount
  <2> QED BY <2>1, <2>2, <2>3
<1>7. m \in Nat /\ (call.rets # MULTRET => m = 0) /\ (call.rets = MULTRET => m = got)
  OBVIOUS
<1> HIDE DEF m, count
<1>8. left \in Seq(Item) /\ Topped(left, stack, e - 1, Val(c), m)
  <2>1. CASE call.rets = MULTRET
    BY <2>1, <1>7, <1>5 DEF left, Topped
  <2>2. CASE call.rets # MULTRET
    <3>1. left = Cut(st, got) /\ m = 0
      BY <2>2, <1>7 DEF left, call
    <3>2. got \in 0 .. Len(st) /\ Len(st) - got = e - 1
      BY <1>1, <1>5
    <3>3. /\ Cut(st, got) \in Seq(Item) /\ Len(Cut(st, got)) = Len(st) - got
          /\ \A i \in 1 .. Len(st) - got : Cut(st, got)[i] = st[i]
      BY <3>2, CutFacts
    <3>4. /\ left \in Seq(Item) /\ Len(left) = e - 1 /\ \A i \in 1 .. e - 1 : left[i] = stack[i]
      BY <3>1, <3>2, <3>3, <1>5
    <3>5. \A i : i \notin e - 1 + 1 .. e - 1 + 0
      BY <1>1
    <3> QED BY <3>1, <3>4, <3>5, <1>1 DEF Topped
  <2> QED BY <2>1, <2>2
<1>9. stack' \in Seq(Item) /\ Topped(stack', stack, b, Val(c), m)
  <2>1. CASE call.handler = "none"
    <3>1. stack' = left /\ b = e - 1
      BY <2>1, <1>1, <1>3
    <3> QED BY <3>1, <1>8
  <2>2. CASE call.handler = "here"
    <3>1. stack' = removed(left, d, e - 1 - d, 1) /\ b = e - 2 /\ v = 1
      BY <2>2, <1>1, <1>3
    <3>2. Len(left) = e - 1 + m /\ (\A i \in 1 .. e - 1 : left[i] = stack[i]) /\ \A i \in e - 1 + 1 .. e - 1 + m : left[i] = Val(c)
      BY <1>8 DEF Topped
    <3>3. e - 1 - d \in Nat \ {0} /\ d + (e - 1 - d) = e - 1 /\ d + (e - 1 - d) + 1 <= Len(left) + 1
      BY <3>1, <3>2, <1>1, <1>7, SMTT(40)
    <3>4. stack' \in Seq(Item) /\ Without(stack', left, d + (e - 1 - d), 1)
      BY <3>1, <3>3, <1>1, <1>8, RemovedFacts
    <3>5. Without(stack', left, e - 1, 1)
      BY <3>3, <3>4
    <3>6. /\ Len(stack') = e - 1 + m - 1
          /\ \A i \in 1 .. e - 1 + m - 1 : i < e - 1 => stack'[i] = left[i]
          /\ \A i \in 1 .. e - 1 + m - 1 : ~(i < e - 1) => stack'[i] = left[i + 1]
      <4>1. Len(stack') = Len(left) - 1 /\ \A i \in 1 .. Len(left) - 1 : stack'[i] = IF i < e - 1 THEN left[i] ELSE left[i + 1]
        BY <3>5 DEF Without
      <4>2. Len(left) - 1 = e - 1 + m - 1
        BY <3>2, <1>1, <1>7
      <4> QED BY <4>1, <4>2
    <3>7. Len(stack') = b + m
      BY <3>1, <3>6, <1>1, <1>7
    <3>8. ASSUME NEW i \in 1 .. b PROVE stack'[i] = stack[i]
      <4>1. i \in 1 .. e - 1 + m - 1 /\ i < e - 1 /\ i \in 1 .. e - 1
        BY <3>1, <1>1, <1>7
      <4> QED BY <4>1, <3>2, <3>6
    <3>9. ASSUME NEW i \in b + 1 .. b + m PROVE stack'[i] = Val(c)
      <4>1. i \in 1 .. e - 1 + m - 1 /\ ~(i < e - 1) /\ i + 1 \in e - 1 + 1 .. e - 1 + m
        BY <3>1, <1>1, <1>7
      <4> QED BY <4>1, <3>2, <3>6
    <3> QED BY <3>4, <3>7, <3>8, <3>9 DEF Topped
  <2> QED BY <2>1, <2>2, <1>1
<1> HIDE DEF b
<1>10. Depth' = f - 1 /\ frames' \in Seq(R) /\ \A g \in 1 .. f - 1 : frames'[g] = frames[g]
  <2>1. f - 1 \in Int /\ f - 1 <= Len(frames) /\ f - 1 > 0
    BY <1>1, <1>2 DEF Depth
  <2>2. /\ SubSeq(frames, 1, f - 1) \in Seq(R)
        /\ Len(SubSeq(frames, 1, f - 1)) = IF f - 1 > 0 THEN f - 1 ELSE 0
        /\ \A i \in 1 .. f - 1 : SubSeq(frames, 1, f - 1)[i] = frames[i]
    BY <2>1, <1>2, PrefixFacts
  <2> QED BY <2>1, <2>2, <1>3 DEF Depth
<1>11. new \in Result /\ new # Gone /\ new.frame = f - 1 /\ new.call = c /\ new.index = b + 1 - d /\ new.popcount = got /\ new.returncount = got
  <2>1. f - 1 \in 1 .. MaxDepth
    BY <1>1, <1>2, CallAssumption
  <2>2. new \in Result
    BY <2>1, <1>2, <1>6 DEF new, Result
  <2>3. new.frame = f - 1 /\ new.call = c /\ new.index = call.first /\ new.popcount = count /\ new.returncount = count
    BY DEF new
  <2> QED BY <2>2, <2>3, <1>6, GoneFacts
<1>12. res' \in [Objects -> Result \cup {Gone}]
  BY <1>2, <1>3, <1>11
<1>13. /\ \A o \in Objects : o # t =>
             res'[o] = IF res[o] # Gone /\ res[o].frame >= f THEN Gone ELSE res[o]
       /\ res'[t] = IF call.rets = MULTRET THEN new ELSE Gone
  BY <1>1, <1>3
<1>14. TypeOK'
  <2>1. Depth' \in 1 .. MaxDepth
    BY <1>1, <1>2, <1>10, CallAssumption
  <2> QED BY <2>1, <1>4, <1>9, <1>10, <1>12 DEF IInv, TypeOK, R
<1>15. /\ res'[t] = Gone => m = 0
       /\ res'[t] # Gone => /\ res'[t].frame = f - 1 /\ res'[t].call = c
                            /\ res'[t].index = b + 1 - d
                            /\ res'[t].popcount = m /\ res'[t].returncount = m
  BY <1>7, <1>11, <1>13
<1>16. Delivered(f, t, c, b, m)
  BY <1>4, <1>9, <1>10, <1>13, <1>15 DEF Delivered, d
<1> QED BY <1>7, <1>14, <1>16 DEF b, t, call, e, v

LEMMA DeliveredKeeps ==
    ASSUME IInv, TypeOK', NEW f \in 2 .. Depth, NEW t \in Objects, t = frames[f].call.into,
           NEW c \in Calls, NEW b, b = frames[f].base - 1 - Handed(f), NEW m \in Nat,
           Delivered(f, t, c, b, m)
    PROVE  IInv'
<1> DEFINE e == frames[f].base
           d == frames[f - 1].base
           v == Handed(f)
<1>1. /\ f \in 1 .. Depth /\ f - 1 \in 1 .. Depth /\ f \in Nat /\ f - 1 \in Nat /\ f - 1 < f
      /\ e \in Nat /\ d \in Nat /\ v \in 0 .. 1 /\ d + v < e /\ e <= Len(stack) /\ Len(stack) \in Nat
      /\ frames[f].call.handler \in {"none", "here"}
      /\ frames[f].call.handler = "none" => v = 0
      /\ frames[f].call.handler = "here" => v = 1 /\ stack[e - 1] = H
      /\ res[t] = Gone
  BY CalledFrom
<1>2. /\ Depth' = f - 1 /\ elsewhere' = elsewhere
      /\ \A g \in 1 .. f - 1 : frames'[g] = frames[g]
      /\ Len(stack') = b + m
      /\ \A i \in 1 .. b : stack'[i] = stack[i]
      /\ \A i \in b + 1 .. b + m : stack'[i] = Val(c)
      /\ \A o \in Objects : o # t =>
            res'[o] = IF res[o] # Gone /\ res[o].frame >= f THEN Gone ELSE res[o]
      /\ res'[t] = Gone => m = 0
      /\ res'[t] # Gone =>
            /\ res'[t].frame = f - 1 /\ res'[t].call = c
            /\ res'[t].index = b + 1 - d
            /\ res'[t].popcount = m /\ res'[t].returncount = m
  BY DEF Delivered, Topped
<1>3. b = e - 1 - v
  OBVIOUS
<1> HIDE DEF e, d, v
<1>4. b \in Nat /\ d <= b /\ b < Len(stack) /\ b < e /\ Depth \in Nat
  <2>1. e \in Nat /\ d \in Nat /\ v \in Nat /\ d + v < e /\ e <= Len(stack) /\ Len(stack) \in Nat
    BY <1>1
  <2>2. Depth \in Nat
    BY TypeFacts DEF IInv
  <2> QED BY <2>1, <2>2, <1>3
<1>5. /\ \A g \in 1 .. Depth : frames[g].base \in Nat
      /\ \A g, h \in 1 .. Depth : g < h => frames[g].base + Handed(h) < frames[h].base
      /\ \A g \in 1 .. Depth : Handed(g) \in 0 .. 1
  BY TypeFacts, SMTT(30) DEF IInv, FramesSound, Handed
<1>6. \A g \in 1 .. Depth : g > f => frames[g].base > e
  <2>1. SUFFICES ASSUME NEW g \in 1 .. Depth, g > f PROVE frames[g].base > e
    OBVIOUS
  <2>2. e + Handed(g) < frames[g].base
    BY <2>1, <1>1, <1>5 DEF e
  <2> QED BY <2>2, <1>1, <1>5, SMTT(40)
<1>7. \A g \in 1 .. f - 1 : g \in 1 .. Depth /\ g < f /\ frames[g].base <= d
  <2>1. SUFFICES ASSUME NEW g \in 1 .. f - 1 PROVE g \in 1 .. Depth /\ g < f /\ frames[g].base <= d
    OBVIOUS
  <2>2. g \in 1 .. Depth /\ g < f
    BY <1>1, <1>4
  <2>3. CASE g = f - 1
    BY <2>2, <2>3, <1>1 DEF d
  <2>4. CASE g # f - 1
    <3>1. g < f - 1
      BY <2>4, <1>1
    <3>2. frames[g].base + Handed(f - 1) < d /\ Handed(f - 1) \in 0 .. 1
      BY <2>2, <3>1, <1>1, <1>5 DEF d
    <3> QED BY <2>2, <3>2, <1>1, <1>5
  <2> QED BY <2>3, <2>4
<1>8. \A i \in 1 .. Len(stack') : (i \in 1 .. b /\ i \in 1 .. Len(stack)) \/ i \in b + 1 .. b + m
  <2>1. Len(stack') = b + m /\ b \in Nat /\ Len(stack) \in Nat /\ b < Len(stack)
    BY <1>1, <1>2, <1>4
  <2> QED BY <2>1
<1>9. KeepsFrames(f - 1, d)
  <2>1. Cardinality(Users(stack', d + 1, Len(stack'))) = frames'[f - 1].users
    <3>1. f - 1 # Depth /\ (f - 1) + 1 = f
      BY <1>1
    <3>2. {i \in Extent(f - 1) : stack[i] = User} = Users(stack, d + 1, e - 1)
      BY <3>1 DEF Extent, Users, d, e
    <3>3. Cardinality(Users(stack, d + 1, e - 1)) = frames[f - 1].users
      BY <3>2, <1>1 DEF IInv, NothingTaken
    <3>4. Users(stack', d + 1, Len(stack')) = Users(stack, d + 1, e - 1)
      <4>1. ASSUME NEW i \in d + 1 .. b + m, stack'[i] = User
            PROVE  i \in d + 1 .. e - 1 /\ stack[i] = User
        <5>1. i \in 1 .. Len(stack')
          BY <1>1, <1>2, <1>4
        <5>2. i \in 1 .. b
          BY <4>1, <5>1, <1>2, <1>8, ItemFacts
        <5>3. i \in d + 1 .. e - 1
          BY <5>2, <1>1, <1>4
        <5> QED BY <4>1, <5>2, <5>3, <1>2
      <4>2. ASSUME NEW i \in d + 1 .. e - 1, stack[i] = User
            PROVE  i \in d + 1 .. b + m /\ stack'[i] = User
        <5>1. i <= b
          <6>1. CASE frames[f].call.handler = "none"
            BY <6>1, <1>1, <1>3
          <6>2. CASE frames[f].call.handler = "here"
            <7>1. i # e - 1 /\ v = 1
              BY <4>2, <6>2, <1>1, ItemFacts
            <7> QED BY <7>1, <1>1, <1>3
          <6> QED BY <6>1, <6>2, <1>1
        <5>2. i \in 1 .. b /\ i \in d + 1 .. b + m
          BY <5>1, <1>1, <1>4, SMTT(30)
        <5> QED BY <4>2, <5>2, <1>2
      <4> QED BY <4>1, <4>2, <1>2 DEF Users
    <3> QED BY <3>3, <3>4, <1>1, <1>2
  <2>2. ASSUME NEW i \in 1 .. Len(stack'), stack'[i] = H PROVE i <= d
    <3>1. i \in 1 .. b /\ i \in 1 .. Len(stack) /\ stack[i] = H
      BY <2>2, <1>2, <1>8, ItemFacts
    <3>2. PICK h \in 2 .. Depth : frames[h].call.handler = "here" /\ i = frames[h].base - 1
      BY <3>1 DEF IInv, HandlersPlaced
    <3>3. h \in 1 .. Depth /\ frames[h].base \in Nat
      BY <1>4, <1>5
    <3>4. CASE h < f
      <4>1. h \in 1 .. f - 1
        BY <3>4, <1>1
      <4> QED BY <4>1, <3>2, <3>3, <1>1, <1>7, SMTT(40)
    <3>5. CASE h = f
      <4>1. i = e - 1 /\ v = 1
        BY <3>2, <3>5, <1>1 DEF e
      <4> QED BY <4>1, <3>1, <1>1, <1>3
    <3>6. CASE h > f
      <4>1. frames[h].base > e
        BY <3>3, <3>6, <1>6
      <4>2. e \in Nat /\ b < e /\ i <= b /\ i = frames[h].base - 1 /\ i \in Nat /\ b \in Nat
        BY <3>1, <3>2, <1>1, <1>4
      <4> QED BY <4>1, <4>2, <3>3, SMTT(40)
    <3> QED BY <3>4, <3>5, <3>6, <3>3, <1>1
  <2>3. ASSUME NEW g \in 2 .. f - 1 PROVE res'[frames[g].call.into] = Gone
    <3>1. g \in 2 .. Depth /\ g # f /\ g \in 1 .. Depth
      BY <1>1, <1>4
    <3>2. frames[g].call.into # t /\ res[frames[g].call.into] = Gone /\ frames[g].call.into \in Objects
      BY <3>1, TypeFacts DEF IInv, TargetsSound
    <3> QED BY <3>2, <1>2
  <2>4. d <= Len(stack') /\ \A i \in 1 .. d : stack'[i] = stack[i]
    <3>1. d <= Len(stack') /\ \A i \in 1 .. d : i \in 1 .. b
      BY <1>1, <1>2, <1>4
    <3> QED BY <3>1, <1>2
  <2> QED BY <2>1, <2>2, <2>3, <2>4, <1>1, <1>2, <1>7 DEF KeepsFrames, d
<1>10. NewTop(f - 1) = b + m /\ \A g \in 1 .. Depth : g < f - 1 => NewTop(g) = Top(g)
  BY <1>2, <1>9, TopKept DEF IInv
<1>11. ASSUME NEW o \in Objects, res[o] # Gone, res[o].frame < f
       PROVE  /\ o # t /\ res'[o] = res[o]
              /\ Owns(o) => \A i \in Span(o) : i <= b
              /\ ResultSound(o)' /\ Owns(o)' = Owns(o) /\ Span(o)' = Span(o)
  <2>1. o # t
    BY <1>1, <1>11
  <2>2. res[o].frame \in 1 .. Depth
    BY <1>11 DEF IInv, ResultsSound, ResultSound
  <2>3. res'[o] = res[o] /\ res[o].frame \in 1 .. f - 1
    BY <2>1, <2>2, <1>1, <1>2, <1>11
  <2>4. ASSUME Owns(o), NEW i \in Span(o)
        PROVE  i <= b /\ i <= NewTop(res[o].frame) /\ stack'[i] = stack[i]
    <3>1. i \in 1 .. Len(stack) /\ i <= Top(res[o].frame) /\ i < frames[f].base - Handed(f)
      BY <2>4, <1>1, <1>11, OwnerFacts
    <3>2. i <= b
      BY <3>1, <1>1, <1>3 DEF e, v
    <3>3. i \in 1 .. b
      BY <3>1, <3>2, <1>4
    <3>4. CASE res[o].frame = f - 1
      <4>1. i <= b + m
        BY <3>3, <1>4
      <4> QED BY <3>2, <3>3, <3>4, <4>1, <1>2, <1>10
    <3>5. CASE res[o].frame # f - 1
      <4>1. res[o].frame < f - 1
        BY <2>3, <3>5, <1>1
      <4> QED BY <4>1, <3>1, <3>2, <3>3, <2>2, <1>2, <1>10
    <3> QED BY <3>4, <3>5
  <2>5. ResultSound(o)' /\ Owns(o)' = Owns(o) /\ Span(o)' = Span(o)
    <3>1. res[o].frame \in 1 .. Depth' /\ frames'[res[o].frame].base = frames[res[o].frame].base
      BY <2>3, <1>2
    <3>2. Owns(o) => \A i \in Span(o) : i <= NewTop(res[o].frame) /\ stack'[i] = stack[i]
      BY <2>4
    <3> QED BY <2>3, <3>1, <3>2, <1>11, ResultKept
  <2> QED BY <2>1, <2>3, <2>4, <2>5
<1>12. ASSUME NEW o \in Objects, o # t, res'[o] # Gone
       PROVE  res[o] # Gone /\ res[o].frame < f
  <2>1. res[o] # Gone /\ ~(res[o].frame >= f)
    BY <1>2, <1>12
  <2>2. res[o].frame \in 1 .. Depth
    BY <2>1 DEF IInv, ResultsSound, ResultSound
  <2> QED BY <2>1, <2>2, <1>1
<1>13. ASSUME res'[t] # Gone
       PROVE  /\ Owns(t)' = (m > 0) /\ Span(t)' = b + 1 .. b + m
  <2>1. Owns(t)' = (m > 0)
    BY <1>2, <1>13 DEF Owns
  <2>2. frames'[res'[t].frame].base = d /\ res'[t].index = b + 1 - d /\ res'[t].popcount = m
    <3>1. f - 1 \in 1 .. f - 1
      BY <1>1
    <3> QED BY <3>1, <1>2, <1>13 DEF d
  <2>3. d + (b + 1 - d) = b + 1 /\ b + 1 + m - 1 = b + m
    BY <1>1, <1>4
  <2>4. Span(t)' = b + 1 .. b + m
    BY <2>2, <2>3 DEF Span
  <2> QED BY <2>1, <2>4
<1>14. ResultsSound'
  <2>1. SUFFICES ASSUME NEW o \in Objects, res'[o] # Gone PROVE ResultSound(o)'
    BY DEF ResultsSound
  <2>2. CASE o # t
    BY <2>1, <2>2, <1>11, <1>12
  <2>3. CASE o = t
    <3>1. res'[t] # Gone
      BY <2>1, <2>3
    <3>2. /\ res'[t].frame \in 1 .. Depth' /\ res'[t].popcount = res'[t].returncount
          /\ res'[t].index >= 1 /\ frames'[res'[t].frame].base + res'[t].index + res'[t].popcount - 1 = b + m
      <4>1. f - 1 \in 1 .. f - 1
        BY <1>1
      <4>2. frames'[f - 1].base = d
        BY <4>1, <1>2 DEF d
      <4>3. d + (b + 1 - d) + m - 1 = b + m /\ b + 1 - d >= 1
        BY <1>1, <1>4, SMTT(30)
      <4> QED BY <4>1, <4>2, <4>3, <3>1, <1>2
    <3>3. Top(res[t].frame)' = b + m
      <4>1. Top(res[t].frame)' = NewTop(res'[t].frame)
        BY NewTopFacts
      <4> QED BY <4>1, <3>1, <1>2, <1>10
    <3>4. \A i \in Span(t)' : stack'[i] = Val(res'[t].call)
      BY <3>1, <1>2, <1>13
    <3>5. b + m <= b + m
      BY <1>4
    <3>6. ResultSound(t)'
      BY <3>2, <3>3, <3>4, <3>5 DEF ResultSound
    <3> QED BY <2>3, <3>6
  <2> QED BY <2>2, <2>3
<1>15. SpansApart'
  <2>1. SUFFICES ASSUME NEW o \in Objects, NEW p \in Objects, Owns(o)', Owns(p)', o # p,
                        NEW i \in Span(o)', i \in Span(p)'
                 PROVE  FALSE
    BY DEF SpansApart
  <2>2. res'[o] # Gone /\ res'[p] # Gone
    BY <2>1 DEF Owns
  <2>3. CASE o # t /\ p # t
    <3>1. Owns(o) /\ Owns(p) /\ i \in Span(o) /\ i \in Span(p)
      BY <2>1, <2>2, <2>3, <1>11, <1>12
    <3> QED BY <3>1, <2>1 DEF IInv, SpansApart
  <2>4. CASE o = t
    <3>1. i \in b + 1 .. b + m
      BY <2>1, <2>2, <2>4, <1>13
    <3>2. Owns(p) /\ i \in Span(p) /\ i <= b
      BY <2>1, <2>2, <2>4, <1>11, <1>12
    <3> QED BY <3>1, <3>2, <1>4
  <2>5. CASE p = t
    <3>1. i \in b + 1 .. b + m
      BY <2>1, <2>2, <2>5, <1>13
    <3>2. Owns(o) /\ i \in Span(o) /\ i <= b
      BY <2>1, <2>2, <2>5, <1>11, <1>12
    <3> QED BY <3>1, <3>2, <1>4
  <2> QED BY <2>3, <2>4, <2>5
<1>16. ValuesOwned'
  <2>1. SUFFICES ASSUME "assign_over" \notin Uses, NEW i \in 1 .. Len(stack'), NEW a \in Calls, stack'[i] = Val(a)
                 PROVE  \E o \in Objects : Owns(o)' /\ i \in Span(o)'
    BY DEF ValuesOwned
  <2>2. CASE i \in 1 .. b /\ i \in 1 .. Len(stack)
    <3>1. PICK o \in Objects : Owns(o) /\ i \in Span(o)
      BY <2>1, <2>2, <1>2 DEF IInv, ValuesOwned
    <3>2. res[o] # Gone /\ res[o].frame \in 1 .. Depth /\ frames[res[o].frame].base < i
      BY <3>1, OwnerFacts DEF Owns
    <3>3. res[o].frame < f
      <4>1. SUFFICES ASSUME ~(res[o].frame < f) PROVE FALSE
        OBVIOUS
      <4>2. frames[res[o].frame].base >= e
        <5>1. CASE res[o].frame = f
          BY <5>1, <1>1 DEF e
        <5>2. CASE res[o].frame # f
          <6>1. res[o].frame > f
            BY <4>1, <5>2, <3>2, <1>1
          <6>2. frames[res[o].frame].base > e /\ frames[res[o].frame].base \in Nat
            BY <6>1, <3>2, <1>5, <1>6
          <6> QED BY <6>2, <1>1, SMTT(40)
        <5> QED BY <5>1, <5>2
      <4>3. frames[res[o].frame].base \in Nat /\ e \in Nat /\ b \in Nat /\ i \in Nat /\ b < e
        BY <3>2, <2>2, <1>1, <1>4, <1>5, SMTT(30)
      <4>4. i <= b /\ frames[res[o].frame].base < i
        BY <3>2, <2>2
      <4> QED BY <4>2, <4>3, <4>4
    <3> QED BY <3>1, <3>2, <3>3, <1>11
  <2>3. CASE i \in b + 1 .. b + m
    <3>1. m > 0
      BY <2>3, <1>4
    <3>2. res'[t] # Gone
      BY <3>1, <1>2
    <3> QED BY <2>3, <3>1, <3>2, <1>13
  <2> QED BY <2>2, <2>3, <1>8
<1> QED BY <1>2, <1>9, <1>14, <1>15, <1>16, FramesKept

LEMMA ReturnKeeps ==
    ASSUME IInv, NEW c \in Calls, NEW k \in 0 .. MaxRets, Return(c, k) PROVE IInv'
<1> DEFINE f    == Depth
           call == frames[f].call
           got  == IF call.rets = MULTRET THEN k ELSE call.rets
           st   == SubSeq(stack, 1, frames[f].base - 1) \o Repeat(Val(c), got)
<1>1. f \in 2 .. Depth
  <2>1. Depth \in Nat /\ Depth > 1
    BY TypeFacts DEF IInv, Return
  <2> QED BY <2>1
<1>2. call.rets \in {MULTRET} \cup 0 .. MaxRets /\ call.into \in Objects /\ stack \in Seq(Item)
  BY <1>1, TypeFacts DEF IInv
<1>3. got \in Nat /\ (call.rets # MULTRET => got = call.rets)
  BY <1>2, CallAssumption
<1>4. frames[f].base - 1 \in 0 .. Len(stack)
  <2>1. frames[f].base \in Nat /\ frames[f].base <= Len(stack) /\ Len(stack) \in Nat
        /\ frames[f - 1].base \in Nat /\ Handed(f) \in 0 .. 1
        /\ frames[f - 1].base + Handed(f) < frames[f].base
    BY <1>1, CalledFrom
  <2> QED BY <2>1
<1>5. Deliver(f, st, c, "ok")
  BY DEF Return, Base
<1> HIDE DEF got
<1>6. st \in Seq(Item) /\ Topped(st, stack, frames[f].base - 1, Val(c), got)
  <2>1. Val(c) \in Item
    BY ItemFacts
  <2> QED BY <2>1, <1>2, <1>3, <1>4, ToppedFacts
<1> HIDE DEF f, st
<1>7. TypeOK' /\ \E m \in Nat : Delivered(f, frames[f].call.into, c, frames[f].base - 1 - Handed(f), m)
  BY <1>1, <1>3, <1>5, <1>6, DeliverFacts
<1>8. PICK m \in Nat : Delivered(f, frames[f].call.into, c, frames[f].base - 1 - Handed(f), m)
  BY <1>7
<1> QED BY <1>1, <1>2, <1>7, <1>8, DeliveredKeeps

\* An error is caught by the protected call entered last.
LEMMA InnermostFacts ==
    ASSUME ProtectedFrames # {}, Depth \in Nat
    PROVE  Innermost \in ProtectedFrames
<1> DEFINE R == {p \in Nat \X Nat : p[1] < p[2]}
           T == {Depth - g : g \in ProtectedFrames}
<1>1. IsWellFoundedOn(R, Nat)
  <2>1. OpToRel(<, Nat) = R
    BY DEF OpToRel
  <2> QED BY <2>1, NatLessThanWellFounded
<1>2. \A g \in ProtectedFrames : g \in Nat /\ Depth - g \in Nat
  BY DEF ProtectedFrames
<1>3. T \subseteq Nat /\ T # {}
  BY <1>2
<1> HIDE DEF R, T
<1>4. PICK i \in T : \A j \in T : ~ (<<j, i>> \in R)
  BY <1>1, <1>3, WFMin
<1>5. PICK f \in ProtectedFrames : i = Depth - f
  BY DEF T
<1>6. \A g \in ProtectedFrames : g <= f
  <2> SUFFICES ASSUME NEW g \in ProtectedFrames PROVE g <= f
    OBVIOUS
  <2>1. Depth - g \in T
    BY DEF T
  <2>2. ~ (<<Depth - g, i>> \in R) /\ Depth - g \in Nat /\ i \in Nat
    BY <2>1, <1>2, <1>3, <1>4
  <2>3. ~ (Depth - g < i)
    BY <2>2 DEF R
  <2>4. g \in Nat /\ f \in Nat
    BY <1>2
  <2> QED BY <2>3, <2>4, <1>5
<1> QED BY <1>6 DEF Innermost

LEMMA ErrorKeeps ==
    ASSUME Uses \subseteq {"assign_over"}, IInv, NEW c \in Calls, Error(c) PROVE IInv'
<1> DEFINE f  == Innermost
           st == Append(SubSeq(stack, 1, frames[f].base - 1), Val(c))
<1>1. f \in ProtectedFrames
  <2>1. Depth \in Nat
    BY TypeFacts DEF IInv
  <2> QED BY <2>1, InnermostFacts DEF Error
<1>2. frames[f].call.rets = MULTRET /\ Deliver(f, st, c, "runtime")
  BY DEF Error
<1> HIDE DEF f, st
<1>3. f \in 2 .. Depth
  BY <1>1 DEF ProtectedFrames
<1>4. stack \in Seq(Item) /\ frames[f].call.into \in Objects /\ Len(stack) \in Nat
  <2>1. f \in 1 .. Depth
    BY <1>3, TypeFacts DEF IInv
  <2> QED BY <2>1, TypeFacts DEF IInv
<1>5. frames[f].base \in Nat \ {0} /\ frames[f].base <= Len(stack)
  <2>1. frames[f].base \in Nat /\ frames[f].base <= Len(stack)
        /\ frames[f - 1].base \in Nat /\ Handed(f) \in 0 .. 1
        /\ frames[f - 1].base + Handed(f) < frames[f].base
    BY <1>3, CalledFrom
  <2> QED BY <2>1
<1>6. st \in Seq(Item) /\ Topped(st, stack, frames[f].base - 1, Val(c), 1)
  <2> DEFINE b == frames[f].base - 1
             p == SubSeq(stack, 1, b)
  <2>1. b \in Nat /\ b <= Len(stack)
    BY <1>4, <1>5
  <2> HIDE DEF b
  <2>2. p \in Seq(Item) /\ Len(p) = b /\ \A i \in 1 .. b : p[i] = stack[i]
    <3>1. /\ p \in Seq(Item) /\ Len(p) = (IF b > 0 THEN b ELSE 0)
          /\ \A i \in 1 .. b : p[i] = stack[i]
      BY <2>1, <1>4, PrefixFacts
    <3> HIDE DEF p
    <3> QED BY <3>1, <2>1
  <2>3. st = Append(p, Val(c)) /\ Val(c) \in Item
    BY ItemFacts DEF st, b
  <2> HIDE DEF p
  <2>4. /\ st \in Seq(Item) /\ Len(st) = b + 1 /\ st[b + 1] = Val(c)
        /\ \A i \in 1 .. b : st[i] = p[i]
    BY <2>2, <2>3, AppendProperties
  <2>5. \A i \in b + 1 .. b + 1 : i = b + 1
    BY <2>1
  <2> QED BY <2>2, <2>4, <2>5 DEF Topped, b
<1>7. TypeOK' /\ \E m \in Nat : Delivered(f, frames[f].call.into, c, frames[f].base - 1 - Handed(f), m)
  <2>1. 1 \in Nat
    OBVIOUS
  <2> QED BY <2>1, <1>2, <1>3, <1>6, DeliverFacts
<1>8. PICK m \in Nat : Delivered(f, frames[f].call.into, c, frames[f].base - 1 - Handed(f), m)
  BY <1>7
<1> QED BY <1>3, <1>4, <1>7, <1>8, DeliveredKeeps

-----------------------------------------------------------------------------
(* The invariant.                                                          *)

LEMMA InitIInv == Init => IInv
<1> SUFFICES ASSUME Init PROVE IInv
  OBVIOUS
<1> DEFINE into == CHOOSE o \in Objects : TRUE
           main == [base |-> 0, users |-> 0, call |-> NoCall(into)]
           R    == [base : Nat, users : 0 .. MaxUsers, call : Call]
<1>1. stack = <<>> /\ elsewhere = <<>> /\ frames = <<main>> /\ res = [o \in Objects |-> Gone]
  BY DEF Init
<1>2. into \in Objects
  BY CallAssumption
<1> HIDE DEF into
<1>3. NoCall(into) \in Call
  BY <1>2, CallAssumption DEF NoCall, Call, Kinds, Handlers
<1>4. main \in R /\ main.base = 0 /\ main.users = 0
  BY <1>3, CallAssumption
<1> HIDE DEF main, R
<1>5. /\ frames \in Seq(R) /\ Depth = 1 /\ frames[1] = main /\ Len(stack) = 0
      /\ stack \in Seq(Item) /\ elsewhere \in Seq({H})
  BY <1>1, <1>4 DEF Depth
<1>6. \A o \in Objects : res[o] = Gone
  BY <1>1
<1>7. TypeOK
  <2>1. 1 \in 1 .. MaxDepth
    BY CallAssumption
  <2> QED BY <1>1, <1>5, <2>1 DEF TypeOK, R
<1>8. FramesSound
  BY <1>4, <1>5 DEF FramesSound
<1>9. TargetsSound /\ ResultsSound /\ SpansApart /\ HandlersPlaced /\ ValuesOwned
  BY <1>5, <1>6 DEF TargetsSound, ResultsSound, SpansApart, HandlersPlaced, ValuesOwned, Owns
<1>10. NothingTaken
  <2>1. ASSUME NEW f \in 1 .. Depth
        PROVE  Cardinality({i \in Extent(f) : stack[i] = User}) = frames[f].users
    <3>1. f = 1
      BY <1>5
    <3>2. Extent(f) = 1 .. 0
      BY <3>1, <1>4, <1>5 DEF Extent
    <3>3. {i \in Extent(f) : stack[i] = User} = {}
      BY <3>2
    <3> QED BY <3>1, <3>3, <1>4, <1>5, FS_EmptySet
  <2> QED BY <2>1 DEF NothingTaken
<1> QED BY <1>1, <1>7, <1>8, <1>9, <1>10 DEF IInv

LEMMA NextKeeps ==
    ASSUME Uses \subseteq {"assign_over"}, IInv, [Next]_vars PROVE IInv'
<1>1. CASE PushUser
  BY <1>1, PushUserKeeps
<1>2. CASE PopUser
  BY <1>2, PopUserKeeps
<1>3. ASSUME NEW o \in Objects, NEW kind \in Kinds, NEW handler \in Handlers,
             NEW rets \in {MULTRET} \cup 0 .. MaxRets, NEW n \in 0 .. MaxArgs,
             BeginCall(o, kind, handler, rets, n)
      PROVE  IInv'
  BY <1>3, BeginCallKeeps
<1>4. ASSUME NEW c \in Fresh, Error(c) \/ Throw(c) \/ \E k \in 0 .. MaxRets : Return(c, k)
      PROVE  IInv'
  <2>1. c \in Calls
    BY DEF Fresh
  <2>2. CASE Error(c)
    BY <2>1, <2>2, ErrorKeeps
  <2>3. CASE Throw(c)
    BY <2>3 DEF Throw
  <2>4. ASSUME NEW k \in 0 .. MaxRets, Return(c, k) PROVE IInv'
    BY <2>1, <2>4, ReturnKeeps
  <2> QED BY <1>4, <2>2, <2>3, <2>4
<1>5. ASSUME NEW o \in Objects, Destroy(o) PROVE IInv'
  BY <1>5, DestroyKeeps
<1>6. ASSUME NEW p \in Objects, NEW o \in Objects, MoveAssign(p, o) PROVE IInv'
  BY <1>6, MoveAssignKeeps
<1>7. ASSUME NEW p \in Objects, NEW o \in Objects, Copy(p, o) PROVE IInv'
  BY <1>7, CopyKeeps
<1>8. ASSUME NEW p \in Objects, NEW o \in Objects, NEW kind \in Kinds, MoveConstruct(p, o, kind)
      PROVE  IInv'
  BY <1>8, MoveConstructKeeps
<1>9. CASE UNCHANGED vars
  <2>1. stack' = stack /\ elsewhere' = elsewhere /\ frames' = frames /\ res' = res
    BY <1>9 DEF vars
  <2>2. TypeOK' /\ FramesSound' /\ TargetsSound' /\ HandlersPlaced'
    BY <2>1 DEF IInv, TypeOK, FramesSound, TargetsSound, HandlersPlaced, Handed, Depth
  <2>3. \A o \in Objects : ResultSound(o)' = ResultSound(o)
    BY <2>1 DEF ResultSound, Handed, Top, Owns, Span, Depth
  <2>4. SpansApart'
    BY <2>1 DEF IInv, SpansApart, Owns, Span
  <2>5. ValuesOwned'
    BY <2>1 DEF IInv, ValuesOwned, Owns, Span
  <2>6. NothingTaken'
    BY <2>1 DEF IInv, NothingTaken, Extent, Depth
  <2> QED BY <2>1, <2>2, <2>3, <2>4, <2>5, <2>6 DEF IInv, ResultsSound
<1> QED BY <1>1, <1>2, <1>3, <1>4, <1>5, <1>6, <1>7, <1>8, <1>9 DEF Next

-----------------------------------------------------------------------------
(* What users rely on.  A result moved over one that owns values makes the *)
(* stack grow, but no result names another call's values and no handler    *)
(* moves.  Each of the other unusual uses breaks more: a copied result     *)
(* removes values twice, a typed call that fails pops values it was not    *)
(* given, an exception thrown through Lua's C frames leaves the callee's   *)
(* values, a handler of another thread lies on the wrong stack, and a      *)
(* result destroyed out of order shifts or pops the values of others.      *)

\* What holds of every state of the stack: frames over their handlers and
\* functions, each value of a call owned by one result object, each handler by
\* one call in progress (basic_protected_function, protected_handler,
\* protected_function_result, unsafe_function_result), in a program that keeps
\* to the documented uses and destroys its results from the top down.
THEOREM InvariantHolds ==
    ASSUME Uses \subseteq {"assign_over"} PROVE Spec => []IInv
<1>1. Init => IInv
  BY InitIInv
<1>2. IInv /\ [Next]_vars => IInv'
  BY NextKeeps
<1> QED BY <1>1, <1>2, PTL DEF Spec

\* A result object names the values of its own call however many calls and
\* moves came after it, also when results are moved over others, and wherever an
\* error unwound to: in a program that destroys its results from the top down,
\* as the documentation asks.  Destroyed in another order, results take the
\* values of others.
THEOREM ResultsStayWithTheirCalls ==
    ASSUME Uses \subseteq {"assign_over"} PROVE Spec => []ResultsNameTheirValues
<1>1. IInv => ResultsNameTheirValues
  BY OwnerFacts DEF ResultsNameTheirValues
<1> QED BY <1>1, InvariantHolds, PTL

\* Every call, returned from or unwound by an error, and every destructor run
\* in the documented order gives the stack back but for what live results own, and takes nothing the C++
\* functions of any frame pushed.
THEOREM CallsGiveTheStackBack ==
    ASSUME Uses = {} PROVE Spec => []StackBalanced
<1>1. Uses \subseteq {"assign_over"} /\ "assign_over" \notin Uses
  OBVIOUS
<1>2. Spec => []IInv
  BY <1>1, InvariantHolds
<1>3. IInv => StackBalanced
  <2> SUFFICES ASSUME IInv PROVE StackBalanced
    OBVIOUS
  <2>1. ASSUME NEW i \in 1 .. Len(stack), stack[i] = H PROVE i \in HandlerSlots
    <3>1. PICK f \in 2 .. Depth : frames[f].call.handler = "here" /\ i = frames[f].base - 1
      BY <2>1 DEF IInv, HandlersPlaced
    <3>2. frames[f].base \in Nat /\ frames[f - 1].base \in Nat
      BY CalledFrom
    <3>3. frames[f].call.stackindex = frames[f].base - 1 - frames[f - 1].base
      BY <3>1 DEF IInv, FramesSound
    <3>4. i = frames[f - 1].base + frames[f].call.stackindex
      BY <3>1, <3>2, <3>3
    <3> QED BY <3>1, <3>4 DEF HandlerSlots
  <2>2. Len(elsewhere) = Cardinality({f \in 2 .. Depth : frames[f].call.handler = "elsewhere"})
    <3>1. {f \in 2 .. Depth : frames[f].call.handler = "elsewhere"} = {}
      BY DEF IInv, FramesSound
    <3>2. Len(elsewhere) = 0
      BY DEF IInv
    <3> QED BY <3>1, <3>2, FS_EmptySet
  <2>3. NothingLeaked
    BY <2>1, <2>2, <1>1 DEF NothingLeaked, IInv, ValuesOwned
  <2> QED BY <2>3 DEF StackBalanced, IInv
<1> QED BY <1>2, <1>3, PTL

\* The index lua_pcall is given names the handler for as long as the call lasts.
THEOREM HandlersStayInPlace ==
    ASSUME Uses \subseteq {"assign_over"} PROVE Spec => []HandlersAreCalled
<1>1. IInv => HandlersAreCalled
  <2> SUFFICES ASSUME IInv, NEW f \in 2 .. Depth, frames[f].call.handler # "none"
               PROVE  LET at == frames[f - 1].base + frames[f].call.stackindex
                      IN  at \in 1 .. Len(stack) /\ stack[at] = H
    BY DEF HandlersAreCalled
  <2>1. /\ frames[f].call.handler = "here" /\ Handed(f) = 1
        /\ frames[f].base \in Nat /\ frames[f - 1].base \in Nat
        /\ frames[f - 1].base + Handed(f) < frames[f].base
        /\ frames[f].base <= Len(stack) /\ Len(stack) \in Nat
        /\ stack[frames[f].base - 1] = H
    BY CalledFrom DEF Handed
  <2>2. frames[f].call.stackindex = frames[f].base - 1 - frames[f - 1].base
    BY <2>1 DEF IInv, FramesSound
  <2>3. /\ frames[f - 1].base + frames[f].call.stackindex = frames[f].base - 1
        /\ frames[f].base - 1 \in 1 .. Len(stack)
    BY <2>1, <2>2, SMTT(30)
  <2> QED BY <2>1, <2>3
<1> QED BY <1>1, InvariantHolds, PTL
================================================================================

------------------------- MODULE BoundCallsProof -------------------------
(***************************************************************************)
(* What the modules of calls from Lua promise: Callables for any overloads, *)
(* parameters and arguments, Trampolines for any number of calls and       *)
(* handlers.                                                               *)
(***************************************************************************)
EXTENDS Callables, Trampolines, SequenceTheorems, FiniteSetTheorems,
        WellFoundedInduction, TLAPS

-----------------------------------------------------------------------------
(* What is defined by recursion on numbers.                                *)

LEMMA LeastOne ==
    ASSUME NEW S, S \subseteq Nat, S # {}
    PROVE  \E i \in S : \A j \in S : i <= j
<1> DEFINE R == {p \in Nat \X Nat : p[1] < p[2]}
<1>1. IsWellFoundedOn(OpToRel(<, Nat), Nat)
  BY NatLessThanWellFounded
<1>2. OpToRel(<, Nat) = R
  BY DEF OpToRel
<1>3. IsWellFoundedOn(R, Nat)
  BY <1>1, <1>2
<1> HIDE DEF R
<1>4. PICK i \in S : \A j \in S : ~ (<<j, i>> \in R)
  BY <1>3, WFMin
<1>5. \A j \in S : i <= j
  <2> SUFFICES ASSUME NEW j \in S PROVE i <= j
    OBVIOUS
  <2>1. ~ (<<j, i>> \in R) /\ j \in Nat /\ i \in Nat
    BY <1>4
  <2>2. <<j, i>> \in Nat \X Nat /\ <<j, i>>[1] = j /\ <<j, i>>[2] = i
    BY <2>1
  <2>3. ~ (j < i)
    BY <2>1, <2>2 DEF R
  <2> QED BY <2>1, <2>3
<1> QED BY <1>5

\* The first m values of a recursion.
FirstValues(m, A, base, step) ==
    {h \in [0 .. m -> A] : h[0] = base /\ \A n \in 1 .. m : h[n] = step[<<h[n - 1], n>>]}

LEMMA OneValueMore ==
    ASSUME NEW N \in Nat, NEW A, NEW base \in A, NEW step \in [A \X Nat -> A],
           NEW m \in 0 .. N, m # 0, NEW h \in FirstValues(m - 1, A, base, step)
    PROVE  FirstValues(m, A, base, step) # {}
<1> DEFINE g == [i \in 0 .. m |-> IF i = m THEN step[<<h[m - 1], m>>] ELSE h[i]]
<1>1. /\ h \in [0 .. m - 1 -> A] /\ h[0] = base
      /\ \A n \in 1 .. m - 1 : h[n] = step[<<h[n - 1], n>>]
  BY DEF FirstValues
<1>2. /\ m \in 1 .. N /\ m - 1 \in 0 .. m - 1
      /\ \A i \in 0 .. m : i # m => i \in 0 .. m - 1
      /\ \A i \in 1 .. m : i # m => i \in 1 .. m - 1
      /\ \A i \in 1 .. m : i - 1 \in 0 .. m /\ i - 1 \in 0 .. m - 1 /\ i \in 0 .. m
      /\ 0 \in 0 .. m /\ 0 # m
  OBVIOUS
<1>3. step[<<h[m - 1], m>>] \in A
  <2>1. h[m - 1] \in A
    BY <1>1, <1>2
  <2>2. <<h[m - 1], m>> \in A \X Nat
    BY <1>2, <2>1
  <2> QED BY <2>2
<1>4. g \in [0 .. m -> A]
  BY <1>1, <1>2, <1>3
<1>5. g[0] = base
  BY <1>1, <1>2
<1>6. ASSUME NEW n \in 1 .. m PROVE g[n] = step[<<g[n - 1], n>>]
  <2>1. n - 1 \in 0 .. m /\ n - 1 \in 0 .. m - 1 /\ n - 1 # m /\ n \in 0 .. m
    BY <1>2
  <2>2. g[n - 1] = h[n - 1]
    BY <2>1
  <2>3. CASE n = m
    BY <2>1, <2>2, <2>3
  <2>4. CASE n # m
    <3>1. n \in 1 .. m - 1
      BY <1>2, <2>4
    <3>2. g[n] = h[n]
      BY <2>1, <2>4
    <3> QED BY <1>1, <2>2, <3>1, <3>2
  <2> QED BY <2>3, <2>4
<1> HIDE DEF g
<1>7. g \in FirstValues(m, A, base, step)
  BY <1>4, <1>5, <1>6 DEF FirstValues
<1> QED BY <1>7

LEMMA RecursionExists ==
    ASSUME NEW N \in Nat, NEW A, NEW base \in A, NEW step \in [A \X Nat -> A]
    PROVE  FirstValues(N, A, base, step) # {}
<1> DEFINE Bad == {m \in 0 .. N : FirstValues(m, A, base, step) = {}}
<1>1. ASSUME Bad # {} PROVE FALSE
  <2>1. Bad \subseteq Nat
    OBVIOUS
  <2> HIDE DEF Bad
  <2>2. PICK m \in Bad : \A j \in Bad : m <= j
    BY <1>1, <2>1, LeastOne
  <2>3. m \in 0 .. N /\ FirstValues(m, A, base, step) = {}
    BY <2>2 DEF Bad
  <2>4. m # 0
    <3>1. SUFFICES ASSUME m = 0 PROVE FALSE
      OBVIOUS
    <3>2. [i \in 0 .. 0 |-> base] \in FirstValues(0, A, base, step)
      BY DEF FirstValues
    <3> QED BY <2>3, <3>1, <3>2
  <2>5. m - 1 \in 0 .. N /\ ~(m <= m - 1)
    BY <2>3, <2>4
  <2>6. m - 1 \notin Bad
    BY <2>2, <2>5
  <2>7. PICK h : h \in FirstValues(m - 1, A, base, step)
    BY <2>5, <2>6 DEF Bad
  <2> QED BY <2>3, <2>4, <2>7, OneValueMore
<1>2. N \in 0 .. N
  OBVIOUS
<1> QED BY <1>1, <1>2

-----------------------------------------------------------------------------
(* What functions take and what is counted.                                *)

LEMMA SizeType ==
    ASSUME NEW p
    PROVE  lua_size(p) \in Nat /\ (p \in Transparent => lua_size(p) = 0)
BY DEF lua_size, Twins, Transparent

LEMMA SizesFacts ==
    ASSUME NEW f, Len(f) \in Nat
    PROVE  /\ Sizes(f) \in [0 .. Len(f) -> Nat] /\ Sizes(f)[0] = 0
           /\ \A n \in 1 .. Len(f) : Sizes(f)[n] = Sizes(f)[n - 1] + lua_size(f[n])
<1> DEFINE N == Len(f)
           step == [x \in Nat \X Nat |-> x[1] + lua_size(f[x[2]])]
           sum == CHOOSE s : s = [n \in 0 .. N |-> IF n = 0 THEN 0 ELSE s[n - 1] + lua_size(f[n])]
<1>1. step \in [Nat \X Nat -> Nat]
  BY SizeType
<1>2. \A a, n \in Nat : step[<<a, n>>] = a + lua_size(f[n])
  OBVIOUS
<1> HIDE DEF step
<1>3. N \in Nat /\ 0 \in Nat
  OBVIOUS
<1> HIDE DEF N
<1>4. PICK h \in [0 .. N -> Nat] : h[0] = 0 /\ \A n \in 1 .. N : h[n] = step[<<h[n - 1], n>>]
  <2>1. FirstValues(N, Nat, 0, step) # {}
    BY <1>1, <1>3, RecursionExists
  <2> QED BY <2>1 DEF FirstValues
<1>5. ASSUME NEW n \in 0 .. N
      PROVE  h[n] = IF n = 0 THEN 0 ELSE h[n - 1] + lua_size(f[n])
  <2>1. CASE n = 0
    BY <1>4, <2>1
  <2>2. CASE n # 0
    <3>1. n \in 1 .. N /\ n - 1 \in 0 .. N /\ n \in Nat
      BY <1>3, <2>2
    <3>2. h[n - 1] \in Nat
      BY <3>1
    <3> QED BY <1>2, <1>4, <2>2, <3>1, <3>2
  <2> QED BY <2>1, <2>2
<1>6. h = [n \in 0 .. N |-> IF n = 0 THEN 0 ELSE h[n - 1] + lua_size(f[n])]
  BY <1>5
<1>7. sum = [n \in 0 .. N |-> IF n = 0 THEN 0 ELSE sum[n - 1] + lua_size(f[n])]
  BY <1>6
<1>8. Sizes(f) = sum
  BY DEF Sizes, N
<1> HIDE DEF sum
<1>9. sum[0] = 0 /\ \A n \in 1 .. N : sum[n] = sum[n - 1] + lua_size(f[n])
  <2>1. 0 \in 0 .. N /\ \A n \in 1 .. N : n \in 0 .. N /\ n # 0
    BY <1>3
  <2> QED BY <1>7, <2>1
<1>10. \A n \in 0 .. N : sum[n] \in Nat
  <2> DEFINE Bad == {n \in 0 .. N : sum[n] \notin Nat}
  <2>1. ASSUME Bad # {} PROVE FALSE
    <3>1. Bad \subseteq Nat
      BY <1>3
    <3> HIDE DEF Bad
    <3>2. PICK n \in Bad : \A j \in Bad : n <= j
      BY <2>1, <3>1, LeastOne
    <3>3. n \in 0 .. N /\ sum[n] \notin Nat
      BY <3>2 DEF Bad
    <3>4. n # 0
      BY <1>9, <3>3
    <3>5. n - 1 \in 0 .. N /\ n \in 1 .. N /\ ~(n <= n - 1)
      BY <1>3, <3>3, <3>4
    <3>6. sum[n - 1] \in Nat
      BY <3>2, <3>5 DEF Bad
    <3>7. sum[n] = sum[n - 1] + lua_size(f[n])
      BY <1>9, <3>5
    <3> QED BY <3>3, <3>6, <3>7, SizeType
  <2> QED BY <2>1
<1>11. sum \in [0 .. N -> Nat]
  <2>1. DOMAIN sum = 0 .. N
    BY <1>7
  <2> QED BY <1>7, <1>10, <2>1
<1> QED BY <1>8, <1>9, <1>11 DEF N

\* The records of the checkers.
Counts == [ok : BOOLEAN, used : Nat]

LEMMA CheckerType ==
    ASSUME NEW p, NEW i, NEW u \in Nat
    PROVE  Checker(p, i, u) \in Counts
<1>1. u + (IF At(i) = "none" THEN 0 ELSE 1) \in Nat /\ u + 2 \in Nat /\ u + 1 \in Nat
  OBVIOUS
<1>2. CASE p \in Transparent
  BY <1>2 DEF Checker, Counts
<1>3. CASE p \in Optionals /\ p \notin Transparent
  BY <1>1, <1>3 DEF Checker, Counts
<1>4. CASE p \in Twins /\ p \notin Transparent /\ p \notin Optionals
  BY <1>1, <1>4 DEF Checker, Counts
<1>5. CASE p \notin Twins /\ p \notin Transparent /\ p \notin Optionals
  BY <1>1, <1>5 DEF Checker, Counts
<1> QED BY <1>2, <1>3, <1>4, <1>5

\* What the checkers count after one more parameter.
CheckedNext(f, start, c, n) ==
    IF c.ok THEN Checker(f[n], start + c.used, c.used) ELSE c

LEMMA CheckedFacts ==
    ASSUME NEW f, Len(f) \in Nat, NEW start
    PROVE  /\ Checked(f, start) \in [0 .. Len(f) -> Counts]
           /\ Checked(f, start)[0] = [ok |-> TRUE, used |-> 0]
           /\ \A n \in 1 .. Len(f) :
                 Checked(f, start)[n] = CheckedNext(f, start, Checked(f, start)[n - 1], n)
<1> DEFINE N == Len(f)
           base == [ok |-> TRUE, used |-> 0]
           step == [x \in Counts \X Nat |-> CheckedNext(f, start, x[1], x[2])]
           Body(s) == [n \in 0 .. N |-> IF n = 0 THEN base ELSE CheckedNext(f, start, s[n - 1], n)]
           chosen == CHOOSE s : s = Body(s)
<1>0. ASSUME NEW c \in Counts, NEW n PROVE CheckedNext(f, start, c, n) \in Counts
  <2>1. c.ok \in BOOLEAN /\ c.used \in Nat
    BY DEF Counts
  <2>2. Checker(f[n], start + c.used, c.used) \in Counts
    BY <2>1, CheckerType
  <2> QED BY <2>2 DEF CheckedNext
<1>1. step \in [Counts \X Nat -> Counts]
  BY <1>0
<1>2. \A c \in Counts, n \in Nat : step[<<c, n>>] = CheckedNext(f, start, c, n)
  OBVIOUS
<1>3. N \in Nat /\ base \in Counts
  BY DEF Counts
<1>8. Checked(f, start) = chosen
  BY DEF Checked, CheckedNext
<1> HIDE DEF step, N, base, chosen
<1>4. PICK h \in [0 .. N -> Counts] :
         h[0] = base /\ \A n \in 1 .. N : h[n] = step[<<h[n - 1], n>>]
  <2>1. FirstValues(N, Counts, base, step) # {}
    BY <1>1, <1>3, RecursionExists
  <2> QED BY <2>1 DEF FirstValues
<1>5. ASSUME NEW n \in 0 .. N
      PROVE  h[n] = IF n = 0 THEN base ELSE CheckedNext(f, start, h[n - 1], n)
  <2>1. CASE n = 0
    BY <1>4, <2>1
  <2>2. CASE n # 0
    <3>1. n \in 1 .. N /\ n - 1 \in 0 .. N /\ n \in Nat
      BY <1>3, <2>2
    <3>2. h[n - 1] \in Counts
      BY <3>1
    <3> QED BY <1>2, <1>4, <2>2, <3>1, <3>2
  <2> QED BY <2>1, <2>2
<1>6. h = Body(h)
  BY <1>5
<1>7. chosen = Body(chosen)
  BY <1>6 DEF chosen
<1>9. DOMAIN chosen = 0 .. N /\ \A n \in 0 .. N : chosen[n] = IF n = 0 THEN base ELSE CheckedNext(f, start, chosen[n - 1], n)
  BY <1>7
<1>10. chosen[0] = base /\ \A n \in 1 .. N : chosen[n] = CheckedNext(f, start, chosen[n - 1], n)
  <2>1. 0 \in 0 .. N /\ \A n \in 1 .. N : n \in 0 .. N /\ n # 0
    BY <1>3
  <2> QED BY <1>9, <2>1
<1>11. \A n \in 0 .. N : chosen[n] \in Counts
  <2> DEFINE Bad == {n \in 0 .. N : chosen[n] \notin Counts}
  <2>1. ASSUME Bad # {} PROVE FALSE
    <3>1. Bad \subseteq Nat
      BY <1>3
    <3> HIDE DEF Bad
    <3>2. PICK n \in Bad : \A j \in Bad : n <= j
      BY <2>1, <3>1, LeastOne
    <3>3. n \in 0 .. N /\ chosen[n] \notin Counts
      BY <3>2 DEF Bad
    <3>4. n # 0
      BY <1>3, <1>10, <3>3
    <3>5. n - 1 \in 0 .. N /\ n \in 1 .. N /\ ~(n <= n - 1)
      BY <1>3, <3>3, <3>4
    <3>6. chosen[n - 1] \in Counts
      BY <3>2, <3>5 DEF Bad
    <3>7. chosen[n] = CheckedNext(f, start, chosen[n - 1], n)
      BY <1>10, <3>5
    <3> QED BY <1>0, <3>3, <3>6, <3>7
  <2> QED BY <2>1
<1>12. chosen \in [0 .. N -> Counts]
  BY <1>7, <1>9, <1>11
<1> QED BY <1>8, <1>10, <1>12 DEF N, base

-----------------------------------------------------------------------------
(* The checkers of a function pass when its parameters take the arguments. *)

\* Steps of one lead from 0 everywhere.
LEMMA StepByStep ==
    ASSUME NEW N \in Nat, NEW S, 0 \in S,
           \A n \in Nat : n < N /\ n \in S => n + 1 \in S
    PROVE  \A n \in Nat : n <= N => n \in S
<1> DEFINE Bad == {n \in Nat : n <= N /\ n \notin S}
<1>1. ASSUME Bad # {} PROVE FALSE
  <2>1. Bad \subseteq Nat
    OBVIOUS
  <2> HIDE DEF Bad
  <2>2. PICK n \in Bad : \A j \in Bad : n <= j
    BY <1>1, <2>1, LeastOne
  <2>3. n \in Nat /\ n <= N /\ n \notin S
    BY <2>2 DEF Bad
  <2>4. n # 0
    BY <2>3
  <2>5. n - 1 \in Nat /\ n - 1 < N /\ ~(n <= n - 1) /\ (n - 1) + 1 = n /\ n - 1 <= N
    BY <2>3, <2>4
  <2>6. n - 1 \in S
    BY <2>2, <2>5 DEF Bad
  <2>7. (n - 1) + 1 \in S
    BY <2>5, <2>6
  <2> QED BY <2>3, <2>5, <2>7
<1> QED BY <1>1

\* Two counts lead to the same argument, or both to none.
Level(u, s) == u = s \/ (u >= Len(args) /\ s >= Len(args))

\* The arguments are where the checkers start.
Faced(start) == \A i \in Nat : At(start + i) = Arg(i + 1)

LEMMA ArgFacts ==
    ASSUME args \in Seq(ArgTypes), NEW s \in Nat
    PROVE  /\ Arg(s + 1) \in ArgTypes \cup {"none"}
           /\ Arg(s + 1) = "none" <=> s >= Len(args)
<1>1. Len(args) \in Nat /\ DOMAIN args = 1 .. Len(args) /\ \A i \in 1 .. Len(args) : args[i] \in ArgTypes
  OBVIOUS
<1>2. "none" \notin ArgTypes
  BY DEF ArgTypes
<1>3. s + 1 \in 1 .. Len(args) <=> ~(s >= Len(args))
  BY <1>1
<1> QED BY <1>1, <1>2, <1>3 DEF Arg

LEMMA LevelArg ==
    ASSUME args \in Seq(ArgTypes), NEW u \in Nat, NEW s \in Nat, Level(u, s)
    PROVE  Arg(u + 1) = Arg(s + 1) /\ (Arg(s + 1) # "none" => u = s)
BY ArgFacts DEF Level

\* Level counts, and a pair or a tuple at the first argument: what the
\* checker says is right, and the counts stay level.
LEMMA CheckerSound ==
    ASSUME args \in Seq(ArgTypes), NEW start \in Nat, Faced(start),
           NEW f, NEW k, f[k] \in Params, NEW u \in Nat, NEW s \in Nat,
           Level(u, s), f[k] \in Twins => u = 0 /\ s = 0,
           Position(f, k) = s + 1
    PROVE  LET c == Checker(f[k], start + u, u)
           IN  /\ c.ok <=> Takes(f, k)
               /\ c.ok => Level(c.used, s + lua_size(f[k]))
               /\ f[k] \in Transparent => c.used = u /\ lua_size(f[k]) = 0
<1> DEFINE p == f[k]
           c == Checker(p, start + u, u)
<1>1. At(start + u) = Arg(u + 1) /\ Arg(u + 1) = Arg(s + 1) /\ (Arg(s + 1) # "none" => u = s)
  BY LevelArg DEF Faced
<1>2. Arg(s + 1) = "none" <=> s >= Len(args)
  BY ArgFacts
<1>3. Len(args) \in Nat
  OBVIOUS
<1>4. Transparent \cap Optionals = {} /\ Transparent \cap Twins = {} /\ Optionals \cap Twins = {}
  BY DEF Transparent, Optionals, Twins
<1>5. CASE p \in Transparent
  <2>1. c = [ok |-> TRUE, used |-> u]
    BY <1>4, <1>5 DEF Checker
  <2>2. Takes(f, k)
    BY <1>4, <1>5 DEF Takes
  <2>3. lua_size(p) = 0
    BY <1>4, <1>5 DEF lua_size
  <2> QED BY <2>1, <2>2, <2>3
<1>6. CASE p \in Optionals
  <2>0. c = [ok |-> At(start + u) \in {"none", "nil", Underlying(p)},
             used |-> u + (IF At(start + u) = "none" THEN 0 ELSE 1)]
    BY <1>4, <1>6 DEF Checker
  <2> HIDE DEF c, p
  <2>9. c.used = u + (IF At(start + u) = "none" THEN 0 ELSE 1)
    BY <2>0
  <2>10. c.ok <=> At(start + u) \in {"none", "nil", Underlying(p)}
    BY <2>0
  <2>1. /\ c.ok <=> At(start + u) \in {"none", "nil", Underlying(p)}
        /\ At(start + u) = "none" => c.used = u
        /\ At(start + u) # "none" => c.used = u + 1
    BY <2>9, <2>10
  <2> USE DEF c, p
  <2>2. Takes(f, k) <=> Arg(s + 1) \in {"none", "nil", Underlying(p)}
    BY <1>4, <1>6 DEF Takes
  <2>3. lua_size(p) = 1
    BY <1>4, <1>6 DEF lua_size
  <2>4. CASE Arg(s + 1) = "none"
    <3>1. s >= Len(args) /\ c.used = u
      BY <1>1, <1>2, <2>1, <2>4
    <3>2. u >= Len(args)
      BY <3>1 DEF Level
    <3>3. Level(u, s + 1)
      BY <1>3, <3>1, <3>2 DEF Level
    <3> QED BY <1>1, <1>4, <1>6, <2>1, <2>2, <2>3, <3>1, <3>3
  <2>5. CASE Arg(s + 1) # "none"
    <3>1. u = s /\ c.used = s + 1
      BY <1>1, <2>1, <2>5
    <3>2. Level(s + 1, s + 1)
      BY DEF Level
    <3> QED BY <1>1, <1>4, <1>6, <2>1, <2>2, <2>3, <3>1, <3>2
  <2> QED BY <2>4, <2>5
<1>7. CASE p \in Twins
  <2>0. u = 0 /\ s = 0
    BY <1>7
  <2>1. /\ c.ok <=> At(start + u + u) = "num" /\ At(start + u + u + 1) = "str"
        /\ c.used = u + 2
    BY <1>4, <1>7 DEF Checker
  <2>2. start + u + u = start + 0 /\ start + u + u + 1 = start + 1 /\ u + 2 = 2
    BY <2>0
  <2>3. c.ok <=> At(start + 0) = "num" /\ At(start + 1) = "str"
    BY <2>1, <2>2
  <2>4. At(start + 0) = Arg(0 + 1) /\ At(start + 1) = Arg(1 + 1)
    BY DEF Faced
  <2>5. Takes(f, k) <=> Arg(s + 1) = "num" /\ Arg(s + 1 + 1) = "str"
    BY <1>4, <1>7 DEF Takes
  <2>6. s + 1 = 0 + 1 /\ s + 1 + 1 = 1 + 1
    BY <2>0
  <2>7. Takes(f, k) <=> Arg(0 + 1) = "num" /\ Arg(1 + 1) = "str"
    BY <2>5, <2>6
  <2>8. lua_size(p) = 2
    BY <1>7 DEF lua_size
  <2>9. Level(c.used, s + lua_size(p))
    BY <2>0, <2>1, <2>8 DEF Level
  <2> QED BY <1>4, <1>7, <2>3, <2>4, <2>7, <2>9
<1>8. CASE p \notin Transparent \cup Optionals \cup Twins
  <2>1. c.ok <=> At(start + u) = Underlying(p)
    BY <1>8 DEF Checker
  <2>2. c.used = u + 1
    BY <1>8 DEF Checker
  <2>3. Takes(f, k) <=> Arg(s + 1) = Underlying(p)
    BY <1>8 DEF Takes
  <2>4. lua_size(p) = 1
    BY <1>8 DEF lua_size
  <2>5. Underlying(p) # "none"
    BY DEF Underlying
  <2>6. ASSUME c.ok PROVE Level(c.used, s + lua_size(p))
    <3>1. u = s
      BY <1>1, <2>1, <2>5, <2>6
    <3> QED BY <2>2, <2>4, <3>1 DEF Level
  <2> QED BY <1>1, <1>8, <2>1, <2>3, <2>6
<1> QED BY <1>5, <1>6, <1>7, <1>8

\* What is true of the count after n parameters.
CountSound(f, start, n) ==
    /\ Checked(f, start)[n].ok <=> \A j \in 1 .. n : Takes(f, j)
    /\ Checked(f, start)[n].ok => Level(Checked(f, start)[n].used, Sizes(f)[n])
    /\ (\A j \in 1 .. n : f[j] \in Transparent) =>
          Checked(f, start)[n].used = 0 /\ Sizes(f)[n] = 0

\* One more parameter, whose predecessors make it no exception.
LEMMA CountStep ==
    ASSUME args \in Seq(ArgTypes), NEW start \in Nat, Faced(start),
           NEW f \in Seq(Params), Usual(f), "displaced" \notin CallUses,
           NEW n \in Nat, n < Len(f), CountSound(f, start, n)
    PROVE  CountSound(f, start, n + 1)
<1> DEFINE m == n + 1
           u == Checked(f, start)[n].used
           s == Sizes(f)[n]
           c == Checker(f[m], start + u, u)
<1>1. /\ Len(f) \in Nat /\ DOMAIN f = 1 .. Len(f) /\ n \in 0 .. Len(f)
      /\ m \in 1 .. Len(f) /\ m - 1 = n /\ m \in DOMAIN f /\ f[m] \in Params /\ m \in Nat
  OBVIOUS
<1>2. \A j : j \in 1 .. m <=> j \in 1 .. n \/ j = m
  OBVIOUS
<1> HIDE DEF m
<1>3. /\ Checked(f, start)[n] \in Counts
      /\ Checked(f, start)[m] = CheckedNext(f, start, Checked(f, start)[n], m)
  BY <1>1, CheckedFacts
<1>4. u \in Nat /\ Checked(f, start)[n].ok \in BOOLEAN
  BY <1>3 DEF Counts
<1>5. s \in Nat /\ Sizes(f)[m] = s + lua_size(f[m])
  BY <1>1, SizesFacts
<1>6. Position(f, m) = s + 1
  BY <1>1, <1>5 DEF Position
<1>7. ASSUME f[m] \in Twins PROVE \A j \in 1 .. n : f[j] \in Transparent
  <2> SUFFICES ASSUME NEW j \in 1 .. n PROVE f[j] \in Transparent
    OBVIOUS
  <2>1. j \in DOMAIN f /\ j < m
    BY <1>1
  <2> QED BY <1>1, <1>7, <2>1 DEF Usual
<1>8. f[m] \in Twins => u = 0 /\ s = 0
  BY <1>7 DEF CountSound
<1>9. CASE ~ Checked(f, start)[n].ok
  <2>1. Checked(f, start)[m] = Checked(f, start)[n]
    BY <1>3, <1>9 DEF CheckedNext
  <2>2. ~ \A j \in 1 .. m : Takes(f, j)
    BY <1>2, <1>9 DEF CountSound
  <2>3. ~ \A j \in 1 .. n : f[j] \in Transparent
    <3>1. \A j \in 1 .. n : f[j] \in Transparent => Takes(f, j)
      BY DEF Takes, Transparent, Optionals, Twins
    <3> QED BY <1>9, <3>1 DEF CountSound
  <2>4. ~ \A j \in 1 .. m : f[j] \in Transparent
    BY <1>2, <2>3
  <2> QED BY <1>9, <2>1, <2>2, <2>4 DEF CountSound, m
<1>10. CASE Checked(f, start)[n].ok
  <2>1. Checked(f, start)[m] = c
    BY <1>3, <1>10 DEF CheckedNext
  <2>2. Level(u, s)
    BY <1>10 DEF CountSound
  <2> HIDE DEF u, s
  <2>3. /\ c.ok <=> Takes(f, m)
        /\ c.ok => Level(c.used, s + lua_size(f[m]))
        /\ f[m] \in Transparent => c.used = u /\ lua_size(f[m]) = 0
    BY <1>1, <1>4, <1>5, <1>6, <1>8, <2>2, CheckerSound
  <2> HIDE DEF c
  <2>4. c.ok <=> \A j \in 1 .. m : Takes(f, j)
    BY <1>2, <1>10, <2>3 DEF CountSound
  <2>5. ASSUME \A j \in 1 .. m : f[j] \in Transparent
        PROVE  c.used = 0 /\ Sizes(f)[m] = 0
    <3>1. u = 0 /\ s = 0
      BY <1>2, <2>5 DEF CountSound, u, s
    <3>2. f[m] \in Transparent
      BY <1>2, <2>5
    <3> QED BY <1>5, <2>3, <3>1, <3>2
  <2>6. CountSound(f, start, m)
    BY <1>5, <2>1, <2>3, <2>4, <2>5 DEF CountSound
  <2> QED BY <2>6 DEF m
<1> QED BY <1>9, <1>10

LEMMA CountsSound ==
    ASSUME args \in Seq(ArgTypes), NEW start \in Nat, Faced(start),
           NEW f \in Seq(Params), Usual(f), "displaced" \notin CallUses
    PROVE  CountSound(f, start, Len(f))
<1> DEFINE S == {n \in Nat : CountSound(f, start, n)}
<1>1. Len(f) \in Nat
  OBVIOUS
<1>2. 0 \in S
  <2>1. Checked(f, start)[0] = [ok |-> TRUE, used |-> 0] /\ Sizes(f)[0] = 0
    BY <1>1, CheckedFacts, SizesFacts
  <2>2. 1 .. 0 = {}
    OBVIOUS
  <2> QED BY <2>1, <2>2 DEF CountSound, Level
<1>3. ASSUME NEW n \in Nat, n < Len(f), n \in S PROVE n + 1 \in S
  BY <1>3, CountStep
<1>4. \A n \in Nat : n < Len(f) /\ n \in S => n + 1 \in S
  BY <1>3
<1> HIDE DEF S
<1>5. \A n \in Nat : n <= Len(f) => n \in S
  BY <1>1, <1>2, <1>4, StepByStep
<1> QED BY <1>1, <1>5 DEF S

\* The checkers of a function let pass the arguments its parameters take.
LEMMA CheckSound ==
    ASSUME args \in Seq(ArgTypes), NEW start \in Nat,
           NEW f \in Seq(Params), Faced(start) \/ f = <<>>, Usual(f), "displaced" \notin CallUses
    PROVE  check_types(f, start) <=> \A k \in DOMAIN f : Takes(f, k)
<1>1. DOMAIN f = 1 .. Len(f) /\ Len(f) \in Nat
  OBVIOUS
<1>2. CASE Faced(start)
  <2>1. CountSound(f, start, Len(f))
    BY <1>2, CountsSound
  <2> QED BY <1>1, <2>1 DEF CountSound, check_types
<1>3. CASE f = <<>>
  <2>1. Len(f) = 0 /\ DOMAIN f = {}
    BY <1>3
  <2>2. Checked(f, start)[0] = [ok |-> TRUE, used |-> 0]
    BY <1>1, CheckedFacts
  <2> QED BY <2>1, <2>2 DEF check_types
<1> QED BY <1>2, <1>3

-----------------------------------------------------------------------------
(* The first overload that fits is called.                                 *)

\* The functions that take the arguments, those of the right size, and those
\* that are both where the size counts.
Taking == {j \in DOMAIN overloads : \A k \in DOMAIN overloads[j] : Takes(overloads[j], k)}
Sized == {j \in DOMAIN overloads : Fixed(overloads[j]) => free_arity(overloads[j]) = Len(args)}
Fitting == {j \in DOMAIN overloads : Fits(overloads[j])}

CallTyped ==
    /\ overloads \in OverloadSets /\ Bound(form, overloads)
    /\ args \in ArgLists
    /\ fx \in Nat /\ fx >= 1

\* The stack when the overloads are tried, and when the checks are repeated.
Arrived == Before(form, syntax) \o args
Prepared == IF form = "initializer" THEN <<"userdata">> \o Arrived ELSE Arrived

MatchInv ==
    /\ phase \in {"match", "verify", "fetch", "push", "returned", "error"}
    /\ Len(args) \notin misfits
    /\ \A j \in 1 .. fx - 1 : j \notin Fitting
    /\ form = "plain" => fx = 1 /\ phase # "match"
    /\ phase = "match" => stack = Arrived /\ fx <= Len(overloads) + 1
    /\ phase = "verify" =>
          /\ stack = Prepared /\ fx \in DOMAIN overloads
          /\ form # "plain" => fx \in Sized /\ (Len(overloads) # 1 => fx \in Taking)
    /\ phase \in {"fetch", "push", "returned"} => fx \in Fitting
    /\ phase = "error" => Fitting = {}

Checking == CallUses \cap {"displaced", "bare", "unchecked"} = {}

LEMMA CallSame ==
    ASSUME UNCHANGED call
    PROVE  /\ Taking' = Taking /\ Sized' = Sized /\ Fitting' = Fitting
           /\ Arrived' = Arrived /\ Prepared' = Prepared
           /\ form' = form /\ overloads' = overloads /\ args' = args /\ syntax' = syntax
<1>1. form' = form /\ overloads' = overloads /\ args' = args /\ syntax' = syntax
  BY DEF call
<1>2. \A f, k : Takes(f, k)' <=> Takes(f, k)
  BY <1>1 DEF Takes, Arg
<1>3. \A f : Fits(f)' <=> Fits(f)
  BY <1>1, <1>2 DEF Fits
<1>4. Taking' = Taking
  BY <1>1, <1>2 DEF Taking
<1>5. Sized' = Sized
  BY <1>1 DEF Sized
<1>6. Fitting' = Fitting
  BY <1>1, <1>3 DEF Fitting
<1>7. Arrived' = Arrived
  BY <1>1 DEF Arrived
<1>8. Prepared' = Prepared
  BY <1>1, <1>7 DEF Prepared
<1> QED BY <1>1, <1>4, <1>5, <1>6, <1>7, <1>8

LEMMA FittingFacts ==
    /\ Fitting = {j \in Taking : form # "plain" => j \in Sized}
    /\ Fitting \subseteq DOMAIN overloads
BY DEF Fitting, Taking, Sized, Fits

\* What the assumption says of a call.
LEMMA CallFacts ==
    ASSUME CallTyped
    PROVE  /\ args \in Seq(ArgTypes) /\ overloads \in Seq(Seq(Params))
           /\ Len(args) \in Nat /\ Len(overloads) \in Nat /\ Len(overloads) >= 1
           /\ DOMAIN overloads = 1 .. Len(overloads)
           /\ \A j \in DOMAIN overloads : overloads[j] \in Seq(Params) /\ Usual(overloads[j])
           /\ checkstart \in Nat /\ callstart \in Nat
<1>1. args \in Seq(ArgTypes) /\ overloads \in Seq(Seq(Params)) /\ overloads # <<>>
  BY CallablesAssumption DEF CallTyped
<1>2. Len(overloads) \in Nat /\ Len(overloads) >= 1 /\ DOMAIN overloads = 1 .. Len(overloads)
  <2>1. Len(overloads) \in Nat /\ (Len(overloads) = 0 => overloads = <<>>)
    BY <1>1
  <2> QED BY <1>1, <2>1
<1>3. \A j \in DOMAIN overloads : overloads[j] \in Seq(Params) /\ Usual(overloads[j])
  BY <1>1 DEF CallTyped, Bound
<1>4. syntaxval \in Nat
  BY DEF syntaxval
<1>5. checkstart \in Nat
  BY <1>4 DEF checkstart
<1>6. callstart \in Nat
  BY <1>5 DEF callstart
<1> QED BY <1>1, <1>2, <1>3, <1>5, <1>6

LEMMA BeforeFacts ==
    /\ Before(form, syntax) \in Seq({"userdata", "class"})
    /\ Len(Before(form, syntax)) = (IF form \in {"constructor", "bare"} THEN 1 ELSE 0) + syntaxval
<1> DEFINE a == IF form \in {"constructor", "bare"} THEN <<"userdata">> ELSE <<>>
           b == IF syntax = "colon" THEN <<"class">> ELSE <<>>
<1>1. /\ a \in Seq({"userdata", "class"})
      /\ Len(a) = IF form \in {"constructor", "bare"} THEN 1 ELSE 0
  <2>1. CASE form \in {"constructor", "bare"}
    BY <2>1
  <2>2. CASE form \notin {"constructor", "bare"}
    BY <2>2
  <2> QED BY <2>1, <2>2
<1>2. b \in Seq({"userdata", "class"}) /\ Len(b) = syntaxval
  <2>1. CASE syntax = "colon"
    BY <2>1 DEF syntaxval
  <2>2. CASE syntax # "colon"
    BY <2>2 DEF syntaxval
  <2> QED BY <2>1, <2>2
<1>3. Before(form, syntax) = a \o b
  BY DEF Before
<1> HIDE DEF a, b
<1>4. a \o b \in Seq({"userdata", "class"}) /\ Len(a \o b) = Len(a) + Len(b)
  <2>1. a \in Seq({"userdata", "class"}) /\ b \in Seq({"userdata", "class"})
    BY <1>1, <1>2
  <2> QED BY <2>1, ConcatProperties
<1> QED BY <1>1, <1>2, <1>3, <1>4

\* After b other slots come the arguments.
LEMMA Followed ==
    ASSUME NEW b, Len(b) \in Nat, b \in Seq({"userdata", "class"}),
           args \in Seq(ArgTypes), stack = b \o args
    PROVE  Faced(Len(b) + 1)
<1>1. stack \in Seq({"userdata", "class"} \cup ArgTypes) /\ Len(stack) = Len(b) + Len(args) /\ Len(args) \in Nat
  <2>1. b \in Seq({"userdata", "class"} \cup ArgTypes) /\ args \in Seq({"userdata", "class"} \cup ArgTypes)
    OBVIOUS
  <2> QED BY <2>1
<1>2. DOMAIN stack = 1 .. Len(stack) /\ DOMAIN args = 1 .. Len(args)
  BY <1>1
<1> SUFFICES ASSUME NEW i \in Nat PROVE At(Len(b) + 1 + i) = Arg(i + 1)
  BY DEF Faced
<1>3. CASE i < Len(args)
  <2>1. /\ Len(b) + 1 + i \in 1 .. Len(b) + Len(args) /\ Len(b) + 1 + i > Len(b)
        /\ Len(b) + 1 + i - Len(b) = i + 1 /\ i + 1 \in 1 .. Len(args)
    BY <1>1, <1>3
  <2>2. stack[Len(b) + 1 + i] = args[i + 1]
    BY <2>1
  <2> QED BY <1>1, <1>2, <2>1, <2>2 DEF At, Arg
<1>4. CASE ~(i < Len(args))
  <2>1. Len(b) + 1 + i \notin 1 .. Len(stack) /\ i + 1 \notin 1 .. Len(args)
    BY <1>1, <1>4
  <2> QED BY <1>2, <2>1 DEF At, Arg
<1> QED BY <1>3, <1>4

LEMMA ArrivedFaced ==
    ASSUME CallTyped, stack = Arrived, form # "bare"
    PROVE  Faced(checkstart)
<1>1. args \in Seq(ArgTypes)
  BY CallFacts
<1>2. Len(Before(form, syntax)) + 1 = checkstart
  <2>1. Len(Before(form, syntax)) = (IF form = "constructor" THEN 1 ELSE 0) + syntaxval
    BY BeforeFacts
  <2>2. syntaxval \in Nat
    BY DEF syntaxval
  <2> QED BY <2>1, <2>2 DEF checkstart
<1>3. Before(form, syntax) \in Seq({"userdata", "class"}) /\ Len(Before(form, syntax)) \in Nat
  BY BeforeFacts
<1> QED BY <1>1, <1>2, <1>3, Followed DEF Arrived

LEMMA PreparedFaced ==
    ASSUME CallTyped, stack = Prepared, form # "bare"
    PROVE  Faced(callstart)
<1>1. CASE form # "initializer"
  BY <1>1, ArrivedFaced DEF Prepared, callstart
<1>2. CASE form = "initializer"
  <2> DEFINE b == <<"userdata">> \o Before(form, syntax)
  <2>1. args \in Seq(ArgTypes)
    BY CallFacts
  <2>2. Before(form, syntax) \in Seq({"userdata", "class"}) /\ Len(Before(form, syntax)) = syntaxval
    BY <1>2, BeforeFacts DEF syntaxval
  <2>3. syntaxval \in Nat
    BY DEF syntaxval
  <2>4. b \in Seq({"userdata", "class"}) /\ Len(b) = syntaxval + 1
    BY <2>2, <2>3
  <2>5. stack = b \o args
    BY <1>2, <2>1, <2>2 DEF Prepared, Arrived
  <2>6. Len(b) + 1 = callstart
    BY <1>2, <2>3, <2>4 DEF callstart, checkstart
  <2>7. Len(b) \in Nat
    BY <2>4
  <2> HIDE DEF b
  <2>8. Faced(Len(b) + 1)
    BY <2>1, <2>4, <2>5, <2>7, Followed
  <2> QED BY <2>6, <2>8
<1> QED BY <1>1, <1>2

\* With bare constructors there is nothing to check.
LEMMA FunctionChecked ==
    ASSUME CallTyped, Checking, NEW start \in Nat,
           form # "bare" => Faced(start), fx \in DOMAIN overloads
    PROVE  check_types(Function, start) <=> fx \in Taking
<1>1. args \in Seq(ArgTypes) /\ Function \in Seq(Params) /\ Usual(Function)
  BY CallFacts DEF Function
<1>2. "displaced" \notin CallUses /\ "bare" \notin CallUses
  BY DEF Checking
<1>3. form = "bare" => Function = <<>>
  BY <1>2 DEF CallTyped, Bound, Function
<1> DEFINE f == Function
<1>4. f \in Seq(Params) /\ Usual(f) /\ (Faced(start) \/ f = <<>>)
  BY <1>1, <1>3
<1>5. (\A k \in DOMAIN f : Takes(f, k)) <=> fx \in Taking
  BY DEF Taking, Function
<1> HIDE DEF f
<1>6. check_types(f, start) <=> \A k \in DOMAIN f : Takes(f, k)
  BY <1>1, <1>2, <1>4, CheckSound
<1> QED BY <1>5, <1>6 DEF f

LEMMA MatchInit ==
    ASSUME CallInit
    PROVE  CallTyped /\ MatchInv
<1>1. CallTyped
  BY DEF CallInit, CallTyped
<1>2. Len(overloads) \in Nat /\ Len(overloads) >= 1 /\ DOMAIN overloads = 1 .. Len(overloads)
  BY <1>1, CallFacts
<1>3. 1 .. fx - 1 = {} /\ fx = 1
  BY DEF CallInit
<1>4. stack = Arrived /\ (form = "plain" => stack = Prepared) /\ misfits = {}
  BY DEF CallInit, Arrived, Prepared
<1>5. phase = (IF form = "plain" THEN "verify" ELSE "match")
  BY DEF CallInit
<1>6. 1 \in DOMAIN overloads /\ 1 <= Len(overloads) + 1
  BY <1>2
<1>7. CASE form = "plain"
  <2>1. phase = "verify"
    BY <1>5, <1>7
  <2> QED BY <1>1, <1>3, <1>4, <1>6, <1>7, <2>1 DEF MatchInv
<1>8. CASE form # "plain"
  <2>1. phase = "match"
    BY <1>5, <1>8
  <2> QED BY <1>1, <1>3, <1>4, <1>6, <1>8, <2>1 DEF MatchInv
<1> QED BY <1>7, <1>8

\* A function that is passed over does not fit, and no size that would do
\* is remembered as a misfit.
LEMMA MatchSkip ==
    ASSUME CallTyped, MatchInv, NEW m, Len(args) \notin m, Skip(m), Matching, fx \notin Fitting
    PROVE  CallTyped' /\ MatchInv'
<1>1. /\ fx' = fx + 1 /\ misfits' = m /\ UNCHANGED <<call, stack, phase>>
      /\ phase = "match" /\ fx <= Len(overloads)
  BY DEF Skip, Matching, HasFunction
<1>2. /\ Fitting' = Fitting /\ Arrived' = Arrived
      /\ form' = form /\ overloads' = overloads /\ args' = args
  BY <1>1, CallSame
<1>3. fx \in Nat /\ fx >= 1
  BY DEF CallTyped
<1>4. CallTyped'
  BY <1>1, <1>2, <1>3 DEF CallTyped
<1>5. \A j \in 1 .. fx' - 1 : j \notin Fitting
  <2>1. \A j \in 1 .. fx' - 1 : j \in 1 .. fx - 1 \/ j = fx
    BY <1>1, <1>3
  <2> QED BY <2>1 DEF MatchInv
<1>6. fx' <= Len(overloads') + 1
  BY <1>1, <1>2, <1>3, CallFacts
<1>7. form # "plain" /\ stack = Arrived
  BY <1>1 DEF MatchInv
<1> QED BY <1>1, <1>2, <1>4, <1>5, <1>6, <1>7 DEF MatchInv

LEMMA MatchStep ==
    ASSUME CallTyped, MatchInv, Checking, CallNext
    PROVE  CallTyped' /\ MatchInv'
<1>1. /\ fx \in Nat /\ fx >= 1 /\ Len(args) \in Nat
      /\ DOMAIN overloads = 1 .. Len(overloads) /\ Len(overloads) \in Nat
      /\ checkstart \in Nat /\ callstart \in Nat
  BY CallFacts DEF CallTyped
<1>2. /\ Fitting = {j \in Taking : form # "plain" => j \in Sized}
      /\ Fitting \subseteq DOMAIN overloads
  BY FittingFacts
<1>3. ASSUME HasFunction PROVE fx \in DOMAIN overloads
  BY <1>1, <1>3 DEF HasFunction
<1>4. ASSUME Matching
      PROVE  /\ fx \in DOMAIN overloads /\ form # "plain" /\ stack = Arrived
             /\ check_types(Function, checkstart) <=> fx \in Taking
             /\ fx \in Sized <=> (Fixed(Function) => free_arity(Function) = Len(args))
  <2>1. fx \in DOMAIN overloads /\ form # "plain" /\ stack = Arrived
    BY <1>3, <1>4 DEF Matching, MatchInv
  <2>2. form # "bare" => Faced(checkstart)
    BY <2>1, ArrivedFaced
  <2>3. check_types(Function, checkstart) <=> fx \in Taking
    BY <1>1, <2>1, <2>2, FunctionChecked
  <2> QED BY <2>1, <2>3 DEF Sized, Function
<1>5. CASE SkipKnown
  <2>1. Matching /\ Fixed(Function) /\ free_arity(Function) \in misfits /\ Skip(misfits)
    BY <1>5 DEF SkipKnown
  <2>2. Len(args) \notin misfits
    BY DEF MatchInv
  <2>3. fx \notin Fitting
    BY <1>2, <1>4, <2>1, <2>2
  <2> QED BY <2>1, <2>2, <2>3, MatchSkip
<1>6. CASE SkipArity
  <2>1. /\ Matching /\ Fixed(Function) /\ free_arity(Function) # Len(args)
        /\ Skip(misfits \cup {free_arity(Function)})
    BY <1>6 DEF SkipArity, fxarity
  <2>2. Len(args) \notin misfits \cup {free_arity(Function)}
    BY <2>1 DEF MatchInv
  <2>3. fx \notin Fitting
    BY <1>2, <1>4, <2>1
  <2> DEFINE m == misfits \cup {free_arity(Function)}
  <2>4. Skip(m) /\ Len(args) \notin m
    BY <2>1, <2>2
  <2> HIDE DEF m
  <2> QED BY <2>1, <2>3, <2>4, MatchSkip
<1>7. CASE SkipTypes
  <2>1. Matching /\ ~Suits /\ Skip(misfits)
    BY <1>7 DEF SkipTypes
  <2>2. Len(args) \notin misfits
    BY DEF MatchInv
  <2>3. fx \notin Fitting
    BY <1>2, <1>4, <2>1 DEF Suits
  <2> QED BY <2>1, <2>2, <2>3, MatchSkip
<1>8. CASE Match
  <2>1. /\ Matching /\ RightNumber /\ Suits /\ phase' = "verify"
        /\ stack' = (IF form = "initializer" THEN <<"userdata">> \o stack ELSE stack)
        /\ UNCHANGED <<call, fx, misfits>>
    BY <1>8 DEF Match
  <2>2. /\ Fitting' = Fitting /\ Sized' = Sized /\ Taking' = Taking /\ Prepared' = Prepared
        /\ form' = form /\ overloads' = overloads /\ args' = args
    BY <2>1, CallSame
  <2>3. stack' = Prepared
    BY <1>4, <2>1 DEF Prepared
  <2>4. fx \in Sized
    BY <1>4, <2>1 DEF RightNumber, fxarity
  <2>5. Len(overloads) # 1 => fx \in Taking
    BY <1>4, <2>1 DEF Suits
  <2>6. CallTyped'
    BY <2>1, <2>2 DEF CallTyped
  <2> QED BY <1>4, <2>1, <2>2, <2>3, <2>4, <2>5, <2>6 DEF MatchInv
<1>9. CASE NoMatch
  <2>1. phase = "match" /\ ~HasFunction /\ phase' = "error" /\ UNCHANGED <<call, stack, fx, misfits>>
    BY <1>9 DEF NoMatch
  <2>2. /\ Fitting' = Fitting
        /\ form' = form /\ overloads' = overloads /\ args' = args
    BY <2>1, CallSame
  <2>3. Fitting = {}
    <3>1. \A j \in DOMAIN overloads : j \in 1 .. fx - 1
      BY <1>1, <2>1 DEF HasFunction
    <3> QED BY <1>2, <3>1 DEF MatchInv
  <2>4. CallTyped'
    BY <2>1, <2>2 DEF CallTyped
  <2> QED BY <2>1, <2>2, <2>3, <2>4 DEF MatchInv
<1>10. CASE Verify
  <2>1. /\ phase = "verify" /\ UNCHANGED <<call, stack, fx, misfits>>
        /\ phase' = (IF "unchecked" \in CallUses \/ check_types(Function, callstart)
                     THEN "fetch" ELSE "error")
    BY <1>10 DEF Verify
  <2>2. /\ Fitting' = Fitting
        /\ form' = form /\ overloads' = overloads /\ args' = args
    BY <2>1, CallSame
  <2>3. /\ fx \in DOMAIN overloads /\ stack = Prepared
        /\ form # "plain" => fx \in Sized /\ (Len(overloads) # 1 => fx \in Taking)
    BY <2>1 DEF MatchInv
  <2>4. check_types(Function, callstart) <=> fx \in Taking
    <3>1. form # "bare" => Faced(callstart)
      BY <2>3, PreparedFaced
    <3> QED BY <1>1, <2>3, <3>1, FunctionChecked
  <2>5. phase' = IF fx \in Taking THEN "fetch" ELSE "error"
    BY <2>1, <2>4 DEF Checking
  <2>6. CallTyped'
    BY <2>1, <2>2 DEF CallTyped
  <2>7. CASE fx \in Taking
    <3>1. fx \in Fitting /\ phase' = "fetch"
      BY <1>2, <2>3, <2>5, <2>7
    <3> QED BY <2>1, <2>2, <2>6, <3>1 DEF MatchInv
  <2>8. CASE fx \notin Taking
    <3>1. phase' = "error" /\ fx \notin Fitting
      BY <1>2, <2>5, <2>8
    <3>2. Len(overloads) = 1
      BY <2>3, <2>8 DEF CallTyped, Bound
    <3>3. DOMAIN overloads = {fx}
      BY <1>1, <2>3, <3>2
    <3>4. Fitting = {}
      BY <1>2, <3>1, <3>3
    <3> QED BY <2>1, <2>2, <2>6, <3>1, <3>4 DEF MatchInv
  <2> QED BY <2>7, <2>8
<1>11. ASSUME phase \in {"fetch", "push", "returned"}, phase' \in {"fetch", "push", "returned"},
              UNCHANGED <<call, fx, misfits>>
       PROVE  CallTyped' /\ MatchInv'
  <2>1. /\ Fitting' = Fitting
        /\ form' = form /\ overloads' = overloads /\ args' = args
    BY <1>11, CallSame
  <2>2. CallTyped'
    BY <1>11, <2>1 DEF CallTyped
  <2> QED BY <1>11, <2>1, <2>2 DEF MatchInv
<1>12. CASE Fetch
  <2>1. phase = "fetch" /\ phase' = phase /\ UNCHANGED <<call, fx, misfits>>
    BY <1>12 DEF Fetch
  <2> QED BY <1>11, <2>1
<1>13. CASE Run
  <2>1. phase = "fetch" /\ phase' = "push" /\ UNCHANGED <<call, fx, misfits>>
    BY <1>13 DEF Run
  <2> QED BY <1>11, <2>1
<1>14. CASE Push
  <2>1. phase = "push" /\ phase' = phase /\ UNCHANGED <<call, fx, misfits>>
    BY <1>14 DEF Push
  <2> QED BY <1>11, <2>1
<1>15. CASE ReturnResults
  <2>1. phase = "push" /\ phase' = "returned" /\ UNCHANGED <<call, fx, misfits>>
    BY <1>15 DEF ReturnResults
  <2> QED BY <1>11, <2>1
<1> QED BY <1>5, <1>6, <1>7, <1>8, <1>9, <1>10, <1>12, <1>13, <1>14, <1>15 DEF CallNext

LEMMA MatchStutter ==
    ASSUME CallTyped, MatchInv, UNCHANGED callvars
    PROVE  CallTyped' /\ MatchInv'
<1>1. UNCHANGED <<call, stack, phase, fx, misfits>>
  BY DEF callvars
<1>2. /\ Taking' = Taking /\ Sized' = Sized /\ Fitting' = Fitting
      /\ Arrived' = Arrived /\ Prepared' = Prepared
      /\ form' = form /\ overloads' = overloads /\ args' = args
  BY <1>1, CallSame
<1>3. CallTyped'
  BY <1>1, <1>2 DEF CallTyped
<1> QED BY <1>1, <1>2, <1>3 DEF MatchInv

LEMMA FirstFound ==
    ASSUME CallTyped, MatchInv
    PROVE  FirstMatchIsCalled
<1>1. CallTyped /\ DOMAIN overloads = 1 .. Len(overloads) /\ Len(overloads) \in Nat /\ fx \in Nat
  BY CallFacts DEF CallTyped
<1>2. ASSUME phase \in {"fetch", "push", "returned"}
      PROVE  Fits(Function) /\ \A j \in 1 .. fx - 1 : ~Fits(overloads[j])
  <2>1. fx \in Fitting /\ fx \in DOMAIN overloads
    BY <1>2, FittingFacts DEF MatchInv
  <2>2. Fits(Function)
    BY <2>1 DEF Fitting, Function
  <2>3. ASSUME NEW j \in 1 .. fx - 1 PROVE ~Fits(overloads[j])
    <3>1. j \in DOMAIN overloads
      BY <1>1, <2>1
    <3> QED BY <3>1 DEF MatchInv, Fitting
  <2> QED BY <2>2, <2>3
<1>3. ASSUME phase = "error" PROVE \A j \in DOMAIN overloads : ~Fits(overloads[j])
  BY <1>3 DEF MatchInv, Fitting
<1> QED BY <1>2, <1>3 DEF FirstMatchIsCalled

\* With functions whose checkers look where their arguments are, the function
\* called is the first overload that takes the arguments, and there is an error
\* only when there is none.
THEOREM FirstMatchCalled ==
    ASSUME Checking
    PROVE  CallSpec => []FirstMatchIsCalled
<1>1. CallInit => CallTyped /\ MatchInv
  BY MatchInit
<1>2. CallTyped /\ MatchInv /\ [CallNext]_callvars => (CallTyped /\ MatchInv)'
  BY MatchStep, MatchStutter
<1>3. CallTyped /\ MatchInv => FirstMatchIsCalled
  BY FirstFound
<1> QED BY <1>1, <1>2, <1>3, PTL DEF CallSpec

-----------------------------------------------------------------------------
(* Every parameter reads its own arguments.                                *)

\* The arguments are where the getters start; above them are only functions
\* that getters left.
Seated == \A i \in Nat : \/ At(callstart + i) = Arg(i + 1)
                         \/ Arg(i + 1) = "none" /\ At(callstart + i) = "function"

LEMMA PlaceCounted ==
    ASSUME form # "bare", NEW n \in Int
    PROVE  Place(n) = callstart + n - 1
<1>1. syntaxval \in Nat
  BY DEF syntaxval
<1>2. Len(Before(form, syntax)) = (IF form = "constructor" THEN 1 ELSE 0) + syntaxval
  BY BeforeFacts
<1>3. CASE form = "initializer"
  BY <1>1, <1>2, <1>3 DEF Place, callstart, checkstart
<1>4. CASE form = "constructor"
  BY <1>1, <1>2, <1>4 DEF Place, callstart, checkstart
<1>5. CASE form # "initializer" /\ form # "constructor"
  BY <1>1, <1>2, <1>5 DEF Place, callstart, checkstart
<1> QED BY <1>3, <1>4, <1>5

LEMMA PlaceType ==
    ASSUME NEW n \in Nat
    PROVE  Place(n) \in Nat
<1>1. syntaxval \in Nat
  BY DEF syntaxval
<1>2. Len(Before(form, syntax)) \in Nat
  BY <1>1, BeforeFacts
<1> QED BY <1>2 DEF Place

LEMMA OwnType ==
    ASSUME args \in Seq(ArgTypes), NEW f, NEW k, Position(f, k) \in Nat, Position(f, k) >= 1
    PROVE  Own(f, k) \in Seq(Nat)
<1> DEFINE n == Position(f, k)
           m == Len(args) - n + 1
           o == [i \in 1 .. m |-> Place(n + i - 1)]
<1>1. Len(args) \in Nat /\ n \in Nat /\ n >= 1 /\ m \in Int
  OBVIOUS
<1>2. o \in Seq(Nat)
  <2>1. \A i \in 1 .. m : n + i - 1 \in Nat
    BY <1>1
  <2>2. o \in [1 .. m -> Nat]
    BY <2>1, PlaceType
  <2> HIDE DEF o, m
  <2>3. CASE m >= 0
    BY <1>1, <2>2, <2>3
  <2>4. CASE ~(m >= 0)
    <3>1. 1 .. m = 1 .. 0
      BY <1>1, <2>4
    <3>2. o \in [1 .. 0 -> Nat] /\ 0 \in Nat
      BY <2>2, <3>1
    <3> QED BY <3>2
  <2> QED BY <2>3, <2>4
<1> HIDE DEF n
<1>3. Place(n) \in Nat /\ Place(n + 1) \in Nat
  <2>1. \A x \in Nat : Place(x) \in Nat
    BY PlaceType
  <2>2. n + 1 \in Nat
    BY <1>1
  <2> QED BY <1>1, <2>1, <2>2
<1>4. <<>> \in Seq(Nat) /\ <<Place(n), Place(n + 1)>> \in Seq(Nat) /\ <<Place(n)>> \in Seq(Nat)
  BY <1>3
<1> HIDE DEF o
<1>5. Own(f, k) \in {o, <<>>, <<Place(n), Place(n + 1)>>, <<Place(n)>>}
  <2>1. CASE f[k] = "variadic_args"
    BY <2>1 DEF Own, n, o, Optionals, Twins, Transparent
  <2>2. CASE f[k] \in Transparent \ {"variadic_args"}
    BY <2>2 DEF Own, n, o, Optionals, Twins, Transparent
  <2>3. CASE f[k] \in Optionals
    BY <2>3 DEF Own, n, o, Optionals, Twins, Transparent
  <2>4. CASE f[k] \in Twins
    BY <2>4 DEF Own, n, o, Optionals, Twins, Transparent
  <2>5. CASE f[k] \notin Transparent \cup Optionals \cup Twins
    BY <2>5 DEF Own, n, o, Optionals, Twins, Transparent
  <2> QED BY <2>1, <2>2, <2>3, <2>4, <2>5
<1> QED BY <1>2, <1>4, <1>5

\* Level counts, a pair or a tuple at the first argument, and nothing above
\* the arguments when all are read: the getter reads the parameter's own, and
\* counts level but for an optional table that it does not find.
LEMMA GetterSound ==
    ASSUME args \in Seq(ArgTypes), form # "bare", callstart \in Nat, Seated,
           NEW f, NEW k, f[k] \in Params, Takes(f, k),
           NEW u \in Nat, NEW s \in Nat, Level(u, s), Position(f, k) = s + 1,
           f[k] \in Twins => u = 0 /\ s = 0,
           f[k] = "variadic_args" => Len(stack) = callstart + Len(args) - 1
    PROVE  LET g == Getter(f[k], callstart + u, u)
           IN  /\ g.slots = Own(f, k) /\ g.used \in Nat
               /\ f[k] # "optional_table" => Level(g.used, s + lua_size(f[k]))
               /\ f[k] = "optional_table" => Level(g.used, s + 1) \/ Arg(s + 1) = "nil"
               /\ f[k] \in Transparent => g.used = u /\ lua_size(f[k]) = 0
<1> DEFINE p == f[k]
           index == callstart + u
           g == Getter(p, index, u)
<1>1. /\ At(index) = Arg(s + 1) \/ (Arg(s + 1) = "none" /\ At(index) = "function")
      /\ Arg(s + 1) # "none" => u = s
  <2>1. Arg(u + 1) = Arg(s + 1) /\ (Arg(s + 1) # "none" => u = s)
    BY LevelArg
  <2>2. \/ At(index) = Arg(u + 1)
        \/ Arg(u + 1) = "none" /\ At(index) = "function"
    BY DEF Seated
  <2> QED BY <2>1, <2>2
<1>2. Arg(s + 1) = "none" <=> s >= Len(args)
  BY ArgFacts
<1>3. Len(args) \in Nat
  OBVIOUS
<1>4. /\ Transparent \cap Optionals = {} /\ Transparent \cap Twins = {} /\ Optionals \cap Twins = {}
      /\ "variadic_args" \in Transparent /\ "pair" \in Twins /\ "tuple" \in Twins
      /\ Twins = {"pair", "tuple"} /\ "optional_table" \in Optionals /\ "pair" # "tuple"
      /\ Optionals = {"optional_int", "optional_table"}
  BY DEF Transparent, Optionals, Twins
<1>5. /\ Place(s + 1) = callstart + s /\ Place(s + 1 + 1) = callstart + s + 1
      /\ \A i \in Nat : Place(s + 1 + i - 1) = callstart + s + i - 1
  <2>1. \A n \in Int : Place(n) = callstart + n - 1
    BY PlaceCounted
  <2>2. s + 1 \in Int /\ s + 1 + 1 \in Int /\ \A i \in Nat : s + 1 + i - 1 \in Int
    OBVIOUS
  <2>3. \A i \in Nat : Place(s + 1 + i - 1) = callstart + (s + 1 + i - 1) - 1
    BY <2>1, <2>2
  <2> QED BY <2>1, <2>2, <2>3
<1>6. CASE p = "variadic_args"
  <2>1. /\ g.slots = [i \in 1 .. Len(stack) - index + 1 |-> index + i - 1]
        /\ g.used = u
    BY <1>4, <1>6 DEF Getter
  <2>2. Own(f, k) = [i \in 1 .. Len(args) - (s + 1) + 1 |-> Place(s + 1 + i - 1)]
    BY <1>4, <1>6 DEF Own
  <2>3. lua_size(p) = 0
    BY <1>4, <1>6 DEF lua_size
  <2>4. Len(stack) - index + 1 = Len(args) - u
    BY <1>3, <1>6
  <2>5. CASE u = s
    <3>1. Len(stack) - index + 1 = Len(args) - (s + 1) + 1
      BY <1>3, <2>4, <2>5
    <3>2. \A i \in 1 .. Len(args) - (s + 1) + 1 : Place(s + 1 + i - 1) = index + i - 1
      <4> SUFFICES ASSUME NEW i \in 1 .. Len(args) - (s + 1) + 1
                   PROVE  Place(s + 1 + i - 1) = index + i - 1
        OBVIOUS
      <4>1. i \in Nat
        BY <1>3
      <4>2. Place(s + 1 + i - 1) = callstart + s + i - 1
        BY <1>5, <4>1
      <4> QED BY <2>5, <4>2
    <3>3. g.slots = Own(f, k)
      BY <2>1, <2>2, <3>1, <3>2
    <3> QED BY <1>4, <1>6, <2>1, <2>3, <2>5, <3>3
  <2>6. CASE u >= Len(args) /\ s >= Len(args)
    <3>1. 1 .. Len(stack) - index + 1 = {} /\ 1 .. Len(args) - (s + 1) + 1 = {}
      BY <1>3, <2>4, <2>6
    <3>2. g.slots = Own(f, k)
      BY <2>1, <2>2, <3>1
    <3> QED BY <1>4, <1>6, <2>1, <2>3, <3>2
  <2> QED BY <2>5, <2>6 DEF Level
<1>7. CASE p \in Transparent \ {"variadic_args"}
  <2>1. g = [slots |-> <<>>, used |-> u]
    BY <1>4, <1>7 DEF Getter
  <2>2. Own(f, k) = <<>>
    BY <1>4, <1>7 DEF Own
  <2>3. lua_size(p) = 0
    BY <1>4, <1>7 DEF lua_size
  <2> QED BY <1>4, <1>7, <2>1, <2>2, <2>3
<1>8. CASE p \in Optionals
  <2>1. Arg(s + 1) \in {"none", "nil", Underlying(p)}
    BY <1>4, <1>8 DEF Takes
  <2>2. Underlying(p) # "none" /\ Underlying(p) # "nil" /\ Underlying(p) # "function"
    BY DEF Underlying
  <2>3. lua_size(p) = 1
    BY <1>4, <1>8 DEF lua_size
  <2>4. At(index) = Underlying(p) <=> Arg(s + 1) = Underlying(p)
    BY <1>1, <2>2
  <2>5. CASE Arg(s + 1) = Underlying(p)
    <3>1. g = [slots |-> <<index>>, used |-> u + 1]
      BY <1>4, <1>8, <2>4, <2>5 DEF Getter
    <3>2. Own(f, k) = <<Place(s + 1)>>
      BY <1>4, <1>8, <2>5 DEF Own
    <3>3. u = s
      BY <1>1, <2>2, <2>5
    <3>4. Level(u + 1, s + 1)
      BY <3>3 DEF Level
    <3> QED BY <1>4, <1>5, <1>8, <2>3, <3>1, <3>2, <3>3, <3>4
  <2>6. CASE Arg(s + 1) # Underlying(p)
    <3>1. g = [slots |-> <<>>, used |-> u + Absent(p, index)]
      BY <1>4, <1>8, <2>4, <2>6 DEF Getter
    <3>2. Own(f, k) = <<>>
      BY <1>4, <1>8, <2>6 DEF Own
    <3>3. Absent(p, index) \in {0, 1}
      BY DEF Absent
    <3>4. u + Absent(p, index) \in Nat
      BY <3>3
    <3>5. CASE Arg(s + 1) = "none"
      <4>1. u >= Len(args) /\ s >= Len(args)
        BY <1>2, <3>5 DEF Level
      <4>2. Level(u + Absent(p, index), s + 1)
        BY <1>3, <3>3, <4>1 DEF Level
      <4> QED BY <1>4, <1>8, <2>3, <3>1, <3>2, <3>4, <4>2
    <3>6. CASE Arg(s + 1) = "nil"
      <4>1. u = s /\ At(index) = "nil"
        BY <1>1, <3>6
      <4>2. p # "optional_table" => Absent(p, index) = 1
        BY <4>1 DEF Absent
      <4>3. p # "optional_table" => Level(u + Absent(p, index), s + 1)
        BY <4>1, <4>2 DEF Level
      <4> QED BY <1>4, <1>8, <2>3, <3>1, <3>2, <3>4, <3>6, <4>3
    <3> QED BY <2>1, <2>6, <3>5, <3>6
  <2> QED BY <2>5, <2>6
<1>9. CASE p \in Twins
  <2>1. u = 0 /\ s = 0 /\ lua_size(p) = 2
    BY <1>9 DEF lua_size
  <2>2. Own(f, k) = <<Place(s + 1), Place(s + 1 + 1)>>
    BY <1>4, <1>9 DEF Own
  <2>3. Own(f, k) = <<callstart, callstart + 1>>
    BY <1>5, <2>1, <2>2
  <2>4. CASE p = "pair"
    <3>1. g = [slots |-> <<index, index + u + 1>>, used |-> u + 2]
      BY <1>4, <2>4 DEF Getter
    <3>2. index = callstart /\ index + u + 1 = callstart + 1 /\ u + 2 = 2
      BY <2>1
    <3>3. g.slots = <<callstart, callstart + 1>> /\ g.used = 2
      BY <3>1, <3>2
    <3>4. Level(2, s + 2)
      BY <2>1 DEF Level
    <3> QED BY <1>4, <1>9, <2>1, <2>3, <3>3, <3>4
  <2>5. CASE p = "tuple"
    <3>1. g = [slots |-> <<index + u, index + u + 1>>, used |-> u + 2]
      BY <1>4, <2>5 DEF Getter
    <3>2. index + u = callstart /\ index + u + 1 = callstart + 1 /\ u + 2 = 2
      BY <2>1
    <3>3. g.slots = <<callstart, callstart + 1>> /\ g.used = 2
      BY <3>1, <3>2
    <3>4. Level(2, s + 2)
      BY <2>1 DEF Level
    <3> QED BY <1>4, <1>9, <2>1, <2>3, <3>3, <3>4
  <2> QED BY <1>4, <1>9, <2>4, <2>5
<1>10. CASE p \notin Transparent \cup Optionals \cup Twins
  <2>1. g = [slots |-> <<index>>, used |-> u + 1]
    BY <1>4, <1>10 DEF Getter
  <2>2. Own(f, k) = <<Place(s + 1)>>
    BY <1>4, <1>10 DEF Own
  <2>3. Arg(s + 1) = Underlying(p)
    BY <1>4, <1>10 DEF Takes
  <2>4. lua_size(p) = 1
    BY <1>10 DEF lua_size
  <2>5. Underlying(p) # "none"
    BY DEF Underlying
  <2>6. u = s
    BY <1>1, <2>3, <2>5
  <2>7. Level(u + 1, s + 1)
    BY <2>6 DEF Level
  <2> QED BY <1>4, <1>5, <1>10, <2>1, <2>2, <2>4, <2>6, <2>7
<1> QED BY <1>6, <1>7, <1>8, <1>9, <1>10

Contents == ArgTypes \cup {"none", "userdata", "class", "function", "value", "freed"}

\* What the parameters of the function that is called stand for.
Owned == [k \in DOMAIN Function |-> Own(Function, k)]
Count == Sizes(Function)[Len(taken)]

Reading ==
    /\ used \in Nat /\ stack \in Seq(Contents)
    /\ form # "bare" =>
          /\ Seated
          /\ (\A j \in 1 .. Len(taken) : Function[j] # "this_environment") =>
                Len(stack) = callstart + Len(args) - 1
    /\ \/ Level(used, Count)
       \/ \A j \in Len(taken) + 1 .. Len(Function) : Function[j] = "this_state"
    /\ (\A j \in 1 .. Len(taken) : Function[j] \in Transparent) => used = 0 /\ Count = 0

ReadInv ==
    /\ phase \in {"match", "verify", "error"} => taken = <<>> /\ used = 0
    /\ phase \in {"fetch", "push", "returned"} =>
          /\ taken \in Seq(Seq(Nat)) /\ Len(taken) <= Len(Function)
          /\ \A k \in 1 .. Len(taken) : taken[k] = Owned[k]
    /\ phase = "fetch" => Reading

Separate == Checking /\ CallUses \cap {"absent_table", "environment"} = {}

LEMMA ReadSame ==
    ASSUME UNCHANGED <<call, fx>>
    PROVE  /\ Function' = Function /\ Owned' = Owned /\ callstart' = callstart
           /\ form' = form /\ args' = args
<1>1. /\ form' = form /\ overloads' = overloads /\ args' = args /\ syntax' = syntax
      /\ fx' = fx
  BY DEF call
<1>2. Function' = Function
  BY <1>1 DEF Function
<1>3. callstart' = callstart
  BY <1>1 DEF callstart, checkstart, syntaxval
<1>4. \A f, k : Own(f, k)' = Own(f, k)
  BY <1>1 DEF Own, Arg, Place, Before
<1>5. Owned' = Owned
  BY <1>2, <1>4 DEF Owned
<1> QED BY <1>1, <1>2, <1>3, <1>5

LEMMA ReadingSame ==
    ASSUME Reading, UNCHANGED <<call, fx, stack, used, taken>>
    PROVE  Reading'
<1>1. /\ Function' = Function /\ callstart' = callstart /\ form' = form /\ args' = args
      /\ stack' = stack /\ used' = used /\ taken' = taken
  BY ReadSame
<1>2. Seated' <=> Seated
  BY <1>1 DEF Seated, At, Arg
<1>3. Count' = Count
  BY <1>1 DEF Count
<1>4. Level(used, Count)' <=> Level(used, Count)
  BY <1>1, <1>3 DEF Level
<1> QED BY <1>1, <1>2, <1>3, <1>4 DEF Reading

LEMMA FunctionFacts ==
    ASSUME CallTyped, MatchInv, phase \in {"fetch", "push", "returned"}
    PROVE  /\ fx \in DOMAIN overloads /\ Function \in Seq(Params) /\ Usual(Function)
           /\ Len(Function) \in Nat /\ DOMAIN Function = 1 .. Len(Function)
           /\ \A k \in 1 .. Len(Function) : Takes(Function, k)
<1>1. fx \in DOMAIN overloads /\ Fits(overloads[fx])
  BY DEF MatchInv, Fitting
<1>2. Function \in Seq(Params) /\ Usual(Function)
  BY <1>1, CallFacts DEF Function
<1>3. Len(Function) \in Nat /\ DOMAIN Function = 1 .. Len(Function)
  BY <1>2
<1>4. \A k \in 1 .. Len(Function) : Takes(Function, k)
  BY <1>1, <1>3 DEF Function, Fits
<1> QED BY <1>1, <1>2, <1>3, <1>4

LEMMA PreparedLen ==
    ASSUME CallTyped
    PROVE  /\ Prepared \in Seq(Contents)
           /\ form # "bare" => Len(Prepared) = callstart + Len(args) - 1
<1>1. args \in Seq(Contents) /\ Len(args) \in Nat
  <2>1. args \in Seq(ArgTypes)
    BY CallFacts
  <2> QED BY <2>1 DEF Contents
<1>2. /\ Before(form, syntax) \in Seq(Contents) /\ syntaxval \in Nat
      /\ Len(Before(form, syntax)) = (IF form \in {"constructor", "bare"} THEN 1 ELSE 0) + syntaxval
  <2>1. Before(form, syntax) \in Seq({"userdata", "class"})
    BY BeforeFacts
  <2>2. Before(form, syntax) \in Seq(Contents)
    BY <2>1 DEF Contents
  <2> QED BY <2>2, BeforeFacts DEF syntaxval
<1> DEFINE b == Before(form, syntax)
<1>3. Arrived \in Seq(Contents) /\ Len(Arrived) = Len(b) + Len(args)
  <2> HIDE DEF b
  <2>1. b \in Seq(Contents) /\ Arrived = b \o args
    BY <1>2 DEF b, Arrived
  <2> QED BY <1>1, <2>1, ConcatProperties
<1>4. CASE form = "initializer"
  <2>1. <<"userdata">> \in Seq(Contents) /\ Len(<<"userdata">>) = 1
    BY DEF Contents
  <2>2. Prepared = <<"userdata">> \o Arrived
    BY <1>4 DEF Prepared
  <2>3. Prepared \in Seq(Contents) /\ Len(Prepared) = 1 + Len(Arrived)
    BY <1>3, <2>1, <2>2, ConcatProperties
  <2>4. Len(b) = syntaxval
    BY <1>2, <1>4
  <2>5. callstart = syntaxval + 2
    BY <1>2, <1>4 DEF callstart, checkstart
  <2> QED BY <1>1, <1>2, <1>3, <2>3, <2>4, <2>5
<1>5. CASE form # "initializer"
  <2>1. Prepared = Arrived
    BY <1>5 DEF Prepared
  <2>2. form # "bare" => callstart = Len(b) + 1
    BY <1>2, <1>5 DEF callstart, checkstart
  <2> QED BY <1>1, <1>2, <1>3, <2>1, <2>2
<1> QED BY <1>4, <1>5

\* The getters begin with the stack the checkers saw.
LEMMA ReadingBegins ==
    ASSUME CallTyped, stack = Prepared, fx \in DOMAIN overloads, taken = <<>>, used = 0
    PROVE  Reading
<1>1. Len(taken) = 0 /\ 1 .. 0 = {}
  OBVIOUS
<1>2. Function \in Seq(Params) /\ Len(Function) \in Nat
  BY CallFacts DEF Function
<1>3. Count = 0
  BY <1>1, <1>2, SizesFacts DEF Count
<1>4. stack \in Seq(Contents) /\ (form # "bare" => Len(stack) = callstart + Len(args) - 1)
  BY PreparedLen
<1>5. form # "bare" => Seated
  BY PreparedFaced DEF Faced, Seated
<1> QED BY <1>1, <1>3, <1>4, <1>5 DEF Reading, Level

\* A parameter's getter reads what is the parameter's own and leaves the count
\* where the next one needs it.
LEMMA FetchSound ==
    ASSUME CallTyped, MatchInv, ReadInv, Separate, phase = "fetch", Len(taken) < Len(Function),
           NEW k, k = Len(taken) + 1
    PROVE  LET g == Getter(Param, callstart + used, used)
           IN  /\ g.slots = Own(Function, k) /\ g.used \in Nat
               /\ \/ Level(g.used, Sizes(Function)[k])
                  \/ \A j \in k + 1 .. Len(Function) : Function[j] = "this_state"
               /\ (\A j \in 1 .. k : Function[j] \in Transparent) =>
                      g.used = 0 /\ Sizes(Function)[k] = 0
<1> DEFINE f == Function
           n == Len(taken)
           u == used
           s == Count
           p == f[k]
           g == Getter(p, callstart + u, u)
           rest == \A j \in k + 1 .. Len(f) : f[j] = "this_state"
<1>1. /\ f \in Seq(Params) /\ Usual(f) /\ Len(f) \in Nat /\ DOMAIN f = 1 .. Len(f)
      /\ \A j \in 1 .. Len(f) : Takes(f, j)
  BY FunctionFacts
<1>2. taken \in Seq(Seq(Nat)) /\ Reading
  BY DEF ReadInv
<1>3. n \in Nat /\ k \in 1 .. Len(f) /\ k - 1 = n /\ n \in 0 .. Len(f) /\ k = n + 1 /\ k \in Nat
  BY <1>1, <1>2
<1>4. form # "bare"
  BY <1>3 DEF CallTyped, Bound, Separate, Checking, Function, MatchInv, Fitting
<1>5. args \in Seq(ArgTypes) /\ callstart \in Nat
  BY CallFacts
<1>6. /\ Param = p /\ p \in Params /\ Takes(f, k)
  BY <1>1, <1>3 DEF Param
<1>7. s \in Nat /\ s = Sizes(f)[n] /\ Sizes(f)[k] = s + lua_size(p)
  <2>1. s = Sizes(f)[n]
    BY DEF Count
  <2> HIDE DEF f, n, s
  <2>2. /\ Sizes(f) \in [0 .. Len(f) -> Nat]
        /\ Sizes(f)[k] = Sizes(f)[k - 1] + lua_size(f[k])
    BY <1>1, <1>3, SizesFacts
  <2> QED BY <1>3, <2>1, <2>2 DEF p
<1>8. Position(f, k) = s + 1
  <2> HIDE DEF f, n, s
  <2>1. Position(f, k) = 1 + s
    BY <1>3, <1>7 DEF Position
  <2> QED BY <1>7, <2>1
<1>9. /\ u \in Nat /\ Seated
      /\ (\A j \in 1 .. n : f[j] # "this_environment") => Len(stack) = callstart + Len(args) - 1
      /\ Level(u, s) \/ \A j \in n + 1 .. Len(f) : f[j] = "this_state"
      /\ (\A j \in 1 .. n : f[j] \in Transparent) => u = 0 /\ s = 0
  BY <1>2, <1>4 DEF Reading
<1>10. \A j : j \in 1 .. k <=> j \in 1 .. n \/ j = k
  BY <1>3
<1>11. \A j \in 1 .. n : j \in DOMAIN f /\ j < k
  BY <1>1, <1>3
<1>12. \A j \in k + 1 .. Len(f) : j \in DOMAIN f /\ k < j /\ j \in n + 1 .. Len(f)
  BY <1>1, <1>3
<1> HIDE DEF f, n, u, s
<1>13. CASE Level(u, s)
  <2>1. p \in Twins => u = 0 /\ s = 0
    <3>1. ASSUME p \in Twins PROVE \A j \in 1 .. n : f[j] \in Transparent
      BY <1>1, <1>3, <1>11, <3>1 DEF Usual, Separate, Checking
    <3> QED BY <1>9, <3>1
  <2>2. p = "variadic_args" => Len(stack) = callstart + Len(args) - 1
    <3>1. ASSUME p = "variadic_args" PROVE \A j \in 1 .. n : f[j] # "this_environment"
      BY <1>1, <1>3, <1>11, <3>1 DEF Usual, Separate
    <3> QED BY <1>9, <3>1
  <2>3. /\ g.slots = Own(f, k) /\ g.used \in Nat
        /\ p # "optional_table" => Level(g.used, s + lua_size(p))
        /\ p = "optional_table" => Level(g.used, s + 1) \/ Arg(s + 1) = "nil"
        /\ p \in Transparent => g.used = u /\ lua_size(p) = 0
    BY <1>4, <1>5, <1>6, <1>7, <1>8, <1>9, <1>13, <2>1, <2>2, GetterSound
  <2>4. p = "optional_table" => rest
    BY <1>1, <1>3, <1>12 DEF Usual, Separate
  <2> HIDE DEF g
  <2>5. Level(g.used, Sizes(f)[k]) \/ rest
    BY <1>7, <2>3, <2>4
  <2>6. ASSUME \A j \in 1 .. k : f[j] \in Transparent PROVE g.used = 0 /\ Sizes(f)[k] = 0
    <3>1. u = 0 /\ s = 0
      BY <1>9, <1>10, <2>6
    <3>2. f[k] \in Transparent
      BY <1>10, <2>6
    <3> QED BY <1>7, <2>3, <3>1, <3>2
  <2> QED BY <1>6, <2>3, <2>5, <2>6 DEF f, u, g
<1>14. CASE \A j \in n + 1 .. Len(f) : f[j] = "this_state"
  <2>1. p = "this_state"
    BY <1>3, <1>14
  <2>2. g = [slots |-> <<>>, used |-> u] /\ Own(f, k) = <<>> /\ lua_size(p) = 0
    BY <2>1 DEF Getter, Own, lua_size, Transparent, Optionals, Twins
  <2>3. rest
    BY <1>12, <1>14
  <2> HIDE DEF g
  <2>4. g.slots = Own(f, k) /\ g.used = u
    BY <2>2
  <2>5. ASSUME \A j \in 1 .. k : f[j] \in Transparent PROVE g.used = 0 /\ Sizes(f)[k] = 0
    <3>1. u = 0 /\ s = 0
      BY <1>9, <1>10, <2>5
    <3> QED BY <1>7, <2>2, <2>4, <3>1
  <2> QED BY <1>6, <1>9, <2>3, <2>4, <2>5 DEF f, u, g
<1> QED BY <1>9, <1>13, <1>14

LEMMA ReadInit ==
    ASSUME CallInit
    PROVE  ReadInv
BY DEF CallInit, ReadInv

LEMMA FetchStep ==
    ASSUME CallTyped, MatchInv, ReadInv, Separate, Fetch
    PROVE  ReadInv'
<1> DEFINE k == Len(taken) + 1
           g == Getter(Param, callstart + used, used)
<1>1. /\ phase = "fetch" /\ Len(taken) < Len(Function)
      /\ taken' = Append(taken, g.slots) /\ used' = g.used
      /\ stack' \in IF Param = "this_environment" THEN {stack, Append(stack, "function")}
                    ELSE {stack}
      /\ UNCHANGED <<call, phase, fx>>
  BY DEF Fetch
<1>2. /\ g.slots = Own(Function, k) /\ g.used \in Nat
      /\ \/ Level(g.used, Sizes(Function)[k])
         \/ \A j \in k + 1 .. Len(Function) : Function[j] = "this_state"
      /\ (\A j \in 1 .. k : Function[j] \in Transparent) => g.used = 0 /\ Sizes(Function)[k] = 0
  BY <1>1, FetchSound
<1>3. /\ Function' = Function /\ Owned' = Owned /\ callstart' = callstart
      /\ form' = form /\ args' = args
  BY <1>1, ReadSame
<1>4. /\ Function \in Seq(Params) /\ Len(Function) \in Nat /\ DOMAIN Function = 1 .. Len(Function)
  BY <1>1, FunctionFacts
<1>5. /\ taken \in Seq(Seq(Nat)) /\ Len(taken) \in Nat
      /\ \A j \in 1 .. Len(taken) : taken[j] = Owned[j]
      /\ Reading
  BY <1>1 DEF ReadInv
<1>6. k \in 1 .. Len(Function) /\ k \in Nat /\ k - 1 \in 0 .. Len(Function)
  BY <1>1, <1>4, <1>5
<1> HIDE DEF g
<1>7. g.slots \in Seq(Nat)
  <2>1. args \in Seq(ArgTypes)
    BY CallFacts
  <2> HIDE DEF k
  <2>2. Sizes(Function) \in [0 .. Len(Function) -> Nat]
    BY <1>4, SizesFacts
  <2>3. Position(Function, k) \in Nat /\ Position(Function, k) >= 1
    BY <1>6, <2>2 DEF Position
  <2>4. Own(Function, k) \in Seq(Nat)
    BY <2>1, <2>3, OwnType
  <2> QED BY <1>2, <2>4
<1>8. /\ taken' \in Seq(Seq(Nat)) /\ Len(taken') = k /\ taken'[k] = g.slots
      /\ \A j \in 1 .. Len(taken) : taken'[j] = taken[j]
  BY <1>1, <1>5, <1>7
<1>9. Owned[k] = Own(Function, k)
  BY <1>4, <1>6 DEF Owned
<1>10. \A j \in 1 .. k : j \in 1 .. Len(taken) \/ j = k
  BY <1>5
<1>11. /\ Len(taken') <= Len(Function')
       /\ \A j \in 1 .. Len(taken') : taken'[j] = Owned'[j]
  <2> HIDE DEF k
  <2>1. taken'[k] = Owned[k]
    BY <1>2, <1>8, <1>9
  <2>2. \A j \in 1 .. Len(taken) : taken'[j] = Owned[j]
    BY <1>5, <1>8
  <2>3. k <= Len(Function)
    BY <1>4, <1>6
  <2> QED BY <1>3, <1>8, <1>10, <2>1, <2>2, <2>3
<1>12. used' \in Nat /\ stack' \in Seq(Contents)
  <2>1. stack \in Seq(Contents) /\ "function" \in Contents
    BY <1>5 DEF Reading, Contents
  <2>2. stack' = stack \/ stack' = Append(stack, "function")
    BY <1>1
  <2> QED BY <1>1, <1>2, <2>1, <2>2, SMTT(40)
<1>13. ASSUME form # "bare" PROVE Seated'
  <2>1. /\ stack \in Seq(Contents) /\ Len(stack) \in Nat /\ DOMAIN stack = 1 .. Len(stack)
        /\ Seated /\ callstart \in Nat
    BY <1>5, <1>13, CallFacts DEF Reading
  <2>2. CASE stack' = stack
    BY <1>3, <2>1, <2>2 DEF Seated, At, Arg
  <2>3. CASE stack' = Append(stack, "function")
    <3>1. DOMAIN stack' = 1 .. Len(stack) + 1 /\ stack'[Len(stack) + 1] = "function"
      BY <2>1, <2>3
    <3>2. \A i \in 1 .. Len(stack) : stack'[i] = stack[i]
      BY <2>1, <2>3
    <3>3. ASSUME NEW i \in Nat
          PROVE  \/ At(callstart + i)' = Arg(i + 1)'
                 \/ Arg(i + 1)' = "none" /\ At(callstart + i)' = "function"
      <4>1. Arg(i + 1)' = Arg(i + 1)
        BY <1>3 DEF Arg
      <4>2. \/ At(callstart + i) = Arg(i + 1)
            \/ Arg(i + 1) = "none" /\ At(callstart + i) = "function"
        BY <2>1 DEF Seated
      <4>3. CASE callstart + i # Len(stack) + 1
        <5>1. callstart + i \in 1 .. Len(stack) <=> callstart + i \in 1 .. Len(stack) + 1
          BY <2>1, <4>3
        <5>2. At(callstart + i)' = At(callstart + i)
          BY <1>3, <2>1, <3>1, <3>2, <5>1 DEF At
        <5> QED BY <4>1, <4>2, <5>2
      <4>4. CASE callstart + i = Len(stack) + 1
        <5>1. callstart + i \notin 1 .. Len(stack) /\ callstart + i \in 1 .. Len(stack) + 1
          BY <2>1, <4>4
        <5>2. At(callstart + i) = "none" /\ At(callstart + i)' = "function"
          BY <1>3, <2>1, <3>1, <4>4, <5>1 DEF At
        <5> QED BY <4>1, <4>2, <5>2
      <4> QED BY <4>3, <4>4
    <3> QED BY <3>3 DEF Seated
  <2> QED BY <1>1, <2>2, <2>3
<1>14. ASSUME form # "bare", \A j \in 1 .. k : Function[j] # "this_environment"
       PROVE  Len(stack') = callstart + Len(args) - 1
  <2>1. Param # "this_environment"
    BY <1>6, <1>14 DEF Param
  <2>2. stack' = stack
    BY <1>1, <2>1
  <2>3. \A j \in 1 .. Len(taken) : j \in 1 .. k
    BY <1>5
  <2> QED BY <1>5, <1>14, <2>2, <2>3 DEF Reading
<1>15. Count' = Sizes(Function)[k]
  BY <1>3, <1>8 DEF Count
<1>16. Level(used, Count)' <=> Level(g.used, Sizes(Function)[k])
  BY <1>1, <1>3, <1>15 DEF Level
<1> HIDE DEF k
<1>17. Reading'
  BY <1>1, <1>2, <1>3, <1>8, <1>12, <1>13, <1>14, <1>15, <1>16 DEF Reading
<1> QED BY <1>1, <1>8, <1>11, <1>17 DEF ReadInv

LEMMA ReadStep ==
    ASSUME CallTyped, MatchInv, ReadInv, Separate, CallNext
    PROVE  ReadInv'
<1>1. ASSUME phase \in {"match", "verify"}, phase' \in {"match", "verify", "error"},
             UNCHANGED <<used, taken>>
      PROVE  ReadInv'
  BY <1>1 DEF ReadInv
<1>2. ASSUME NEW m, Skip(m), phase = "match" PROVE ReadInv'
  BY <1>1, <1>2 DEF Skip, fetching
<1>3. CASE SkipKnown \/ SkipArity \/ SkipTypes
  BY <1>2, <1>3 DEF SkipKnown, SkipArity, SkipTypes, Matching
<1>4. CASE Match
  BY <1>1, <1>4 DEF Match, Matching, fetching
<1>5. CASE NoMatch
  BY <1>1, <1>5 DEF NoMatch, fetching
<1>6. CASE Verify
  <2>1. /\ phase = "verify" /\ phase' \in {"fetch", "error"}
        /\ UNCHANGED <<call, stack, fx, used, taken>>
    BY <1>6 DEF Verify, fetching
  <2>2. CASE phase' = "error"
    BY <1>1, <2>1, <2>2
  <2>3. CASE phase' = "fetch"
    <3>1. stack = Prepared /\ fx \in DOMAIN overloads /\ taken = <<>> /\ used = 0
      BY <2>1 DEF MatchInv, ReadInv
    <3>2. Reading
      BY <3>1, ReadingBegins
    <3>3. Reading'
      BY <2>1, <3>2, ReadingSame
    <3>4. Function' = Function /\ Len(Function) \in Nat
      BY <2>1, <3>1, ReadSame, CallFacts DEF Function
    <3>5. /\ taken' = <<>> /\ taken' \in Seq(Seq(Nat)) /\ Len(taken') = 0 /\ 1 .. 0 = {}
      BY <2>1, <3>1
    <3> QED BY <2>3, <3>3, <3>4, <3>5 DEF ReadInv
  <2> QED BY <2>1, <2>2, <2>3
<1>7. CASE Fetch
  BY <1>7, FetchStep
<1>8. ASSUME phase \in {"fetch", "push"}, phase' \in {"push", "returned"}, UNCHANGED <<call, fx, taken>>
      PROVE  ReadInv'
  <2>1. Function' = Function /\ Owned' = Owned
    BY <1>8, ReadSame
  <2> QED BY <1>8, <2>1 DEF ReadInv
<1>9. CASE Run
  BY <1>8, <1>9 DEF Run
<1>10. CASE Push
  BY <1>8, <1>10 DEF Push
<1>11. CASE ReturnResults
  BY <1>8, <1>11 DEF ReturnResults, fetching
<1> QED BY <1>3, <1>4, <1>5, <1>6, <1>7, <1>9, <1>10, <1>11 DEF CallNext

LEMMA ReadStutter ==
    ASSUME ReadInv, UNCHANGED callvars
    PROVE  ReadInv'
<1>1. UNCHANGED <<call, fx, stack, used, taken, phase>>
  BY DEF callvars
<1>2. Function' = Function /\ Owned' = Owned
  BY <1>1, ReadSame
<1>3. phase = "fetch" => Reading'
  BY <1>1, ReadingSame DEF ReadInv
<1> QED BY <1>1, <1>2, <1>3 DEF ReadInv

LEMMA OwnRead ==
    ASSUME CallTyped, MatchInv, ReadInv
    PROVE  ArgumentsAreTheirOwn
<1> SUFFICES ASSUME NEW k \in DOMAIN taken
             PROVE  Takes(Function, k) /\ taken[k] = Own(Function, k)
  BY DEF ArgumentsAreTheirOwn
<1>1. phase \in {"fetch", "push", "returned"}
  <2>1. phase \in {"match", "verify", "error"} => DOMAIN taken = {}
    BY DEF ReadInv
  <2> QED BY <2>1 DEF MatchInv
<1>2. /\ Len(Function) \in Nat /\ DOMAIN Function = 1 .. Len(Function)
      /\ \A j \in 1 .. Len(Function) : Takes(Function, j)
  BY <1>1, FunctionFacts
<1>3. /\ taken \in Seq(Seq(Nat)) /\ Len(taken) <= Len(Function)
      /\ \A j \in 1 .. Len(taken) : taken[j] = Owned[j]
  BY <1>1 DEF ReadInv
<1>4. k \in 1 .. Len(taken) /\ k \in 1 .. Len(Function)
  BY <1>2, <1>3
<1> QED BY <1>2, <1>3, <1>4 DEF Owned

\* With functions that have no optional table before another parameter and no
\* this_environment before variadic_args either, every parameter is read from
\* the arguments that are its own.
THEOREM ArgumentsRead ==
    ASSUME Separate
    PROVE  CallSpec => []ArgumentsAreTheirOwn
<1>1. CallInit => CallTyped /\ MatchInv /\ ReadInv
  BY MatchInit, ReadInit
<1>2. CallTyped /\ MatchInv /\ ReadInv /\ [CallNext]_callvars => (CallTyped /\ MatchInv /\ ReadInv)'
  BY MatchStep, MatchStutter, ReadStep, ReadStutter DEF Separate
<1>3. CallTyped /\ MatchInv /\ ReadInv => ArgumentsAreTheirOwn
  BY OwnRead
<1> QED BY <1>1, <1>2, <1>3, PTL DEF CallSpec

-----------------------------------------------------------------------------
(* What is pushed is what the function returned.                           *)

\* What the results are for the script.
Right(r) == CASE r[1] = "slot" -> Arg(r[2] - Place(0))
              [] r[1] = "view" -> "str"
              [] OTHER -> "value"
Rights == [i \in DOMAIN results |-> Right(results[i])]

\* Results that are not pushed yet can still be: values, the first of them
\* while the arguments live, or slots below what was pushed.
Ready(i) ==
    \/ results[i] = Value
    \/ i = 1 /\ results[i][1] = "view" /\ (pushed = 0 => living = TRUE)
    \/ /\ results[i][1] = "slot" /\ results[i][2] \in 1 .. Len(stack) - pushed
       /\ stack[results[i][2]] = Rights[i]

PushSound ==
    /\ stack \in Seq(Contents)
    /\ Len(results) \in Nat /\ DOMAIN results = 1 .. Len(results)
    /\ pushed \in Nat /\ pushed <= Len(results) /\ pushed <= Len(stack)
    /\ \A i \in 1 .. pushed : stack[Len(stack) - pushed + i] = Rights[i]
    /\ \A i \in 1 .. Len(results) : Ready(i)
    /\ phase = "returned" => pushed = Len(results)

PushInv ==
    /\ phase \in {"match", "verify", "fetch"} => living = TRUE /\ pushed = 0
    /\ phase \in {"push", "returned"} /\ ~Constructing => PushSound

Steady == Separate /\ "views" \notin CallUses

LEMMA RightsSame ==
    ASSUME UNCHANGED <<call, results>>
    PROVE  Rights' = Rights
<1>1. /\ form' = form /\ args' = args /\ syntax' = syntax /\ results' = results
  BY DEF call
<1>2. \A r : Right(r)' = Right(r)
  BY <1>1 DEF Right, Arg, Place, Before
<1> QED BY <1>1, <1>2 DEF Rights

LEMMA PushInit ==
    ASSUME CallInit
    PROVE  PushInv
BY DEF CallInit, PushInv

\* The function returned values, or one string among its arguments.
LEMMA RunValues ==
    ASSUME Steady, PushInv, phase = "fetch", phase' = "push", UNCHANGED <<call, living, pushed>>,
           results' \in Results, stack' = <<>>
    PROVE  PushSound'
<1>1. PICK n \in 0 .. MaxResults : results' \in [1 .. n -> {Value} \cup {View(i) : i \in Strings}]
  BY DEF Results
<1>2. n \in Nat
  BY CallablesAssumption
<1>3. Len(results') = n /\ DOMAIN results' = 1 .. n
  BY <1>1, <1>2
<1>4. \A i \in 1 .. n : i > 1 => results'[i] = Value
  BY <1>3 DEF Results, Steady
<1>5. living' = TRUE /\ pushed' = 0
  BY DEF PushInv
<1>6. ASSUME NEW i \in 1 .. n PROVE results'[i] = Value \/ (i = 1 /\ results'[i][1] = "view")
  <2>1. i = 1 \/ i > 1
    BY <1>2
  <2>2. results'[i] = Value \/ \E j \in Strings : results'[i] = View(j)
    BY <1>1
  <2>3. \A j : View(j)[1] = "view"
    BY DEF View
  <2> QED BY <1>4, <2>1, <2>2, <2>3
<1>7. ASSUME NEW i \in 1 .. n PROVE Ready(i)'
  BY <1>5, <1>6, <1>7 DEF Ready, Value
<1>8. stack' \in Seq(Contents) /\ Len(stack') = 0 /\ 1 .. 0 = {}
  OBVIOUS
<1> QED BY <1>2, <1>3, <1>5, <1>7, <1>8 DEF PushSound

\* The function returned arguments that stay where they are.
LEMMA RunForwards ==
    ASSUME Steady, CallTyped, MatchInv, ReadInv, PushInv, phase = "fetch", phase' = "push",
           UNCHANGED <<call, living, pushed, stack>>, results' \in Forwarded, ~Constructing
    PROVE  PushSound'
<1>1. PICK k \in DOMAIN taken :
         Function[k] = "variadic_args" /\ results' = [i \in DOMAIN taken[k] |-> Slot(taken[k][i])]
  BY DEF Forwarded
<1>2. form # "bare" /\ form' = form /\ args' = args /\ syntax' = syntax
  BY DEF Constructing, call
<1>3. /\ taken \in Seq(Seq(Nat)) /\ Len(taken) <= Len(Function)
      /\ \A j \in 1 .. Len(taken) : taken[j] = Owned[j]
      /\ stack \in Seq(Contents) /\ Seated
  BY <1>2 DEF ReadInv, Reading
<1>4. Len(Function) \in Nat /\ DOMAIN Function = 1 .. Len(Function)
  BY FunctionFacts
<1>5. k \in 1 .. Len(taken) /\ k \in 1 .. Len(Function) /\ taken[k] \in Seq(Nat) /\ k - 1 \in 0 .. Len(Function)
  BY <1>3, <1>4
<1>6. taken[k] = Own(Function, k)
  BY <1>3, <1>4, <1>5 DEF Owned
<1> DEFINE n == Position(Function, k)
           m == Len(args) - n + 1
<1>7. n \in Nat /\ n >= 1
  <2>1. Sizes(Function) \in [0 .. Len(Function) -> Nat]
    BY <1>4, SizesFacts
  <2> QED BY <1>5, <2>1 DEF Position
<1>8. taken[k] = [i \in 1 .. m |-> Place(n + i - 1)]
  BY <1>1, <1>6 DEF Own, Optionals, Twins, Transparent
<1>9. args \in Seq(ArgTypes) /\ Len(args) \in Nat /\ callstart \in Nat
  BY CallFacts
<1> HIDE DEF n
<1>10. m \in Int
  BY <1>7, <1>9
<1>11. /\ results' = [i \in 1 .. m |-> <<"slot", Place(n + i - 1)>>]
       /\ Len(taken[k]) \in Nat /\ 1 .. Len(taken[k]) = 1 .. m
  <2> HIDE DEF m
  <2>1. DOMAIN taken[k] = 1 .. m
    BY <1>8
  <2>2. DOMAIN taken[k] = 1 .. Len(taken[k]) /\ Len(taken[k]) \in Nat
    BY <1>5
  <2>3. \A i \in 1 .. m : taken[k][i] = Place(n + i - 1)
    BY <1>8
  <2> QED BY <1>1, <2>1, <2>2, <2>3 DEF Slot
<1>12. Len(results') = Len(taken[k]) /\ DOMAIN results' = 1 .. Len(results')
  <2> DEFINE l == Len(taken[k])
  <2>1. DOMAIN results' = 1 .. l /\ l \in Nat
    BY <1>11
  <2>2. results' = [i \in 1 .. l |-> <<"slot", Place(n + i - 1)>>]
    BY <1>11
  <2> HIDE DEF l, m
  <2>3. Len(results') = l
    BY <2>1, <2>2
  <2> QED BY <2>1, <2>3 DEF l
<1>13. ASSUME NEW i \in 1 .. m
       PROVE  /\ Place(n + i - 1) \in 1 .. Len(stack)
              /\ stack[Place(n + i - 1)] = Arg(n + i - 1)
              /\ Place(n + i - 1) - Place(0) = n + i - 1
  <2> DEFINE j == n + i - 2
  <2>1. j \in Nat /\ j + 1 = n + i - 1 /\ ~(j >= Len(args)) /\ j + 1 \in Int
    BY <1>7, <1>9
  <2> HIDE DEF j
  <2>2. Arg(j + 1) # "none"
    BY <1>9, <2>1, ArgFacts
  <2>3. At(callstart + j) = Arg(j + 1)
    BY <1>3, <2>1, <2>2 DEF Seated
  <2>4. callstart + j \in DOMAIN stack /\ stack[callstart + j] = Arg(j + 1)
    BY <2>2, <2>3 DEF At
  <2>5. Place(j + 1) = callstart + j /\ Place(0) = callstart - 1
    <3>1. \A x \in Int : Place(x) = callstart + x - 1
      BY <1>2, PlaceCounted
    <3> QED BY <1>9, <2>1, <3>1
  <2>6. DOMAIN stack = 1 .. Len(stack)
    BY <1>3
  <2> QED BY <1>9, <2>1, <2>4, <2>5, <2>6
<1>14. living' = TRUE /\ pushed' = 0 /\ stack' = stack /\ Len(stack) \in Nat
  BY <1>3 DEF PushInv
<1>15. Place(0)' = Place(0) /\ \A x : Arg(x)' = Arg(x)
  BY <1>2 DEF Place, Before, Arg
<1>16. ASSUME NEW i \in 1 .. m
       PROVE  Ready(i)'
  <2>1. /\ i \in DOMAIN results' /\ results'[i] = <<"slot", Place(n + i - 1)>>
        /\ results'[i][1] = "slot" /\ results'[i][2] = Place(n + i - 1)
    BY <1>11, <1>12
  <2>2. Rights'[i] = Right(results[i])'
    BY <2>1 DEF Rights
  <2>3. Right(results[i])' = Arg(Place(n + i - 1) - Place(0))
    BY <1>15, <2>1 DEF Right
  <2>4. Rights'[i] = stack[Place(n + i - 1)]
    BY <1>13, <2>2, <2>3
  <2>5. Place(n + i - 1) \in 1 .. Len(stack') - pushed'
    BY <1>13, <1>14
  <2> QED BY <1>14, <2>1, <2>4, <2>5 DEF Ready
<1>17. Len(results') \in Nat /\ 1 .. Len(results') = 1 .. m
  BY <1>11, <1>12
<1>18. \A i \in 1 .. Len(results') : Ready(i)'
  BY <1>16, <1>17
<1>19. pushed' \in Nat /\ pushed' <= Len(results') /\ pushed' <= Len(stack') /\ 1 .. pushed' = {}
  BY <1>14, <1>17
<1> QED BY <1>3, <1>12, <1>14, <1>17, <1>18, <1>19 DEF PushSound

LEMMA PushOne ==
    ASSUME PushSound, Push
    PROVE  PushSound'
<1> DEFINE i == pushed + 1
           c == Content(results[i])
<1>1. /\ phase = "push" /\ pushed < Len(results) /\ stack' = Append(stack, c) /\ pushed' = i
      /\ UNCHANGED <<call, phase, results>>
  BY DEF Push
<1>2. /\ stack \in Seq(Contents) /\ Len(stack) \in Nat /\ DOMAIN stack = 1 .. Len(stack)
      /\ Len(results) \in Nat /\ DOMAIN results = 1 .. Len(results)
      /\ pushed \in Nat /\ pushed <= Len(stack)
      /\ \A j \in 1 .. pushed : stack[Len(stack) - pushed + j] = Rights[j]
      /\ \A j \in 1 .. Len(results) : Ready(j)
  <2>1. stack \in Seq(Contents)
    BY DEF PushSound
  <2>2. Len(stack) \in Nat /\ DOMAIN stack = 1 .. Len(stack)
    BY <2>1
  <2> QED BY <2>1, <2>2 DEF PushSound
<1>3. i \in 1 .. Len(results) /\ i \in Nat /\ i - 1 = pushed
  BY <1>1, <1>2
<1> HIDE DEF i
<1>4. Rights' = Rights /\ results' = results
  BY <1>1, RightsSame
<1>5. Rights[i] = Right(results[i])
  BY <1>2, <1>3 DEF Rights
<1>6. Ready(i)
  BY <1>2, <1>3
<1>7. c = Rights[i] /\ c \in Contents
  <2>1. CASE results[i] = Value
    <3>1. results[i][1] = "value"
      BY <2>1 DEF Value
    <3> QED BY <1>5, <3>1 DEF Content, Right, Contents
  <2>2. CASE i = 1 /\ results[i][1] = "view" /\ (pushed = 0 => living = TRUE)
    <3>1. pushed = 0 /\ living = TRUE
      BY <1>2, <1>3, <2>2
    <3> QED BY <1>5, <2>2, <3>1 DEF Content, Right, Contents, ArgTypes
  <2>3. CASE /\ results[i][1] = "slot" /\ results[i][2] \in 1 .. Len(stack) - pushed
             /\ stack[results[i][2]] = Rights[i]
    <3>1. results[i][2] \in 1 .. Len(stack)
      BY <1>2, <2>3
    <3>2. c = At(results[i][2])
      BY <2>3 DEF Content
    <3>3. c = stack[results[i][2]]
      BY <1>2, <3>1, <3>2 DEF At
    <3>4. stack[results[i][2]] \in Contents
      BY <1>2, <3>1
    <3> QED BY <2>3, <3>3, <3>4
  <2> QED BY <1>6, <2>1, <2>2, <2>3 DEF Ready
<1> HIDE DEF c
<1>8. /\ stack' \in Seq(Contents) /\ Len(stack') = Len(stack) + 1 /\ stack'[Len(stack) + 1] = c
      /\ \A j \in 1 .. Len(stack) : stack'[j] = stack[j]
  BY <1>1, <1>2, <1>7
<1>9. Len(stack') - pushed' = Len(stack) - pushed /\ Len(stack) - pushed + i = Len(stack) + 1
  BY <1>1, <1>2, <1>3, <1>8
<1>10. ASSUME NEW j \in 1 .. pushed' PROVE stack'[Len(stack') - pushed' + j] = Rights'[j]
  <2>1. j \in 1 .. pushed \/ j = i
    BY <1>1, <1>2, <1>3
  <2>2. CASE j \in 1 .. pushed
    <3>1. Len(stack) - pushed + j \in 1 .. Len(stack)
      BY <1>2, <2>2
    <3> QED BY <1>2, <1>4, <1>8, <1>9, <2>2, <3>1
  <2>3. CASE j = i
    BY <1>4, <1>7, <1>8, <1>9, <2>3
  <2> QED BY <2>1, <2>2, <2>3
<1>11. ASSUME NEW j \in 1 .. Len(results) PROVE Ready(j)'
  <2>1. Ready(j)
    BY <1>2
  <2>2. pushed' # 0
    BY <1>1, <1>2, <1>3
  <2>3. CASE results[j] = Value
    BY <1>4, <2>3 DEF Ready, Value
  <2>4. CASE j = 1 /\ results[j][1] = "view" /\ (pushed = 0 => living = TRUE)
    BY <1>4, <2>2, <2>4 DEF Ready
  <2>5. CASE /\ results[j][1] = "slot" /\ results[j][2] \in 1 .. Len(stack) - pushed
             /\ stack[results[j][2]] = Rights[j]
    <3>1. results[j][2] \in 1 .. Len(stack)
      BY <1>2, <2>5
    <3>2. stack'[results[j][2]] = stack[results[j][2]]
      BY <1>8, <3>1
    <3> QED BY <1>4, <1>9, <2>5, <3>2 DEF Ready
  <2> QED BY <2>1, <2>3, <2>4, <2>5 DEF Ready
<1>12. pushed' \in Nat /\ pushed' <= Len(results') /\ pushed' <= Len(stack')
  BY <1>1, <1>2, <1>3, <1>4, <1>8
<1> QED BY <1>1, <1>2, <1>4, <1>8, <1>10, <1>11, <1>12 DEF PushSound

LEMMA PushStep ==
    ASSUME CallTyped, MatchInv, ReadInv, PushInv, Steady, CallNext
    PROVE  PushInv'
<1>1. ASSUME phase \in {"match", "verify", "fetch"}, phase' \in {"match", "verify", "fetch", "error"},
             UNCHANGED <<living, pushed>>
      PROVE  PushInv'
  BY <1>1 DEF PushInv
<1>2. ASSUME NEW m, Skip(m), phase = "match" PROVE PushInv'
  BY <1>1, <1>2 DEF Skip, fetching
<1>3. CASE SkipKnown \/ SkipArity \/ SkipTypes
  BY <1>2, <1>3 DEF SkipKnown, SkipArity, SkipTypes, Matching
<1>4. CASE Match
  BY <1>1, <1>4 DEF Match, Matching, fetching
<1>5. CASE NoMatch
  BY <1>1, <1>5 DEF NoMatch, fetching
<1>6. CASE Verify
  BY <1>1, <1>6 DEF Verify, fetching
<1>7. CASE Fetch
  BY <1>1, <1>7 DEF Fetch
<1>8. CASE Run
  <2>1. /\ phase = "fetch" /\ phase' = "push" /\ UNCHANGED <<call, living, pushed>>
        /\ \/ ~Constructing => results' \in Results /\ stack' = <<>>
           \/ ~Constructing /\ results' \in Forwarded /\ stack' = stack
    BY <1>8 DEF Run, Cleaned
  <2>2. Constructing' = Constructing
    BY <2>1 DEF Constructing, call
  <2>3. ~Constructing => PushSound'
    BY <2>1, RunValues, RunForwards
  <2> QED BY <2>1, <2>2, <2>3 DEF PushInv
<1>9. CASE Push
  <2>1. phase = "push" /\ phase' = "push" /\ UNCHANGED call
    BY <1>9 DEF Push
  <2>2. Constructing' = Constructing
    BY <2>1 DEF Constructing, call
  <2>3. ~Constructing => PushSound'
    BY <1>9, <2>1, PushOne DEF PushInv
  <2> QED BY <2>1, <2>2, <2>3 DEF PushInv
<1>10. CASE ReturnResults
  <2>1. /\ phase = "push" /\ phase' = "returned" /\ pushed = Len(results)
        /\ stack' = (IF Constructing THEN Append(stack, "userdata") ELSE stack)
        /\ UNCHANGED <<call, living, results, pushed>>
    BY <1>10 DEF ReturnResults, fetching
  <2>2. Constructing' = Constructing
    BY <2>1 DEF Constructing, call
  <2>3. ASSUME ~Constructing PROVE PushSound'
    <3>1. PushSound /\ stack' = stack
      BY <2>1, <2>3 DEF PushInv
    <3>2. Rights' = Rights
      BY <2>1, RightsSame
    <3> QED BY <2>1, <3>1, <3>2 DEF PushSound, Ready, Value
  <2> QED BY <2>1, <2>2, <2>3 DEF PushInv
<1> QED BY <1>3, <1>4, <1>5, <1>6, <1>7, <1>8, <1>9, <1>10 DEF CallNext

LEMMA PushStutter ==
    ASSUME PushInv, UNCHANGED callvars
    PROVE  PushInv'
<1>1. UNCHANGED <<call, stack, phase, living, results, pushed>>
  BY DEF callvars, call
<1>2. Rights' = Rights /\ Constructing' = Constructing
  BY <1>1, RightsSame DEF Constructing, call
<1> QED BY <1>1, <1>2 DEF PushInv, PushSound, Ready, Value

LEMMA RightPushed ==
    ASSUME PushInv
    PROVE  ResultsAreTheirOwn
<1> SUFFICES ASSUME phase = "returned", ~Constructing, NEW i \in DOMAIN results
             PROVE  stack[Len(stack) - Len(results) + i] = Right(results[i])
  BY DEF ResultsAreTheirOwn, Right
<1>1. PushSound
  BY DEF PushInv
<1> QED BY <1>1 DEF PushSound, Rights

\* Where besides only the first of several results points into an argument, the
\* script gets what the function returned.
THEOREM ResultsPushed ==
    ASSUME Steady
    PROVE  CallSpec => []ResultsAreTheirOwn
<1>1. CallInit => CallTyped /\ MatchInv /\ ReadInv /\ PushInv
  BY MatchInit, ReadInit, PushInit
<1>2. CallTyped /\ MatchInv /\ ReadInv /\ PushInv /\ [CallNext]_callvars
         => (CallTyped /\ MatchInv /\ ReadInv /\ PushInv)'
  BY MatchStep, MatchStutter, ReadStep, ReadStutter, PushStep, PushStutter DEF Separate, Steady
<1>3. PushInv => ResultsAreTheirOwn
  BY RightPushed
<1> QED BY <1>1, <1>2, <1>3, PTL DEF CallSpec

-----------------------------------------------------------------------------
(* What the program and the build have to be.                              *)

\* Where Lua leaves by longjmp, no C++ function holds objects while it lets
\* errors pass, none is called without a trampoline, and every error is
\* raised under a protected call.
Disciplined == "c" \in Builds => Uses \cap {"longjmp", "raw", "panic"} = {}

\* Where Lua throws, exceptions may pass through it, and nothing else stops
\* them or lets them out.
Propagated ==
    Builds \subseteq {"c", "cxx"} /\ ("cxx" \in Builds => Uses \cap {"catch", "panic"} = {})

\* And functions declared noexcept raise nothing.
QuietKept == "cxx" \in Builds => "quiet_error" \notin Uses

-----------------------------------------------------------------------------
(* The inductive invariant.                                                *)

Sane == build = "c" \/ (build = "cxx" /\ Uses \cap {"catch", "panic"} = {})

\* There, and no function that is noexcept lets errors pass.
Hushed == Sane /\ build # "c" /\ "quiet_error" \notin Uses

Handlers(fs) == {i \in DOMAIN fs : fs[i].by = "handler"}
OwnCall(fs)      == {i \in DOMAIN fs : fs[i].by # "handler"}
Holding(fs)  == {i \in DOMAIN fs : fs[i].locals = 1}

Places == Seq(Nat \ {0})

GotType == [value : Values, via : Seq(Through), to : Nat, due : Due]

\* The types of all but the calls.
ValuesTyped ==
    /\ build \in Builds
    /\ jumps \in Places
    /\ flight \in Error \cup {None}
    /\ got = Nothing \/ got \in GotType

CallsTyped ==
    /\ frames \in Seq(Call) /\ frames # <<>>
    /\ \A i \in Handlers(frames) : frames[i].cause \in Error

\* The bounds on calls and on handlers, apart.
Bounded ==
    /\ Cardinality(Handlers(frames)) <= MaxHandlers
    /\ Cardinality(OwnCall(frames)) <= MaxFrames

AliveSound == alive = Cardinality(Holding(frames))

\* Calls that hold objects or are noexcept call nothing that raises errors.
LocalsSound ==
    build = "c" =>
       \A i \in 1 .. Len(frames) - 1 : frames[i].locals = 1 => frames[i + 1].by = "protected"

QuietSound ==
    Hushed =>
       \A i \in 1 .. Len(frames) - 1 : frames[i].quiet => frames[i + 1].by = "protected"

\* Scripts hold no objects of C++.
Plain(f) == f.code = "script" => f.locals = 0 /\ ~f.quiet

CodeSound ==
    /\ frames[1].by = "main"
    /\ "raw" \notin Uses => \A i \in DOMAIN frames : frames[i].code # "raw"
    /\ \A i \in DOMAIN frames : Plain(frames[i])

StackSound ==
    CallsTyped /\ Bounded /\ AliveSound /\ LocalsSound /\ QuietSound /\ CodeSound

\* The places in js are those of the protected calls of fs, in their order.
Sound(fs, js) ==
    /\ \A i \in DOMAIN js : js[i] \in DOMAIN fs /\ Protects(fs[js[i]])
    /\ \A k \in DOMAIN fs : Protects(fs[k]) => \E i \in DOMAIN js : js[i] = k
    /\ \A i, j \in DOMAIN js : i < j => js[i] < js[j]

\* Call m is the innermost protected one of the first n.
Innermost(fs, n, m) ==
    /\ m \in 1 .. n /\ Protects(fs[m])
    /\ \A k \in m + 1 .. n : ~Protects(fs[k])

\* A handler's result will go where its error was to go.
HandlerSound(fs, i) ==
    /\ fs[i].cause.due.value = fs[i].cause.value
    /\ fs[i].cause.due.via = Append(fs[i].cause.via, "handler")
    /\ Innermost(fs, i - 1, fs[i].cause.due.to)

HandlersSound == \A i \in Handlers(frames) : HandlerSound(frames, i)

CallsKnown ==
    /\ ci \in 1 .. MaxFrames + MaxHandlers
    /\ flight = None \/ build = "c" => ci = Len(frames)

\* What an error on its way will need where it is caught.
FlightSound ==
    flight # None =>
       /\ jumps # <<>>
       /\ flight.how = "lua" =>
             flight.due = [value |-> flight.value, via |-> flight.via, to |-> Last(jumps)]
       /\ build = "c" => flight.how # "terminated"
       /\ build = "c" /\ flight.how = "exception" =>
             /\ Top.code = "bound" /\ flight.inside /\ ~Top.quiet
             /\ flight.via = <<>>
             /\ flight.due = DueFor(Message, <<"exception_handler">>)
       /\ build = "c" /\ flight.how = "caught" =>
             flight.due = DueFor(flight.value, flight.via)
       /\ build = "c" /\ flight.how # "exception" => Top.locals = 0
       /\ build # "c" => flight.how # "caught"
       /\ build # "c" /\ flight.how = "exception" =>
             flight.via = <<>> /\ flight.due.to = Last(jumps) /\ OfException(flight.due)
       /\ Hushed =>
             ~Top.quiet /\ flight.how # "terminated"

GotSound ==
    got # Nothing =>
       /\ got.to = got.due.to
       /\ build # "cxx" \/ ~OfException(got.due) => ArrivedWhole(got)

ErrorsSound ==
    Sound(frames, jumps) /\ HandlersSound /\ CallsKnown /\ FlightSound /\ GotSound

IInv == ValuesTyped /\ StackSound /\ (Sane => ErrorsSound)

-----------------------------------------------------------------------------
(* Stacks of calls.                                                        *)

USE TrampolinesAssumption DEF AllBuilds, AllUses

\* Parts of 1 .. n are finite, and every number is in a part or in the rest.
LEMMA CountFacts ==
    ASSUME NEW n \in Nat, NEW S \in SUBSET (1 .. n)
    PROVE  /\ IsFiniteSet(S) /\ Cardinality(S) \in 0 .. n
           /\ Cardinality(S) + Cardinality((1 .. n) \ S) = n
<1> DEFINE I == 1 .. n
<1>1. IsFiniteSet(I) /\ Cardinality(I) = n
  BY FS_Interval
<1>2. S \in SUBSET I /\ I \cap S = S
  OBVIOUS
<1>3. Cardinality(I \ S) = n - Cardinality(S) /\ IsFiniteSet(S) /\ Cardinality(S) <= n
  <2> HIDE DEF I
  <2> QED BY <1>1, <1>2, FS_Difference, FS_Subset
<1>4. Cardinality(S) \in Nat
  BY <1>3, FS_CardinalityType
<1> QED BY <1>3, <1>4

\* A finite set's parts are smaller.
LEMMA PartFacts ==
    ASSUME NEW S, IsFiniteSet(S), NEW T, T \subseteq S
    PROVE  Cardinality(T) \in Nat /\ Cardinality(T) <= Cardinality(S)
BY FS_Subset, FS_CardinalityType

LEMMA StackFacts ==
    ASSUME NEW fs \in Seq(Call)
    PROVE  /\ Len(fs) \in Nat /\ DOMAIN fs = 1 .. Len(fs)
           /\ fs # <<>> => Len(fs) \in Nat \ {0}
           /\ \A i \in 1 .. Len(fs) : fs[i] \in Call
           /\ Handlers(fs) \in SUBSET (1 .. Len(fs))
           /\ OwnCall(fs) \in SUBSET (1 .. Len(fs))
           /\ Holding(fs) \in SUBSET (1 .. Len(fs))
           /\ OwnCall(fs) = (1 .. Len(fs)) \ Handlers(fs)
           /\ IsFiniteSet(Handlers(fs)) /\ IsFiniteSet(OwnCall(fs)) /\ IsFiniteSet(Holding(fs))
           /\ Last(fs) = fs[Len(fs)]
<1>1. Len(fs) \in Nat /\ DOMAIN fs = 1 .. Len(fs) /\ \A i \in 1 .. Len(fs) : fs[i] \in Call
  BY LenProperties
<1>2. fs # <<>> => Len(fs) \in Nat \ {0}
  BY EmptySeq
<1>3. /\ Handlers(fs) \in SUBSET (1 .. Len(fs)) /\ OwnCall(fs) \in SUBSET (1 .. Len(fs))
      /\ Holding(fs) \in SUBSET (1 .. Len(fs)) /\ OwnCall(fs) = (1 .. Len(fs)) \ Handlers(fs)
  BY <1>1 DEF Handlers, OwnCall, Holding
<1>4. IsFiniteSet(Handlers(fs)) /\ IsFiniteSet(OwnCall(fs)) /\ IsFiniteSet(Holding(fs))
  <2> DEFINE n == Len(fs)
  <2>1. n \in Nat
    BY <1>1
  <2> HIDE DEF n
  <2>2. \A S \in SUBSET (1 .. n) : IsFiniteSet(S)
    BY <2>1, CountFacts
  <2> QED BY <1>3, <2>2 DEF n
<1> QED BY <1>1, <1>2, <1>3, <1>4 DEF Last

LEMMA StackCounts ==
    ASSUME NEW fs \in Seq(Call)
    PROVE  /\ Cardinality(Handlers(fs)) \in 0 .. Len(fs)
           /\ Cardinality(OwnCall(fs)) \in 0 .. Len(fs)
           /\ Cardinality(Holding(fs)) \in 0 .. Len(fs)
           /\ Cardinality(Handlers(fs)) + Cardinality(OwnCall(fs)) = Len(fs)
<1> DEFINE n == Len(fs)
<1>1. /\ n \in Nat /\ Handlers(fs) \in SUBSET (1 .. n) /\ OwnCall(fs) \in SUBSET (1 .. n)
      /\ Holding(fs) \in SUBSET (1 .. n) /\ OwnCall(fs) = (1 .. n) \ Handlers(fs)
  BY StackFacts
<1> HIDE DEF n
<1>2. /\ Cardinality(Handlers(fs)) \in 0 .. n /\ Cardinality(OwnCall(fs)) \in 0 .. n
      /\ Cardinality(Holding(fs)) \in 0 .. n
  BY <1>1, CountFacts
<1>3. Cardinality(Handlers(fs)) + Cardinality(OwnCall(fs)) = n
  BY <1>1, CountFacts
<1> QED BY <1>2, <1>3 DEF n

\* One call more.
LEMMA Pushed ==
    ASSUME NEW fs \in Seq(Call), NEW f \in Call
    PROVE  /\ Append(fs, f) \in Seq(Call) /\ Append(fs, f) # <<>>
           /\ Len(Append(fs, f)) = Len(fs) + 1
           /\ \A i \in 1 .. Len(fs) : Append(fs, f)[i] = fs[i]
           /\ Append(fs, f)[Len(fs) + 1] = f
           /\ Handlers(Append(fs, f)) =
                 IF f.by = "handler" THEN Handlers(fs) \cup {Len(fs) + 1} ELSE Handlers(fs)
           /\ OwnCall(Append(fs, f)) =
                 IF f.by = "handler" THEN OwnCall(fs) ELSE OwnCall(fs) \cup {Len(fs) + 1}
           /\ Holding(Append(fs, f)) =
                 IF f.locals = 1 THEN Holding(fs) \cup {Len(fs) + 1} ELSE Holding(fs)
<1> DEFINE gs == Append(fs, f)
           n == Len(fs)
<1>1. /\ gs \in Seq(Call) /\ Len(gs) = n + 1 /\ gs[n + 1] = f
      /\ \A i \in 1 .. n : gs[i] = fs[i]
  BY AppendProperties
<1>2. n \in Nat /\ DOMAIN fs = 1 .. n
  BY StackFacts
<1>3. DOMAIN gs = 1 .. n + 1
  BY <1>1, LenProperties
<1>4. gs # <<>>
  BY <1>1, <1>2, EmptySeq
<1> HIDE DEF gs, n
<1>5. DOMAIN gs = DOMAIN fs \cup {n + 1} /\ n + 1 \notin DOMAIN fs
  BY <1>2, <1>3
<1>6. Handlers(gs) = IF f.by = "handler" THEN Handlers(fs) \cup {n + 1} ELSE Handlers(fs)
  BY <1>1, <1>2, <1>5 DEF Handlers
<1>7. OwnCall(gs) = IF f.by = "handler" THEN OwnCall(fs) ELSE OwnCall(fs) \cup {n + 1}
  BY <1>1, <1>2, <1>5 DEF OwnCall
<1>8. Holding(gs) = IF f.locals = 1 THEN Holding(fs) \cup {n + 1} ELSE Holding(fs)
  BY <1>1, <1>2, <1>5 DEF Holding
<1> QED BY <1>1, <1>4, <1>6, <1>7, <1>8 DEF gs, n

\* And what that counts.
LEMMA PushedCounts ==
    ASSUME NEW fs \in Seq(Call), NEW f \in Call
    PROVE  /\ Cardinality(Handlers(Append(fs, f))) =
                 Cardinality(Handlers(fs)) + IF f.by = "handler" THEN 1 ELSE 0
           /\ Cardinality(OwnCall(Append(fs, f))) =
                 Cardinality(OwnCall(fs)) + IF f.by = "handler" THEN 0 ELSE 1
           /\ Cardinality(Holding(Append(fs, f))) = Cardinality(Holding(fs)) + f.locals
<1> DEFINE n == Len(fs)
<1>1. /\ IsFiniteSet(Handlers(fs)) /\ IsFiniteSet(OwnCall(fs)) /\ IsFiniteSet(Holding(fs))
      /\ n + 1 \notin Handlers(fs) /\ n + 1 \notin OwnCall(fs) /\ n + 1 \notin Holding(fs)
  BY StackFacts
<1>2. /\ Handlers(Append(fs, f)) =
           IF f.by = "handler" THEN Handlers(fs) \cup {n + 1} ELSE Handlers(fs)
      /\ OwnCall(Append(fs, f)) =
           IF f.by = "handler" THEN OwnCall(fs) ELSE OwnCall(fs) \cup {n + 1}
      /\ Holding(Append(fs, f)) =
           IF f.locals = 1 THEN Holding(fs) \cup {n + 1} ELSE Holding(fs)
  BY Pushed
<1> HIDE DEF n
<1>3. /\ Cardinality(Handlers(fs) \cup {n + 1}) = Cardinality(Handlers(fs)) + 1
      /\ Cardinality(OwnCall(fs) \cup {n + 1}) = Cardinality(OwnCall(fs)) + 1
      /\ Cardinality(Holding(fs) \cup {n + 1}) = Cardinality(Holding(fs)) + 1
      /\ Cardinality(Handlers(fs)) \in Nat /\ Cardinality(OwnCall(fs)) \in Nat
      /\ Cardinality(Holding(fs)) \in Nat
  BY <1>1, FS_AddElement, FS_CardinalityType
<1>4. f.locals \in {0, 1}
  BY DEF Call
<1> QED BY <1>2, <1>3, <1>4

\* What is left of the first m calls.
LEMMA Cut ==
    ASSUME NEW fs \in Seq(Call), NEW m \in 0 .. Len(fs)
    PROVE  /\ SubSeq(fs, 1, m) \in Seq(Call) /\ Len(SubSeq(fs, 1, m)) = m
           /\ m > 0 => SubSeq(fs, 1, m) # <<>>
           /\ \A i \in 1 .. m : SubSeq(fs, 1, m)[i] = fs[i]
           /\ Handlers(SubSeq(fs, 1, m)) = Handlers(fs) \cap (1 .. m)
           /\ OwnCall(SubSeq(fs, 1, m)) = OwnCall(fs) \cap (1 .. m)
           /\ Holding(SubSeq(fs, 1, m)) = Holding(fs) \cap (1 .. m)
<1> DEFINE gs == SubSeq(fs, 1, m)
           n == Len(fs)
<1>1. n \in Nat /\ DOMAIN fs = 1 .. n /\ \A i \in 1 .. n : fs[i] \in Call
  BY StackFacts
<1>2. \A i \in 1 .. m : fs[i] \in Call
  BY <1>1
<1>3. m \in Int
  BY <1>1
<1>4. /\ gs \in Seq(Call) /\ Len(gs) = IF 1 <= m THEN m - 1 + 1 ELSE 0
      /\ \A i \in 1 .. m - 1 + 1 : gs[i] = fs[1 + i - 1]
  BY <1>2, <1>3, SubSeqProperties
<1> HIDE DEF gs, n
<1>5. Len(gs) = m /\ \A i \in 1 .. m : gs[i] = fs[i]
  BY <1>1, <1>3, <1>4 DEF n
<1>6. DOMAIN gs = 1 .. m
  BY <1>4, <1>5, LenProperties
<1>7. m > 0 => gs # <<>>
  BY <1>5, EmptySeq
<1>8. \A i : i \in 1 .. m <=> i \in DOMAIN fs /\ i \in 1 .. m
  BY <1>1 DEF n
<1>9. /\ Handlers(gs) = Handlers(fs) \cap (1 .. m) /\ OwnCall(gs) = OwnCall(fs) \cap (1 .. m)
      /\ Holding(gs) = Holding(fs) \cap (1 .. m)
  BY <1>5, <1>6, <1>8 DEF Handlers, OwnCall, Holding
<1> QED BY <1>4, <1>5, <1>7, <1>9 DEF gs

LEMMA CutCounts ==
    ASSUME NEW fs \in Seq(Call), NEW m \in 0 .. Len(fs)
    PROVE  /\ Cardinality(Handlers(SubSeq(fs, 1, m))) \in Nat
           /\ Cardinality(Handlers(SubSeq(fs, 1, m))) <= Cardinality(Handlers(fs))
           /\ Cardinality(OwnCall(SubSeq(fs, 1, m))) \in Nat
           /\ Cardinality(OwnCall(SubSeq(fs, 1, m))) <= Cardinality(OwnCall(fs))
<1>1. IsFiniteSet(Handlers(fs)) /\ IsFiniteSet(OwnCall(fs))
  BY StackFacts
<1>2. /\ Handlers(SubSeq(fs, 1, m)) \subseteq Handlers(fs)
      /\ OwnCall(SubSeq(fs, 1, m)) \subseteq OwnCall(fs)
  BY Cut
<1> QED BY <1>1, <1>2, PartFacts

\* One call less.
LEMMA Popped ==
    ASSUME NEW fs \in Seq(Call), Len(fs) > 1
    PROVE  /\ Front(fs) = SubSeq(fs, 1, Len(fs) - 1) /\ Len(fs) - 1 \in 1 .. Len(fs)
           /\ Last(fs) \in Call
           /\ Cardinality(Handlers(Front(fs))) =
                 Cardinality(Handlers(fs)) - IF Last(fs).by = "handler" THEN 1 ELSE 0
           /\ Cardinality(Holding(Front(fs))) = Cardinality(Holding(fs)) - Last(fs).locals
<1> DEFINE n == Len(fs)
<1>1. /\ n \in Nat /\ DOMAIN fs = 1 .. n /\ Handlers(fs) \in SUBSET (1 .. n)
      /\ IsFiniteSet(Handlers(fs)) /\ IsFiniteSet(Holding(fs)) /\ Holding(fs) \in SUBSET (1 .. n) /\ \A i \in 1 .. n : fs[i] \in Call
      /\ Last(fs) = fs[n]
  BY StackFacts
<1>2. n - 1 \in 0 .. n /\ n - 1 \in 1 .. n /\ n \in 1 .. n
  BY <1>1
<1>3. Front(fs) = SubSeq(fs, 1, n - 1)
  BY DEF Front
<1>4. /\ Handlers(Front(fs)) = Handlers(fs) \cap (1 .. (n - 1))
      /\ Holding(Front(fs)) = Holding(fs) \cap (1 .. (n - 1))
  BY <1>2, <1>3, Cut
<1> HIDE DEF n
<1>5. Handlers(Front(fs)) = Handlers(fs) \ {n} /\ Holding(Front(fs)) = Holding(fs) \ {n}
  BY <1>1, <1>2, <1>4
<1>6. /\ Cardinality(Handlers(fs) \ {n}) =
            IF n \in Handlers(fs) THEN Cardinality(Handlers(fs)) - 1 ELSE Cardinality(Handlers(fs))
      /\ Cardinality(Holding(fs) \ {n}) =
            IF n \in Holding(fs) THEN Cardinality(Holding(fs)) - 1 ELSE Cardinality(Holding(fs))
      /\ Cardinality(Handlers(fs)) \in Nat /\ Cardinality(Holding(fs)) \in Nat
  BY <1>1, FS_RemoveElement, FS_CardinalityType
<1>7. /\ n \in Handlers(fs) <=> Last(fs).by = "handler"
      /\ n \in Holding(fs) <=> Last(fs).locals = 1
  BY <1>1, <1>2 DEF Handlers, Holding
<1>8. Last(fs) \in Call /\ Last(fs).locals \in {0, 1}
  BY <1>1, <1>2 DEF Call
<1>9. Cardinality(Handlers(Front(fs))) =
                 Cardinality(Handlers(fs)) - IF Last(fs).by = "handler" THEN 1 ELSE 0
  BY <1>5, <1>6, <1>7
<1>10. Cardinality(Holding(Front(fs))) = Cardinality(Holding(fs)) - Last(fs).locals
  BY <1>5, <1>6, <1>7, <1>8
<1> QED BY <1>2, <1>3, <1>8, <1>9, <1>10 DEF n

-----------------------------------------------------------------------------
(* The places of protected calls.                                          *)

LEMMA PlaceFacts ==
    ASSUME NEW js \in Places
    PROVE  /\ Len(js) \in Nat /\ DOMAIN js = 1 .. Len(js)
           /\ \A i \in 1 .. Len(js) : js[i] \in Nat \ {0}
           /\ Last(js) = js[Len(js)]
           /\ js # <<>> => Len(js) \in Nat \ {0}
           /\ js = <<>> => Len(js) = 0
BY LenProperties, EmptySeq DEF Places, Last

\* The last place is the innermost one.
LEMMA SoundLast ==
    ASSUME NEW fs \in Seq(Call), NEW js \in Places, Sound(fs, js), js # <<>>
    PROVE  Innermost(fs, Len(fs), Last(js)) /\ Last(js) \in 1 .. Len(fs)
<1>1. /\ Len(js) \in Nat \ {0} /\ DOMAIN js = 1 .. Len(js)
      /\ \A i \in 1 .. Len(js) : js[i] \in Nat \ {0}
      /\ Last(js) = js[Len(js)]
  BY PlaceFacts
<1>2. Len(fs) \in Nat /\ DOMAIN fs = 1 .. Len(fs)
  BY StackFacts
<1>3. Last(js) \in 1 .. Len(fs) /\ Protects(fs[Last(js)])
  BY <1>1, <1>2 DEF Sound
<1>4. ASSUME NEW k \in Last(js) + 1 .. Len(fs), Protects(fs[k]) PROVE FALSE
  <2>1. k \in DOMAIN fs /\ k > Last(js)
    BY <1>2, <1>3
  <2>2. PICK i \in DOMAIN js : js[i] = k
    BY <1>4, <2>1 DEF Sound
  <2>3. i < Len(js)
    BY <1>1, <1>3, <2>1, <2>2
  <2>4. js[i] < js[Len(js)]
    BY <1>1, <2>2, <2>3 DEF Sound
  <2> QED BY <1>1, <1>3, <2>1, <2>2, <2>4
<1> QED BY <1>3, <1>4 DEF Innermost

\* Without places there are no protected calls.
LEMMA SoundEmpty ==
    ASSUME NEW fs \in Seq(Call), Sound(fs, <<>>), NEW k \in DOMAIN fs
    PROVE  ~Protects(fs[k])
<1>1. DOMAIN <<>> = {}
  OBVIOUS
<1> QED BY <1>1 DEF Sound

LEMMA InnermostOne ==
    ASSUME NEW fs, NEW n \in Nat, NEW a, NEW b, Innermost(fs, n, a), Innermost(fs, n, b)
    PROVE  a = b
<1>1. a \in 1 .. n /\ b \in 1 .. n
  BY DEF Innermost
<1>2. ~(a < b)
  BY <1>1 DEF Innermost
<1>3. ~(b < a)
  BY <1>1 DEF Innermost
<1> QED BY <1>1, <1>2, <1>3

\* Only the calls up to there matter.
LEMMA InnermostKept ==
    ASSUME NEW fs, NEW gs, NEW n \in Nat, NEW m,
           \A k \in 1 .. n : gs[k].by = fs[k].by,
           Innermost(fs, n, m)
    PROVE  Innermost(gs, n, m)
<1>1. m \in 1 .. n /\ Protects(fs[m]) /\ \A k \in m + 1 .. n : ~Protects(fs[k])
  BY DEF Innermost
<1>2. \A k \in m + 1 .. n : k \in 1 .. n
  BY <1>1
<1> QED BY <1>1, <1>2 DEF Innermost, Protects

LEMMA HandlerKept ==
    ASSUME NEW fs, NEW gs, NEW i \in Nat \ {0},
           \A k \in 1 .. i : gs[k].by = fs[k].by,
           gs[i].cause = fs[i].cause, HandlerSound(fs, i)
    PROVE  HandlerSound(gs, i)
<1> DEFINE m == i - 1
           to == fs[i].cause.due.to
<1>1. m \in Nat /\ \A k \in 1 .. m : gs[k].by = fs[k].by
  OBVIOUS
<1>2. Innermost(fs, m, to)
  BY DEF HandlerSound
<1> HIDE DEF m, to
<1>3. Innermost(gs, m, to)
  BY <1>1, <1>2, InnermostKept
<1> QED BY <1>3 DEF HandlerSound, m, to

\* Calls that protect nobody leave no places.
LEMMA SoundSame ==
    ASSUME NEW fs \in Seq(Call), NEW gs \in Seq(Call), NEW js, Sound(fs, js),
           Len(gs) = Len(fs), \A k \in 1 .. Len(fs) : gs[k].by = fs[k].by
    PROVE  Sound(gs, js)
<1>1. DOMAIN fs = 1 .. Len(fs) /\ DOMAIN gs = 1 .. Len(fs)
  BY StackFacts
<1> QED BY <1>1 DEF Sound, Protects

LEMMA SoundPushed ==
    ASSUME NEW fs \in Seq(Call), NEW f \in Call, NEW js \in Places, Sound(fs, js), ~Protects(f)
    PROVE  Sound(Append(fs, f), js)
<1> DEFINE gs == Append(fs, f)
<1>1. /\ gs \in Seq(Call) /\ Len(gs) = Len(fs) + 1 /\ gs[Len(fs) + 1] = f
      /\ \A i \in 1 .. Len(fs) : gs[i] = fs[i]
  BY Pushed
<1>2. Len(fs) \in Nat /\ DOMAIN fs = 1 .. Len(fs)
  BY StackFacts
<1> HIDE DEF gs
<1>3. DOMAIN gs = 1 .. Len(fs) + 1
  BY <1>1, StackFacts
<1>4. \A k \in DOMAIN gs : (k \in DOMAIN fs /\ gs[k] = fs[k]) \/ (k = Len(fs) + 1 /\ gs[k] = f)
  BY <1>1, <1>2, <1>3
<1>5. \A k \in DOMAIN fs : k \in DOMAIN gs /\ gs[k] = fs[k]
  BY <1>1, <1>2, <1>3
<1>6. Sound(gs, js)
  BY <1>4, <1>5 DEF Sound
<1> QED BY <1>6 DEF gs

LEMMA SoundProtected ==
    ASSUME NEW fs \in Seq(Call), NEW f \in Call, NEW js \in Places, Sound(fs, js), Protects(f)
    PROVE  /\ Append(js, Len(fs) + 1) \in Places
           /\ Sound(Append(fs, f), Append(js, Len(fs) + 1))
<1> DEFINE gs == Append(fs, f)
           ks == Append(js, Len(fs) + 1)
           n == Len(fs)
           j == Len(js)
<1>1. /\ gs \in Seq(Call) /\ Len(gs) = n + 1 /\ gs[n + 1] = f
      /\ \A i \in 1 .. n : gs[i] = fs[i]
  BY Pushed
<1>2. n \in Nat /\ DOMAIN fs = 1 .. n
  BY StackFacts
<1>3. j \in Nat /\ DOMAIN js = 1 .. j
  BY PlaceFacts
<1>4. n + 1 \in Nat \ {0}
  BY <1>2
<1>5. /\ ks \in Places /\ Len(ks) = j + 1 /\ ks[j + 1] = n + 1
      /\ \A i \in 1 .. j : ks[i] = js[i]
  BY <1>4, AppendProperties DEF Places
<1> HIDE DEF gs, ks
<1>6. DOMAIN gs = 1 .. n + 1 /\ DOMAIN ks = 1 .. j + 1
  BY <1>1, <1>5, StackFacts, PlaceFacts
<1> HIDE DEF n, j
<1>7. \A i \in DOMAIN js : js[i] \in 1 .. n
  BY <1>2 DEF Sound
<1>8. \A i \in DOMAIN ks : ks[i] \in DOMAIN gs /\ Protects(gs[ks[i]])
  <2>1. SUFFICES ASSUME NEW i \in DOMAIN ks PROVE ks[i] \in DOMAIN gs /\ Protects(gs[ks[i]])
    OBVIOUS
  <2>2. CASE i \in 1 .. j
    <3>1. i \in DOMAIN js /\ ks[i] = js[i] /\ js[i] \in 1 .. n
      BY <1>3, <1>5, <1>7, <2>2
    <3>2. Protects(fs[js[i]])
      BY <3>1 DEF Sound
    <3> QED BY <1>1, <1>2, <1>6, <3>1, <3>2
  <2>3. CASE i = j + 1
    BY <1>1, <1>2, <1>5, <1>6, <2>3
  <2> QED BY <1>3, <1>6, <2>2, <2>3
<1>9. \A k \in DOMAIN gs : Protects(gs[k]) => \E i \in DOMAIN ks : ks[i] = k
  <2>1. SUFFICES ASSUME NEW k \in DOMAIN gs, Protects(gs[k]) PROVE \E i \in DOMAIN ks : ks[i] = k
    OBVIOUS
  <2>2. CASE k \in 1 .. n
    <3>1. PICK i \in DOMAIN js : js[i] = k
      BY <1>1, <1>2, <2>1, <2>2 DEF Sound
    <3>2. i \in DOMAIN ks /\ ks[i] = k
      BY <1>3, <1>5, <1>6, <3>1
    <3> QED BY <3>2
  <2>3. CASE k = n + 1
    <3>1. j + 1 \in DOMAIN ks /\ ks[j + 1] = k
      BY <1>3, <1>5, <1>6, <2>3
    <3> QED BY <3>1
  <2> QED BY <1>2, <1>6, <2>2, <2>3
<1>10. \A a, b \in DOMAIN ks : a < b => ks[a] < ks[b]
  <2>1. SUFFICES ASSUME NEW a \in DOMAIN ks, NEW b \in DOMAIN ks, a < b PROVE ks[a] < ks[b]
    OBVIOUS
  <2>2. a \in 1 .. j /\ ks[a] = js[a] /\ js[a] \in 1 .. n
    BY <1>3, <1>5, <1>6, <1>7, <2>1
  <2>3. CASE b \in 1 .. j
    <3>1. js[a] < js[b]
      BY <1>3, <2>1, <2>2, <2>3 DEF Sound
    <3> QED BY <1>5, <2>2, <2>3, <3>1
  <2>4. CASE b = j + 1
    BY <1>2, <1>5, <2>2, <2>4
  <2> QED BY <1>3, <1>6, <2>3, <2>4
<1> QED BY <1>5, <1>8, <1>9, <1>10 DEF Sound, gs, ks, n

\* Calls are left that nobody protects.
LEMMA SoundLeft ==
    ASSUME NEW fs \in Seq(Call), NEW m \in 0 .. Len(fs), NEW js \in Places, Sound(fs, js),
           \A k \in m + 1 .. Len(fs) : ~Protects(fs[k])
    PROVE  Sound(SubSeq(fs, 1, m), js)
<1> DEFINE gs == SubSeq(fs, 1, m)
           n == Len(fs)
<1>1. gs \in Seq(Call) /\ Len(gs) = m /\ \A i \in 1 .. m : gs[i] = fs[i]
  BY Cut
<1>2. n \in Nat /\ DOMAIN fs = 1 .. n /\ m \in 0 .. n
  BY StackFacts
<1> HIDE DEF gs
<1>3. DOMAIN gs = 1 .. m
  BY <1>1, StackFacts
<1>4. \A k \in DOMAIN gs : k \in DOMAIN fs /\ gs[k] = fs[k]
  BY <1>1, <1>2, <1>3
<1>5. \A k \in DOMAIN fs : Protects(fs[k]) => k \in DOMAIN gs
  BY <1>2, <1>3
<1>6. Sound(gs, js)
  BY <1>4, <1>5 DEF Sound
<1> QED BY <1>6 DEF gs

\* The innermost protected call ends, with those above it.
LEMMA SoundEnded ==
    ASSUME NEW fs \in Seq(Call), NEW js \in Places, Sound(fs, js), js # <<>>
    PROVE  Front(js) \in Places /\ Sound(SubSeq(fs, 1, Last(js) - 1), Front(js))
<1> DEFINE t == Last(js)
           m == t - 1
           gs == SubSeq(fs, 1, m)
           ks == Front(js)
           n == Len(fs)
           j == Len(js)
<1>1. /\ j \in Nat \ {0} /\ DOMAIN js = 1 .. j /\ t = js[j]
      /\ \A i \in 1 .. j : js[i] \in Nat \ {0}
  BY PlaceFacts
<1>2. n \in Nat /\ DOMAIN fs = 1 .. n
  BY StackFacts
<1>3. t \in 1 .. n /\ \A k \in t + 1 .. n : ~Protects(fs[k])
  BY SoundLast DEF Innermost
<1>4. m \in 0 .. n
  BY <1>2, <1>3
<1>5. gs \in Seq(Call) /\ Len(gs) = m /\ \A i \in 1 .. m : gs[i] = fs[i]
  <2> HIDE DEF m
  <2> QED BY <1>4, Cut
<1>6. /\ ks \in Places /\ Len(ks) = j - 1 /\ \A i \in 1 .. j - 1 : ks[i] = js[i]
  <2>1. \A i \in 1 .. j - 1 : js[i] \in Nat \ {0}
    BY <1>1
  <2>2. j - 1 \in Int /\ (j - 1) - 1 + 1 = j - 1
    BY <1>1
  <2>3. /\ ks \in Seq(Nat \ {0}) /\ Len(ks) = IF 1 <= j - 1 THEN (j - 1) - 1 + 1 ELSE 0
        /\ \A i \in 1 .. (j - 1) - 1 + 1 : ks[i] = js[1 + i - 1]
    <3> DEFINE q == j - 1
    <3>1. q \in Int /\ \A i \in 1 .. q : js[i] \in Nat \ {0}
      BY <2>1, <2>2
    <3> HIDE DEF q
    <3>2. /\ SubSeq(js, 1, q) \in Seq(Nat \ {0})
          /\ Len(SubSeq(js, 1, q)) = IF 1 <= q THEN q - 1 + 1 ELSE 0
          /\ \A i \in 1 .. q - 1 + 1 : SubSeq(js, 1, q)[i] = js[1 + i - 1]
      BY <3>1, SubSeqProperties
    <3> QED BY <3>2 DEF Front, q
  <2> HIDE DEF ks, j
  <2>4. \A i \in 1 .. j - 1 : i \in 1 .. (j - 1) - 1 + 1 /\ 1 + i - 1 = i
    BY <1>1
  <2>5. \A i \in 1 .. j - 1 : ks[i] = js[i]
    BY <2>3, <2>4
  <2> QED BY <1>1, <2>3, <2>5 DEF Places
<1> HIDE DEF gs, ks
<1>7. DOMAIN gs = 1 .. m /\ DOMAIN ks = 1 .. j - 1
  BY <1>5, <1>6, StackFacts, PlaceFacts
<1> HIDE DEF n, j, t
<1>8. \A i \in 1 .. j - 1 : i \in DOMAIN js /\ i # j /\ js[i] \in 1 .. m /\ Protects(fs[js[i]])
  <2>1. SUFFICES ASSUME NEW i \in 1 .. j - 1
                 PROVE  i \in DOMAIN js /\ i # j /\ js[i] \in 1 .. m /\ Protects(fs[js[i]])
    OBVIOUS
  <2>2. i \in DOMAIN js /\ j \in DOMAIN js /\ i < j /\ i # j
    BY <1>1, <2>1
  <2>3. js[i] < js[j] /\ js[i] \in DOMAIN fs /\ Protects(fs[js[i]])
    BY <2>2 DEF Sound
  <2> QED BY <1>1, <1>2, <1>3, <2>2, <2>3
<1>9. \A i \in DOMAIN ks : ks[i] \in DOMAIN gs /\ Protects(gs[ks[i]])
  BY <1>5, <1>6, <1>7, <1>8
<1>10. \A k \in DOMAIN gs : Protects(gs[k]) => \E i \in DOMAIN ks : ks[i] = k
  <2>1. SUFFICES ASSUME NEW k \in DOMAIN gs, Protects(gs[k]) PROVE \E i \in DOMAIN ks : ks[i] = k
    OBVIOUS
  <2>2. k \in 1 .. m /\ k \in DOMAIN fs /\ Protects(fs[k]) /\ k # t
    BY <1>2, <1>3, <1>5, <1>7, <2>1
  <2>3. PICK i \in DOMAIN js : js[i] = k
    BY <2>2 DEF Sound
  <2>4. i \in 1 .. j - 1
    BY <1>1, <2>2, <2>3
  <2> QED BY <1>6, <1>7, <2>3, <2>4
<1>11. \A a, b \in DOMAIN ks : a < b => ks[a] < ks[b]
  BY <1>6, <1>7, <1>8 DEF Sound
<1> QED BY <1>6, <1>9, <1>10, <1>11 DEF Sound, gs, ks, m, t

-----------------------------------------------------------------------------
(* Steps of the stack of calls.                                            *)

LEMMA Pushing ==
    ASSUME StackSound, NEW f \in Call, f.by = "handler" => f.cause \in Error,
           f.by = "handler" => Cardinality(Handlers(frames)) < MaxHandlers,
           f.by # "handler" => Len(frames) < MaxFrames + Cardinality(Handlers(frames)),
           "raw" \notin Uses => f.code # "raw", Plain(f),
           build = "c" /\ Top.locals = 1 => f.by = "protected",
           Hushed /\ Top.quiet => f.by = "protected",
           frames' = Append(frames, f), alive' = alive + f.locals, build' = build
    PROVE  StackSound'
<1> DEFINE n == Len(frames)
<1>1. frames \in Seq(Call) /\ frames # <<>>
  BY DEF StackSound, CallsTyped
<1>2. /\ n \in Nat \ {0} /\ DOMAIN frames = 1 .. n
      /\ Handlers(frames) \in SUBSET (1 .. n)
      /\ Top = frames[n]
  BY <1>1, StackFacts DEF Top
<1>3. /\ frames' \in Seq(Call) /\ frames' # <<>> /\ Len(frames') = n + 1
      /\ \A i \in 1 .. n : frames'[i] = frames[i]
      /\ frames'[n + 1] = f
      /\ Handlers(frames') = IF f.by = "handler" THEN Handlers(frames) \cup {n + 1} ELSE Handlers(frames)
  BY <1>1, Pushed
<1>4. /\ Cardinality(Handlers(frames')) =
            Cardinality(Handlers(frames)) + IF f.by = "handler" THEN 1 ELSE 0
      /\ Cardinality(OwnCall(frames')) = Cardinality(OwnCall(frames)) + IF f.by = "handler" THEN 0 ELSE 1
      /\ Cardinality(Holding(frames')) = Cardinality(Holding(frames)) + f.locals
  BY <1>1, PushedCounts
<1>5. /\ Cardinality(Handlers(frames)) \in Nat /\ Cardinality(OwnCall(frames)) \in Nat
      /\ Cardinality(Handlers(frames)) + Cardinality(OwnCall(frames)) = n
  <2>1. /\ Cardinality(Handlers(frames)) \in 0 .. n /\ Cardinality(OwnCall(frames)) \in 0 .. n
        /\ Cardinality(Handlers(frames)) + Cardinality(OwnCall(frames)) = n
    BY <1>1, StackCounts
  <2> QED BY <2>1
<1>6. DOMAIN frames' = 1 .. n + 1
  BY <1>3, StackFacts
<1> HIDE DEF n
<1>7. CallsTyped'
  <2>1. ASSUME NEW i \in Handlers(frames') PROVE frames'[i].cause \in Error
    BY <1>2, <1>3, <1>6, <2>1 DEF StackSound, CallsTyped, Handlers
  <2> QED BY <1>3, <2>1 DEF CallsTyped
<1>8. Bounded'
  <2>1. Cardinality(Handlers(frames)) <= MaxHandlers /\ Cardinality(OwnCall(frames)) <= MaxFrames
    BY DEF StackSound, Bounded
  <2>2. f.by # "handler" => n < MaxFrames + Cardinality(Handlers(frames))
    BY DEF n
  <2>3. Cardinality(Handlers(frames')) <= MaxHandlers
    BY <1>4, <1>5, <2>1
  <2>4. Cardinality(OwnCall(frames')) <= MaxFrames
    BY <1>4, <1>5, <2>1, <2>2
  <2> QED BY <2>3, <2>4 DEF Bounded
<1>9. AliveSound'
  BY <1>4 DEF StackSound, AliveSound
<1>10. LocalsSound'
  <2>1. SUFFICES ASSUME build = "c", NEW i \in 1 .. n, frames'[i].locals = 1
                 PROVE  frames'[i + 1].by = "protected"
    BY <1>2, <1>3 DEF LocalsSound
  <2>2. CASE i = n
    BY <1>2, <1>3, <2>1, <2>2
  <2>3. CASE i # n
    <3>1. i \in 1 .. n - 1 /\ i + 1 \in 1 .. n
      BY <1>2, <2>1, <2>3
    <3>2. frames[i + 1].by = "protected"
      BY <1>3, <2>1, <3>1 DEF StackSound, LocalsSound, n
    <3> QED BY <1>3, <3>1, <3>2
  <2> QED BY <2>2, <2>3
<1>11. QuietSound'
  <2>1. SUFFICES ASSUME Hushed, NEW i \in 1 .. n, frames'[i].quiet
                 PROVE  frames'[i + 1].by = "protected"
    BY <1>2, <1>3 DEF QuietSound, Hushed, Sane
  <2>2. CASE i = n
    BY <1>2, <1>3, <2>1, <2>2
  <2>3. CASE i # n
    <3>1. i \in 1 .. n - 1 /\ i + 1 \in 1 .. n
      BY <1>2, <2>1, <2>3
    <3>2. frames[i + 1].by = "protected"
      BY <1>3, <2>1, <3>1 DEF StackSound, QuietSound, n
    <3> QED BY <1>3, <3>1, <3>2
  <2> QED BY <2>2, <2>3
<1>12. CodeSound'
  <2>1. frames'[1].by = "main"
    BY <1>2, <1>3 DEF StackSound, CodeSound
  <2>2. ASSUME "raw" \notin Uses, NEW i \in DOMAIN frames' PROVE frames'[i].code # "raw"
    BY <1>2, <1>3, <1>6, <2>2 DEF StackSound, CodeSound
  <2>3. ASSUME NEW i \in DOMAIN frames' PROVE Plain(frames'[i])
    BY <1>2, <1>3, <1>6, <2>3 DEF StackSound, CodeSound
  <2> QED BY <2>1, <2>2, <2>3 DEF CodeSound
<1> QED BY <1>7, <1>8, <1>9, <1>10, <1>11, <1>12 DEF StackSound

LEMMA Leaving ==
    ASSUME StackSound, NEW m \in 1 .. Len(frames),
           frames' = SubSeq(frames, 1, m), alive' = Cardinality(Holding(SubSeq(frames, 1, m))),
           build' = build
    PROVE  StackSound'
<1> DEFINE n == Len(frames)
<1>1. frames \in Seq(Call) /\ n \in Nat /\ DOMAIN frames = 1 .. n
  BY StackFacts DEF StackSound, CallsTyped
<1>2. m \in 0 .. n /\ m \in 1 .. n /\ m > 0
  BY <1>1
<1>3. /\ frames' \in Seq(Call) /\ frames' # <<>> /\ Len(frames') = m
      /\ \A i \in 1 .. m : frames'[i] = frames[i]
      /\ Handlers(frames') = Handlers(frames) \cap (1 .. m)
  BY <1>1, <1>2, Cut
<1>4. /\ Cardinality(Handlers(frames')) \in Nat /\ Cardinality(OwnCall(frames')) \in Nat
      /\ Cardinality(Handlers(frames')) <= Cardinality(Handlers(frames))
      /\ Cardinality(OwnCall(frames')) <= Cardinality(OwnCall(frames))
  BY <1>1, <1>2, CutCounts
<1>5. DOMAIN frames' = 1 .. m
  BY <1>3, StackFacts
<1>6. Cardinality(Handlers(frames)) \in Nat /\ Cardinality(OwnCall(frames)) \in Nat
  BY <1>1, StackFacts, FS_CardinalityType
<1> HIDE DEF n
<1>7. CallsTyped'
  BY <1>3 DEF CallsTyped, StackSound
<1>8. Bounded'
  BY <1>4, <1>6 DEF Bounded, StackSound
<1>9. AliveSound'
  BY DEF AliveSound
<1>10. \A i \in 1 .. m - 1 : i \in 1 .. m /\ i + 1 \in 1 .. m /\ i \in 1 .. n - 1
  BY <1>1, <1>2
<1>11. LocalsSound'
  BY <1>3, <1>10 DEF LocalsSound, StackSound, n
<1>12. QuietSound'
  BY <1>3, <1>10 DEF QuietSound, StackSound, n, Hushed, Sane
<1>13. CodeSound'
  BY <1>1, <1>2, <1>3, <1>5 DEF CodeSound, StackSound
<1> QED BY <1>7, <1>8, <1>9, <1>11, <1>12, <1>13 DEF StackSound

\* The calls that are left keep what they had.
LEMMA HandlersLeft ==
    ASSUME frames \in Seq(Call), HandlersSound, NEW m \in 0 .. Len(frames),
           frames' = SubSeq(frames, 1, m)
    PROVE  HandlersSound'
<1>1. /\ \A i \in 1 .. m : frames'[i] = frames[i]
      /\ Handlers(frames') = Handlers(frames) \cap (1 .. m)
  BY Cut
<1>2. SUFFICES ASSUME NEW i \in Handlers(frames') PROVE HandlerSound(frames', i)
  BY DEF HandlersSound
<1>3. Len(frames) \in Nat
  BY StackFacts
<1>4. i \in Handlers(frames) /\ i \in 1 .. m /\ i \in Nat \ {0}
  BY <1>1, <1>2, <1>3
<1>5. HandlerSound(frames, i)
  BY <1>4 DEF HandlersSound
<1>6. frames'[i].cause = frames[i].cause /\ \A k \in 1 .. i : frames'[k].by = frames[k].by
  BY <1>1, <1>3, <1>4
<1> QED BY <1>4, <1>5, <1>6, HandlerKept

LEMMA HandlersPushed ==
    ASSUME frames \in Seq(Call), HandlersSound, NEW f \in Call, frames' = Append(frames, f),
           f.by = "handler" => HandlerSound(frames', Len(frames) + 1)
    PROVE  HandlersSound'
<1> DEFINE n == Len(frames)
<1>1. /\ n \in Nat /\ Handlers(frames) \in SUBSET (1 .. n)
      /\ \A i \in 1 .. n : frames'[i] = frames[i]
      /\ Handlers(frames') = IF f.by = "handler" THEN Handlers(frames) \cup {n + 1} ELSE Handlers(frames)
  BY StackFacts, Pushed
<1>2. SUFFICES ASSUME NEW i \in Handlers(frames'), i # n + 1 \/ f.by # "handler"
               PROVE  HandlerSound(frames', i)
  BY <1>1 DEF HandlersSound
<1> HIDE DEF n
<1>3. i \in Handlers(frames) /\ i \in 1 .. n /\ i \in Nat \ {0}
  BY <1>1, <1>2
<1>4. HandlerSound(frames, i)
  BY <1>3 DEF HandlersSound
<1>5. frames'[i].cause = frames[i].cause /\ \A k \in 1 .. i : frames'[k].by = frames[k].by
  <2>1. \A k \in 1 .. i : k \in 1 .. n
    BY <1>1, <1>3
  <2> QED BY <1>1, <1>3, <2>1
<1> QED BY <1>3, <1>4, <1>5, HandlerKept

-----------------------------------------------------------------------------
(* Steps of the system.                                                    *)

LEMMA ConstantFacts ==
    /\ MaxFrames \in Nat \ {0} /\ MaxHandlers \in Nat
    /\ Builds \subseteq {"c", "cxx", "cxx_unsafe"}
OBVIOUS

\* What is known of the variables before a step.
LEMMA StateFacts ==
    ASSUME IInv
    PROVE  /\ build \in {"c", "cxx", "cxx_unsafe"} /\ build \in Builds
           /\ frames \in Seq(Call) /\ frames # <<>> /\ Len(frames) \in Nat \ {0}
           /\ Top = frames[Len(frames)] /\ Top \in Call
           /\ jumps \in Places /\ flight \in Error \cup {None}
           /\ Pending = Cardinality(Handlers(frames)) /\ Pending \in 0 .. MaxHandlers
           /\ Len(frames) <= MaxFrames + Pending
           /\ alive = Cardinality(Holding(frames)) /\ alive \in 0 .. Len(frames)
<1>1. frames \in Seq(Call) /\ frames # <<>>
  BY DEF IInv, StackSound, CallsTyped
<1>2. /\ Len(frames) \in Nat \ {0} /\ Top = frames[Len(frames)]
      /\ \A i \in 1 .. Len(frames) : frames[i] \in Call
  BY <1>1, StackFacts DEF Top
<1>3. Len(frames) \in 1 .. Len(frames)
  BY <1>2
<1>4. /\ Cardinality(Handlers(frames)) \in 0 .. Len(frames)
      /\ Cardinality(OwnCall(frames)) \in 0 .. Len(frames)
      /\ Cardinality(Holding(frames)) \in 0 .. Len(frames)
      /\ Cardinality(Handlers(frames)) + Cardinality(OwnCall(frames)) = Len(frames)
  BY <1>1, StackCounts
<1>5. Pending = Cardinality(Handlers(frames))
  BY DEF Pending, Handlers
<1>6. /\ Cardinality(Handlers(frames)) <= MaxHandlers
      /\ Cardinality(OwnCall(frames)) <= MaxFrames
      /\ alive = Cardinality(Holding(frames))
  BY DEF IInv, StackSound, Bounded, AliveSound
<1>7. Pending \in 0 .. MaxHandlers /\ Len(frames) <= MaxFrames + Pending
  BY <1>2, <1>4, <1>5, <1>6, ConstantFacts
<1>8. build \in Builds /\ jumps \in Places /\ flight \in Error \cup {None}
  BY DEF IInv, ValuesTyped
<1> QED BY <1>1, <1>2, <1>3, <1>4, <1>5, <1>6, <1>7, <1>8, ConstantFacts

\* An error, and what is to come of it.
LEMMA DueType ==
    ASSUME IInv, NEW value \in Values, NEW via \in Seq(Through)
    PROVE  /\ DueFor(value, via) \in Due
           /\ DueFor(value, via).value = IF HandlerDue /\ Pending = MaxHandlers THEN ErrErr ELSE value
           /\ DueFor(value, via).via =
                 IF HandlerDue /\ Pending < MaxHandlers THEN Append(via, "handler") ELSE via
           /\ jumps # <<>> => DueFor(value, via).to = Last(jumps)
<1>1. ErrErr \in Values
  BY ConstantFacts DEF Values, ErrErr
<1>2. (IF jumps = <<>> THEN 0 ELSE Last(jumps)) \in Nat
  <2>1. jumps \in Places
    BY StateFacts
  <2>2. jumps # <<>> => Last(jumps) \in Nat
    <3>1. SUFFICES ASSUME jumps # <<>> PROVE Last(jumps) \in Nat
      OBVIOUS
    <3>2. /\ Len(jumps) \in Nat \ {0} /\ Last(jumps) = jumps[Len(jumps)]
          /\ \A i \in 1 .. Len(jumps) : jumps[i] \in Nat \ {0}
      BY <2>1, <3>1, PlaceFacts
    <3>3. Len(jumps) \in 1 .. Len(jumps)
      BY <3>2
    <3> QED BY <3>2, <3>3
  <2> QED BY <2>2
<1>3. "handler" \in Through
  BY DEF Through
<1>4. via \o <<"handler">> = Append(via, "handler") /\ Append(via, "handler") \in Seq(Through)
  BY <1>3, AppendProperties, AppendIsConcat
<1>5. via \o <<>> = via
  BY ConcatEmptySeq
<1>6. via \o (IF HandlerDue /\ Pending < MaxHandlers THEN <<"handler">> ELSE <<>>) =
         IF HandlerDue /\ Pending < MaxHandlers THEN Append(via, "handler") ELSE via
  BY <1>4, <1>5
<1> QED BY <1>1, <1>2, <1>4, <1>6 DEF DueFor, Due

\* What is due for an exception can be told from what is due for an error.
LEMMA ExceptionDue ==
    ASSUME IInv, NEW value \in Values
    PROVE  OfException(DueFor(value, <<"exception_handler">>))
<1>1. /\ <<"exception_handler">> \in Seq(Through) /\ Len(<<"exception_handler">>) = 1
      /\ <<"exception_handler">>[1] = "exception_handler"
  BY DEF Through
<1>2. SUFFICES ASSUME NEW seen \in Seq(Through), Len(seen) = 1, seen[1] = "exception_handler"
               PROVE  OfException(DueFor(value, seen))
  BY <1>1
<1>3. PICK via : via = DueFor(value, seen).via
  OBVIOUS
<1>4. via = seen \/ via = Append(seen, "handler")
  BY <1>3, DueType
<1>5. Len(Append(seen, "handler")) # 0 /\ Append(seen, "handler")[1] = "exception_handler"
  <2>1. "handler" \in Through
    BY DEF Through
  <2>2. /\ Len(Append(seen, "handler")) = Len(seen) + 1
        /\ \A i \in 1 .. Len(seen) : Append(seen, "handler")[i] = seen[i]
    BY <2>1, AppendProperties
  <2> QED BY <1>2, <2>2
<1>6. Len(via) # 0 /\ via[1] = "exception_handler"
  <2>1. CASE via = seen
    BY <1>2, <2>1
  <2>2. CASE via = Append(seen, "handler")
    BY <1>5, <2>2
  <2> QED BY <1>4, <2>1, <2>2
<1>7. via # <<>>
  BY <1>6, EmptySeq
<1> QED BY <1>3, <1>6, <1>7 DEF OfException

\* No protected call, no place; else the last place is the innermost one's.
LEMMA InnermostFacts ==
    ASSUME IInv, Sane, jumps # <<>>
    PROVE  /\ Innermost(frames, Len(frames), Last(jumps))
           /\ Last(jumps) \in 2 .. Len(frames)
<1>1. frames \in Seq(Call) /\ jumps \in Places /\ Sound(frames, jumps) /\ Len(frames) \in Nat
  BY StateFacts DEF IInv, ErrorsSound
<1>2. Innermost(frames, Len(frames), Last(jumps)) /\ Last(jumps) \in 1 .. Len(frames)
  BY <1>1, SoundLast
<1>3. frames[1].by = "main" /\ Protects(frames[Last(jumps)])
  BY <1>2 DEF IInv, StackSound, CodeSound, Innermost
<1>4. Last(jumps) # 1
  BY <1>3 DEF Protects
<1> QED BY <1>1, <1>2, <1>4

\* Every protected call under way is known.
LEMMA TopKnown ==
    ASSUME IInv, Sane, Protects(Top)
    PROVE  jumps # <<>> /\ Last(jumps) = Len(frames)
<1>1. /\ frames \in Seq(Call) /\ jumps \in Places /\ Sound(frames, jumps)
      /\ Len(frames) \in Nat \ {0} /\ Top = frames[Len(frames)]
  BY StateFacts DEF IInv, ErrorsSound
<1>2. Len(frames) \in DOMAIN frames
  BY <1>1, StackFacts
<1>3. jumps # <<>>
  BY <1>1, <1>2, SoundEmpty
<1>4. Innermost(frames, Len(frames), Last(jumps)) /\ Last(jumps) \in 2 .. Len(frames)
  BY <1>3, InnermostFacts
<1>5. Last(jumps) # Len(frames) => Len(frames) \in Last(jumps) + 1 .. Len(frames)
  BY <1>1, <1>4
<1> QED BY <1>1, <1>3, <1>4, <1>5 DEF Innermost

LEMMA CalleesType ==
    ASSUME NEW by \in {"lua", "pcall", "unsafe", "protected"}, NEW msgh \in BOOLEAN,
           NEW f \in Callees(by, msgh)
    PROVE  f \in Call /\ f.by = by /\ ("raw" \notin Uses => f.code # "raw") /\ Plain(f)
<1>1. CASE f = NewCall("script", by, msgh, 0, FALSE)
  BY <1>1 DEF NewCall, Call, Plain
<1>2. CASE \E own \in (0 .. 1) \X BOOLEAN : f = NewCall("bound", by, msgh, own[1], own[2])
  BY <1>2 DEF NewCall, Call, Plain
<1>3. CASE "raw" \in Uses /\ f = NewCall("raw", by, msgh, 0, FALSE)
  BY <1>3 DEF NewCall, Call, Plain
<1>4. \/ f = NewCall("script", by, msgh, 0, FALSE)
      \/ \E own \in (0 .. 1) \X BOOLEAN : f = NewCall("bound", by, msgh, own[1], own[2])
      \/ "raw" \in Uses /\ f = NewCall("raw", by, msgh, 0, FALSE)
  BY DEF Callees
<1> QED BY <1>1, <1>2, <1>3, <1>4

\* Any call.
LEMMA EnterKeeps ==
    ASSUME IInv, NEW f \in Call, f.by \in {"lua", "pcall", "unsafe", "protected"},
           "raw" \notin Uses => f.code # "raw", Plain(f),
           build = "c" /\ Top.locals = 1 => f.by = "protected",
           Hushed /\ Top.quiet => f.by = "protected",
           Enter(f)
    PROVE  IInv'
<1> USE StateFacts
<1>1. /\ flight = None /\ Len(frames) < MaxFrames + Pending
      /\ frames' = Append(frames, f) /\ ci' = ci + 1
      /\ jumps' = IF Protects(f) THEN Append(jumps, Len(frames) + 1) ELSE jumps
      /\ alive' = alive + f.locals
      /\ got' = Nothing /\ build' = build /\ flight' = None
  BY DEF Enter
<1>2. f.by # "handler"
  OBVIOUS
<1>3. StackSound'
  BY <1>1, <1>2, Pushing DEF IInv
<1>4. jumps' \in Places
  <2>1. Append(jumps, Len(frames) + 1) \in Places
    <3>1. Len(frames) + 1 \in Nat \ {0}
      OBVIOUS
    <3> QED BY <3>1, AppendProperties DEF Places
  <2> QED BY <1>1, <2>1
<1>5. ValuesTyped'
  BY <1>1, <1>4 DEF ValuesTyped, IInv
<1>6. ASSUME Sane PROVE ErrorsSound'
  <2>1. Sound(frames, jumps) /\ HandlersSound /\ CallsKnown
    BY <1>6 DEF IInv, ErrorsSound
  <2>2. Sound(frames', jumps')
    <3>1. CASE Protects(f)
      BY <1>1, <2>1, <3>1, SoundProtected
    <3>2. CASE ~Protects(f)
      BY <1>1, <2>1, <3>2, SoundPushed
    <3> QED BY <3>1, <3>2
  <2>3. HandlersSound'
    BY <1>1, <1>2, <2>1, HandlersPushed
  <2>4. Len(frames') = Len(frames) + 1
    BY <1>1, Pushed
  <2>5. CallsKnown'
    BY <1>1, <2>1, <2>4, ConstantFacts DEF CallsKnown
  <2>6. FlightSound' /\ GotSound'
    BY <1>1 DEF FlightSound, GotSound
  <2> QED BY <2>2, <2>3, <2>5, <2>6 DEF ErrorsSound
<1>7. Sane' => Sane
  BY <1>1 DEF Sane
<1> QED BY <1>3, <1>5, <1>6, <1>7 DEF IInv

LEMMA CallsKeep ==
    ASSUME Disciplined, IInv, CallUnsafe \/ CallProtected \/ CallFromScript
    PROVE  IInv'
<1>1. build = "c" => "longjmp" \notin Uses
  BY StateFacts DEF Disciplined
<1>2. Top.locals \in {0, 1} /\ Top.quiet \in BOOLEAN
  BY StateFacts DEF Call
<1>3. CASE CallUnsafe
  <2>1. PICK f \in Callees("unsafe", FALSE) : Enter(f)
    BY <1>3 DEF CallUnsafe
  <2>2. f \in Call /\ f.by = "unsafe" /\ ("raw" \notin Uses => f.code # "raw") /\ Plain(f)
    BY CalleesType
  <2>3. /\ ~(build = "c" /\ Top.locals = 1)
        /\ ~(Hushed /\ Top.quiet)
    BY <1>1, <1>2, <1>3 DEF CallUnsafe, MayRaise, Hushed
  <2> QED BY <2>1, <2>2, <2>3, EnterKeeps
<1>4. CASE CallProtected
  <2>1. PICK msgh \in BOOLEAN : \E f \in Callees("protected", msgh) : Enter(f)
    BY <1>4 DEF CallProtected
  <2>2. PICK f \in Callees("protected", msgh) : Enter(f)
    BY <2>1
  <2>3. f \in Call /\ f.by = "protected" /\ ("raw" \notin Uses => f.code # "raw") /\ Plain(f)
    BY CalleesType
  <2> QED BY <2>2, <2>3, EnterKeeps
<1>5. CASE CallFromScript
  <2>1. PICK by \in {"lua", "pcall"} : \E f \in Callees(by, FALSE) : Enter(f)
    BY <1>5 DEF CallFromScript
  <2>2. PICK f \in Callees(by, FALSE) : Enter(f)
    BY <2>1
  <2>3. f \in Call /\ f.by = by /\ ("raw" \notin Uses => f.code # "raw") /\ Plain(f)
    BY CalleesType
  <2>4. Top.locals # 1 /\ ~Top.quiet
    <3>1. Len(frames) \in DOMAIN frames /\ Top = frames[Len(frames)]
      BY StateFacts, StackFacts
    <3>2. Plain(Top)
      BY <3>1 DEF IInv, StackSound, CodeSound
    <3> QED BY <1>5, <3>2 DEF CallFromScript, Plain
  <2> QED BY <2>2, <2>3, <2>4, EnterKeeps
<1> QED BY <1>3, <1>4, <1>5

LEMMA FrontPlaces ==
    ASSUME NEW js \in Places
    PROVE  Front(js) \in Places
<1> DEFINE q == Len(js) - 1
<1>1. q \in Int /\ \A i \in 1 .. q : js[i] \in Nat \ {0}
  BY PlaceFacts
<1> HIDE DEF q
<1>2. SubSeq(js, 1, q) \in Seq(Nat \ {0})
  BY <1>1, SubSeqProperties
<1> QED BY <1>2 DEF Front, Places, q

\* The top call ends and its objects with it.
LEMMA PoppedKeeps ==
    ASSUME IInv, Len(frames) > 1,
           frames' = Front(frames), alive' = alive - Top.locals, build' = build
    PROVE  /\ StackSound' /\ frames' = SubSeq(frames, 1, Len(frames) - 1)
           /\ frames' \in Seq(Call) /\ frames' # <<>>
           /\ Len(frames') = Len(frames) - 1 /\ Top' = frames[Len(frames) - 1]
           /\ \A i \in 1 .. Len(frames) - 1 : frames'[i] = frames[i]
           /\ build = "c" /\ Top.by # "protected" => Top'.locals = 0
           /\ Hushed /\ Top.by # "protected" => ~Top'.quiet
<1> DEFINE m == Len(frames) - 1
<1>1. /\ frames \in Seq(Call) /\ Len(frames) \in Nat \ {0} /\ StackSound
      /\ alive = Cardinality(Holding(frames)) /\ Top = frames[Len(frames)]
  BY StateFacts DEF IInv
<1>2. /\ Front(frames) = SubSeq(frames, 1, m) /\ m \in 1 .. Len(frames)
      /\ Cardinality(Holding(Front(frames))) = Cardinality(Holding(frames)) - Last(frames).locals
  BY <1>1, Popped
<1>3. StackSound'
  <2> HIDE DEF m
  <2>1. alive' = Cardinality(Holding(SubSeq(frames, 1, m)))
    BY <1>1, <1>2 DEF Top
  <2> QED BY <1>1, <1>2, <2>1, Leaving
<1>4. m \in 0 .. Len(frames)
  BY <1>2
<1>5. /\ SubSeq(frames, 1, m) \in Seq(Call) /\ Len(SubSeq(frames, 1, m)) = m
      /\ \A i \in 1 .. m : SubSeq(frames, 1, m)[i] = frames[i]
      /\ m > 0 => SubSeq(frames, 1, m) # <<>>
  <2> HIDE DEF m
  <2> QED BY <1>1, <1>4, Cut
<1>6. /\ frames' \in Seq(Call) /\ Len(frames') = m /\ frames' # <<>>
      /\ \A i \in 1 .. m : frames'[i] = frames[i]
  BY <1>2, <1>5
<1>7. Top' = frames[m]
  <2>1. Last(frames)' = frames'[Len(frames')]
    BY DEF Last
  <2>2. m \in 1 .. m
    BY <1>1, <1>2
  <2> QED BY <1>6, <2>1, <2>2 DEF Top
<1>8. m \in 1 .. Len(frames) - 1 /\ frames[m + 1] = Top /\ frames[m] \in Call
  BY <1>1, <1>2, StackFacts
<1>9. build = "c" /\ Top.by # "protected" => frames[m].locals = 0
  BY <1>8 DEF IInv, StackSound, LocalsSound, Call
<1>10. Hushed /\ Top.by # "protected" => ~frames[m].quiet
  BY <1>8 DEF IInv, StackSound, QuietSound
<1> QED BY <1>2, <1>3, <1>6, <1>7, <1>9, <1>10

\* An unprotected call that ends leaves the places, a protected one takes its own away.
LEMMA PoppedSound ==
    ASSUME IInv, Sane, Len(frames) > 1, frames' = Front(frames), alive' = alive - Top.locals,
           build' = build,
           jumps' = IF Protects(Top) THEN Front(jumps) ELSE jumps
    PROVE  Sound(frames', jumps') /\ HandlersSound'
<1> DEFINE m == Len(frames) - 1
<1>1. /\ frames \in Seq(Call) /\ Len(frames) \in Nat \ {0} /\ jumps \in Places
      /\ Top = frames[Len(frames)] /\ Sound(frames, jumps) /\ HandlersSound
  BY StateFacts DEF IInv, ErrorsSound
<1>2. frames' = SubSeq(frames, 1, m)
  BY PoppedKeeps
<1>3. m \in 0 .. Len(frames)
  BY <1>1
<1>4. HandlersSound'
  <2> HIDE DEF m
  <2> QED BY <1>1, <1>2, <1>3, HandlersLeft
<1>5. CASE Protects(Top)
  <2>1. jumps # <<>> /\ Last(jumps) = Len(frames)
    BY <1>5, TopKnown
  <2>2. Sound(SubSeq(frames, 1, Last(jumps) - 1), Front(jumps))
    BY <1>1, <2>1, SoundEnded
  <2> QED BY <1>2, <1>4, <1>5, <2>1, <2>2
<1>6. CASE ~Protects(Top)
  <2>1. \A k \in m + 1 .. Len(frames) : ~Protects(frames[k])
    BY <1>1, <1>6
  <2> HIDE DEF m
  <2>2. Sound(SubSeq(frames, 1, m), jumps)
    BY <1>1, <1>3, <2>1, SoundLeft
  <2> QED BY <1>2, <1>4, <1>6, <2>2
<1> QED BY <1>5, <1>6

LEMMA ReturnKeeps ==
    ASSUME IInv, Return
    PROVE  IInv'
<1> DEFINE n == Len(frames)
<1>1. /\ flight = None /\ n > 1 /\ frames' = Front(frames) /\ ci' = ci - 1
      /\ jumps' = IF Protects(Top) THEN Front(jumps) ELSE jumps
      /\ alive' = alive - Top.locals
      /\ flight' = IF Top.by # "handler" THEN None
                   ELSE [Top.cause EXCEPT !.how = "lua", !.via = Append(@, "handler")]
      /\ got' = Nothing /\ build' = build
  BY DEF Return
<1>2. /\ frames \in Seq(Call) /\ n \in Nat \ {0} /\ jumps \in Places
      /\ Top = frames[n] /\ n <= MaxFrames + MaxHandlers
  BY StateFacts, ConstantFacts
<1>3. /\ StackSound' /\ frames' \in Seq(Call) /\ Len(frames') = n - 1
      /\ Top' = frames[n - 1]
      /\ \A i \in 1 .. n - 1 : frames'[i] = frames[i]
      /\ build = "c" /\ Top.by # "protected" => Top'.locals = 0
      /\ Hushed /\ Top.by # "protected" => ~Top'.quiet
  BY <1>1, PoppedKeeps
<1>4. ASSUME Top.by = "handler"
      PROVE  /\ Top.cause \in Error /\ n \in Handlers(frames)
             /\ flight' \in Error /\ flight'.how = "lua" /\ flight'.value = Top.cause.value
             /\ flight'.via = Append(Top.cause.via, "handler")
             /\ flight'.due = Top.cause.due
  <2>1. n \in Handlers(frames)
    BY <1>2, <1>4, StackFacts DEF Handlers
  <2>2. Top.cause \in Error
    BY <1>2, <2>1 DEF IInv, StackSound, CallsTyped
  <2>3. Append(Top.cause.via, "handler") \in Seq(Through)
    BY <2>2, AppendProperties DEF Error, Through
  <2>4. flight' = [Top.cause EXCEPT !.how = "lua", !.via = Append(Top.cause.via, "handler")]
    BY <1>1, <1>4
  <2> QED BY <2>1, <2>2, <2>3, <2>4 DEF Error
<1>5. jumps' \in Places
  BY <1>1, <1>2, FrontPlaces
<1>6. ValuesTyped'
  BY <1>1, <1>4, <1>5 DEF ValuesTyped, IInv
<1>7. ASSUME Sane PROVE ErrorsSound'
  <2>1. Sound(frames', jumps') /\ HandlersSound'
    BY <1>1, <1>7, PoppedSound
  <2>2. CallsKnown'
    <3>1. ci = n
      BY <1>1, <1>7 DEF IInv, ErrorsSound, CallsKnown
    <3> QED BY <1>1, <1>2, <1>3, <3>1, ConstantFacts DEF CallsKnown
  <2>3. GotSound'
    BY <1>1 DEF GotSound
  <2>4. FlightSound'
    <3>1. CASE Top.by # "handler"
      BY <1>1, <3>1 DEF FlightSound
    <3>2. CASE Top.by = "handler"
      <4> DEFINE to == Top.cause.due.to
                 m == n - 1
      <4>1. HandlerSound(frames, n)
        BY <1>4, <1>7, <3>2 DEF IInv, ErrorsSound, HandlersSound
      <4>2. /\ Top.cause.due.value = Top.cause.value
            /\ Top.cause.due.via = Append(Top.cause.via, "handler")
            /\ Innermost(frames, m, to)
        BY <1>2, <4>1 DEF HandlerSound
      <4>3. m \in Nat /\ \A k \in 1 .. m : frames'[k].by = frames[k].by
        BY <1>2, <1>3
      <4> HIDE DEF m, to
      <4>4. Innermost(frames', m, to)
        BY <4>2, <4>3, InnermostKept
      <4>5. to \in 1 .. m /\ Protects(frames'[to]) /\ DOMAIN frames' = 1 .. m
        BY <1>3, <4>4, StackFacts DEF Innermost, m
      <4>6. jumps' # <<>>
        BY <1>3, <2>1, <4>5, SoundEmpty
      <4>7. Innermost(frames', m, Last(jumps'))
        BY <1>3, <1>5, <2>1, <4>6, SoundLast DEF m
      <4>8. to = Last(jumps')
        BY <4>3, <4>4, <4>7, InnermostOne
      <4>9. Top.cause.due \in Due
        BY <1>4, <3>2 DEF Error
      <4>10. Top.cause.due = [value |-> Top.cause.due.value, via |-> Top.cause.due.via, to |-> to]
        BY <4>9 DEF Due, to
      <4>11. flight'.due = [value |-> flight'.value, via |-> flight'.via, to |-> Last(jumps')]
        BY <1>4, <3>2, <4>2, <4>8, <4>10
      <4>12. flight'.how = "lua" /\ Top.by # "protected"
        BY <1>4, <3>2
      <4> QED BY <1>1, <1>3, <4>6, <4>11, <4>12 DEF FlightSound, Hushed, Sane
    <3> QED BY <3>1, <3>2
  <2> QED BY <2>1, <2>2, <2>3, <2>4 DEF ErrorsSound
<1>8. Sane' => Sane
  BY <1>1 DEF Sane
<1> QED BY <1>3, <1>6, <1>7, <1>8 DEF IInv

LEMMA StackSame ==
    ASSUME StackSound, frames' = frames, alive' = alive, build' = build
    PROVE  StackSound' /\ Top' = Top
BY DEF StackSound, CallsTyped, Bounded, AliveSound, LocalsSound, QuietSound, CodeSound,
       Handlers, OwnCall, Holding, Top, Last, Plain, Hushed, Sane

LEMMA HandlersSame ==
    ASSUME HandlersSound, frames' = frames
    PROVE  HandlersSound'
BY DEF HandlersSound, Handlers, HandlerSound, Innermost, Protects

\* An error is raised: its handler is called, or it takes off.
LEMMA ErrorKeeps ==
    ASSUME Disciplined, IInv, NEW e \in Error, lua_error(e), UNCHANGED <<build, alive, jumps>>,
           got' = Nothing,
           Sane => e.due = DueFor(e.value, e.via) /\ (flight = None \/ build = "c"),
           build = "c" => Top.locals = 0,
           Hushed => ~Top.quiet
    PROVE  IInv'
<1> DEFINE n == Len(frames)
<1>1. /\ frames \in Seq(Call) /\ n \in Nat \ {0} /\ jumps \in Places /\ StackSound
      /\ Top = frames[n] /\ n <= MaxFrames + Pending /\ Pending \in 0 .. MaxHandlers
      /\ Pending = Cardinality(Handlers(frames)) /\ build \in Builds
      /\ build \in {"c", "cxx", "cxx_unsafe"} /\ frames # <<>>
  BY StateFacts DEF IInv
<1>2. e.value \in Values /\ e.via \in Seq(Through) /\ e.due \in Due
  BY DEF Error
<1>3. /\ DueFor(e.value, e.via) \in Due
      /\ DueFor(e.value, e.via).value =
            IF HandlerDue /\ Pending = MaxHandlers THEN ErrErr ELSE e.value
      /\ DueFor(e.value, e.via).via =
            IF HandlerDue /\ Pending < MaxHandlers THEN Append(e.via, "handler") ELSE e.via
      /\ jumps # <<>> => DueFor(e.value, e.via).to = Last(jumps)
  BY <1>2, DueType
<1>4. build' = build /\ alive' = alive /\ jumps' = jumps /\ (Sane' <=> Sane)
  BY DEF Sane
<1>5. ASSUME flight' \in Error \cup {None} PROVE ValuesTyped'
  BY <1>1, <1>4, <1>5 DEF ValuesTyped
<1>6. ASSUME Sane
      PROVE  /\ Sound(frames, jumps) /\ HandlersSound /\ ci = n
             /\ jumps # <<>> => Innermost(frames, n, Last(jumps))
  BY <1>6, InnermostFacts DEF IInv, ErrorsSound, CallsKnown
<1>7. GotSound'
  BY DEF GotSound
<1>8. CASE Panic(e)
  <2>1. "panic" \in Uses /\ frames' = frames
        /\ flight' = [e EXCEPT !.how = "exception", !.kind = "std"]
    BY <1>8 DEF Panic
  <2>2. flight' \in Error
    BY <2>1 DEF Error, Thrown
  <2>3. ~Sane
    BY <1>1, <2>1 DEF Sane, Disciplined
  <2> QED BY <1>1, <1>4, <1>5, <2>1, <2>2, <2>3, StackSame DEF IInv
<1>9. CASE CallHandler(e)
  <2>1. /\ HandlerDue /\ Pending < MaxHandlers /\ ci' = ci + 1 /\ flight' = None
    BY <1>9 DEF CallHandler
  <2>2. PICK g \in {NewCall("script", "handler", FALSE, 0, FALSE),
                    NewCall("bound", "handler", FALSE, 0, FALSE)} :
               frames' = Append(frames, [g EXCEPT !.cause = e])
    BY <1>9 DEF CallHandler
  <2>3. PICK f : f = [g EXCEPT !.cause = e]
    OBVIOUS
  <2>4. /\ f \in Call /\ f.by = "handler" /\ f.locals = 0 /\ Plain(f) /\ f.code # "raw"
        /\ ~Protects(f) /\ f.cause = e
    <3>1. PICK c \in {"script", "bound"} : g = NewCall(c, "handler", FALSE, 0, FALSE)
      BY Zenon
    <3>2. f = [code |-> c, by |-> "handler", msgh |-> FALSE, locals |-> 0, quiet |-> FALSE,
               cause |-> e]
      BY <2>3, <3>1 DEF NewCall
    <3> QED BY <3>2 DEF Call, Plain, Protects
  <2>5. frames' = Append(frames, f)
    BY <2>2, <2>3
  <2>6. StackSound'
    <3>1. alive' = alive + f.locals
      BY <1>1, <1>4, <2>4, StateFacts
    <3>2. /\ build = "c" /\ Top.locals = 1 => f.by = "protected"
          /\ Hushed /\ Top.quiet => f.by = "protected"
      OBVIOUS
    <3> QED BY <1>1, <1>4, <2>1, <2>4, <2>5, <3>1, <3>2, Pushing
  <2>7. ASSUME Sane PROVE ErrorsSound'
    <3>1. Sound(frames', jumps')
      BY <1>1, <1>4, <1>6, <2>4, <2>5, <2>7, SoundPushed
    <3>2. /\ Len(frames') = n + 1 /\ frames'[n + 1] = f
          /\ \A k \in 1 .. n : frames'[k] = frames[k]
      BY <1>1, <2>4, <2>5, Pushed
    <3>3. HandlersSound'
      <4> DEFINE m == n + 1
      <4>1. jumps # <<>>
        BY <2>1 DEF HandlerDue
      <4>2. Innermost(frames, n, Last(jumps))
        BY <1>6, <2>7, <4>1
      <4>3. n \in Nat /\ \A k \in 1 .. n : frames'[k].by = frames[k].by
        BY <1>1, <3>2
      <4>4. Innermost(frames', n, Last(jumps))
        <5> HIDE DEF n
        <5> QED BY <4>2, <4>3, InnermostKept
      <4>5. /\ e.due.value = e.value /\ e.due.via = Append(e.via, "handler")
            /\ e.due.to = Last(jumps)
        BY <1>1, <1>3, <2>1, <2>7, <4>1, SMTT(40)
      <4>6. frames'[m].cause = e /\ m - 1 = n
        BY <1>1, <2>4, <3>2
      <4>7. HandlerSound(frames', m)
        <5> HIDE DEF m, n
        <5> QED BY <4>4, <4>5, <4>6 DEF HandlerSound
      <4> QED BY <1>1, <1>6, <2>4, <2>5, <2>7, <4>7, HandlersPushed
    <3>4. CallsKnown'
      BY <1>1, <1>6, <2>1, <2>7, <3>2, ConstantFacts DEF CallsKnown
    <3>5. FlightSound'
      BY <2>1 DEF FlightSound
    <3> QED BY <1>7, <3>1, <3>3, <3>4, <3>5 DEF ErrorsSound
  <2> QED BY <1>4, <1>5, <2>1, <2>6, <2>7 DEF IInv
<1>10. CASE TakeOff(e)
  <2>1. /\ jumps # <<>> /\ (HandlerDue => Pending = MaxHandlers)
        /\ flight' = [e EXCEPT !.how = "lua", !.value = IF HandlerDue THEN ErrErr ELSE e.value]
        /\ frames' = frames /\ ci' = ci
    BY <1>10 DEF TakeOff
  <2>2. ErrErr \in Values
    BY ConstantFacts DEF Values, ErrErr
  <2>3. /\ flight' \in Error /\ flight'.how = "lua" /\ flight'.via = e.via
        /\ flight'.value = (IF HandlerDue THEN ErrErr ELSE e.value)
        /\ flight'.due = e.due
    BY <1>2, <2>1, <2>2 DEF Error
  <2>4. StackSound' /\ Top' = Top
    BY <1>1, <1>4, <2>1, StackSame
  <2>5. ASSUME Sane PROVE ErrorsSound'
    <3>1. e.due.value = flight'.value /\ e.due.via = flight'.via /\ e.due.to = Last(jumps)
      BY <1>1, <1>3, <2>1, <2>3, <2>5
    <3>2. e.due = [value |-> e.due.value, via |-> e.due.via, to |-> e.due.to]
      BY <1>2 DEF Due
    <3>3. flight'.due = [value |-> flight'.value, via |-> flight'.via, to |-> Last(jumps)']
      BY <1>4, <2>3, <3>1, <3>2
    <3>4. FlightSound'
      BY <1>4, <2>1, <2>3, <2>4, <3>3 DEF FlightSound, Hushed, Sane
    <3>5. HandlersSound' /\ Sound(frames', jumps')
      BY <1>4, <1>6, <2>1, <2>5, HandlersSame
    <3>6. CallsKnown'
      BY <1>1, <1>4, <1>6, <2>1, <2>5, ConstantFacts DEF CallsKnown
    <3> QED BY <1>7, <3>4, <3>5, <3>6 DEF ErrorsSound
  <2> QED BY <1>4, <1>5, <2>3, <2>4, <2>5 DEF IInv
<1> QED BY <1>8, <1>9, <1>10 DEF lua_error

LEMMA RaiseErrorKeeps ==
    ASSUME Disciplined, IInv, RaiseError
    PROVE  IInv'
<1>1. PICK e : e = [how |-> "lua", kind |-> "other", inside |-> TRUE, value |-> Pending,
                    via |-> <<>>, due |-> DueFor(Pending, <<>>)]
  OBVIOUS
<1>2. /\ flight = None /\ MayRaise /\ lua_error(e)
      /\ got' = Nothing /\ UNCHANGED <<build, alive, jumps>>
  BY <1>1 DEF RaiseError
<1>3. Pending \in Values /\ <<>> \in Seq(Through)
  BY StateFacts, ConstantFacts, EmptySeq DEF Values
<1>4. DueFor(Pending, <<>>) \in Due
  BY <1>3, DueType
<1>5. e \in Error /\ e.value = Pending /\ e.via = <<>> /\ e.due = DueFor(Pending, <<>>)
  BY <1>1, <1>3, <1>4 DEF Error, Thrown
<1>6. e.due = DueFor(e.value, e.via)
  BY <1>5
<1>7. build = "c" => Top.locals = 0
  BY <1>2, StateFacts DEF MayRaise, Disciplined, Call
<1>8. Hushed => ~Top.quiet
  BY <1>2 DEF MayRaise, Hushed
<1> QED BY <1>2, <1>5, <1>6, <1>7, <1>8, ErrorKeeps

LEMMA RethrowKeeps ==
    ASSUME Disciplined, IInv, flight # None, Rethrow
    PROVE  IInv'
<1>1. PICK e : e = flight
  OBVIOUS
<1>2. /\ flight.how = "caught" /\ lua_error(e)
      /\ got' = Nothing /\ UNCHANGED <<build, alive, jumps>>
  BY <1>1 DEF Rethrow
<1>3. e \in Error
  BY <1>1, StateFacts
<1>4. ASSUME Sane
      PROVE  /\ build = "c" /\ e.due = DueFor(e.value, e.via) /\ Top.locals = 0
  BY <1>1, <1>2, <1>4 DEF IInv, ErrorsSound, FlightSound
<1>5. build = "c" => Sane
  BY DEF Sane
<1>6. ~Hushed
  BY <1>4 DEF Hushed
<1> QED BY <1>2, <1>3, <1>4, <1>5, <1>6, ErrorKeeps

\* Nothing but the error changes.
LEMMA ThrowKeeps ==
    ASSUME Disciplined, IInv, NEW kind \in Thrown, Throw(kind)
    PROVE  IInv'
<1> DEFINE due == DueFor(IF kind = "other" THEN Generic ELSE Pending,
                         <<"exception_handler">>)
<1>1. /\ flight = None /\ Handled /\ Top.code \in {"bound", "raw"} /\ ~Top.quiet
      /\ flight' = [how |-> "exception", kind |-> kind, inside |-> TRUE, value |-> Pending,
                    via |-> <<>>, due |-> due]
      /\ got' = Nothing /\ build' = build /\ frames' = frames /\ alive' = alive
      /\ ci' = ci /\ jumps' = jumps
  BY DEF Throw
<1>2. /\ jumps \in Places /\ build \in {"c", "cxx", "cxx_unsafe"} /\ StackSound
      /\ frames \in Seq(Call) /\ Len(frames) \in Nat \ {0} /\ Top = frames[Len(frames)]
      /\ build \in Builds
  BY StateFacts DEF IInv
<1>3. /\ Pending \in Values /\ Generic \in Values /\ Garbage \in Values
      /\ <<>> \in Seq(Through) /\ <<"exception_handler">> \in Seq(Through)
  <2>1. Pending \in 0 .. MaxHandlers
    BY StateFacts
  <2>2. Pending \in Values /\ Generic \in Values /\ Garbage \in Values
    BY <2>1, ConstantFacts DEF Values, Generic, Garbage
  <2>3. "exception_handler" \in Through
    BY DEF Through
  <2> QED BY <2>2, <2>3, EmptySeq
<1>4. (IF kind = "other" THEN Generic ELSE Pending) \in Values
  BY <1>3
<1>5. due \in Due
  BY <1>3, <1>4, DueType
<1>6. jumps # <<>> => due.to = Last(jumps)
  BY <1>3, <1>4, DueType
<1>7. OfException(due)
  BY <1>3, <1>4, ExceptionDue
<1> HIDE DEF due
<1>8. flight' \in Error
  BY <1>1, <1>3, <1>5 DEF Error
<1>9. ValuesTyped'
  BY <1>1, <1>2, <1>8 DEF ValuesTyped
<1>10. StackSound' /\ Top' = Top
  BY <1>1, <1>2, StackSame
<1>11. Sane' <=> Sane
  BY <1>1 DEF Sane
<1>12. ASSUME Sane PROVE ErrorsSound'
  <2>1. Sound(frames, jumps) /\ HandlersSound /\ CallsKnown
    BY <1>12 DEF IInv, ErrorsSound
  <2>2. HandlersSound' /\ Sound(frames', jumps')
    BY <1>1, <2>1, HandlersSame
  <2>3. CallsKnown'
    BY <1>1, <2>1 DEF CallsKnown
  <2>4. GotSound'
    BY <1>1 DEF GotSound
  <2>5. jumps # <<>>
    BY <1>1, <1>2, <1>12 DEF Handled, Sane, Disciplined
  <2>6. /\ flight' # None /\ flight'.how = "exception" /\ flight'.via = <<>>
        /\ flight'.due = due /\ flight'.kind = kind /\ flight'.value = Pending /\ flight'.inside
    BY <1>1 DEF None
  <2>7. build = "c" =>
           /\ Top'.code = "bound" /\ ~Top'.quiet
           /\ flight'.due = DueFor(Message, <<"exception_handler">>)'
    <3>1. SUFFICES ASSUME build = "c"
                   PROVE  /\ Top'.code = "bound" /\ ~Top'.quiet
                          /\ flight'.due = DueFor(Message, <<"exception_handler">>)'
      OBVIOUS
    <3>2. "raw" \notin Uses
      BY <1>2, <3>1 DEF Disciplined
    <3>3. Top.code # "raw"
      <4>1. Len(frames) \in DOMAIN frames
        BY <1>2, StackFacts
      <4> QED BY <1>2, <3>2, <4>1 DEF IInv, StackSound, CodeSound
    <3>4. Message' = IF kind = "other" THEN Generic ELSE Pending
      BY <2>6 DEF Message
    <3>5. Pending' = Pending /\ HandlerDue' = HandlerDue
      BY <1>1 DEF Pending, HandlerDue
    <3>6. DueFor(Message, <<"exception_handler">>)' =
             DueFor(IF kind = "other" THEN Generic ELSE Pending, <<"exception_handler">>)
      BY <1>1, <3>4, <3>5 DEF DueFor
    <3>7. flight'.due = DueFor(IF kind = "other" THEN Generic ELSE Pending, <<"exception_handler">>)
      BY <2>6 DEF due
    <3> QED BY <1>1, <1>10, <3>3, <3>6, <3>7
  <2>8. flight'.due.to = Last(jumps) /\ OfException(flight'.due)
    BY <1>6, <1>7, <2>5, <2>6
  <2>9. FlightSound'
    BY <1>1, <1>10, <2>5, <2>6, <2>7, <2>8 DEF FlightSound, Hushed, Sane
  <2> QED BY <2>2, <2>3, <2>4, <2>9 DEF ErrorsSound
<1> QED BY <1>9, <1>10, <1>11, <1>12 DEF IInv

LEMMA TerminateKeeps ==
    ASSUME IInv, flight # None, Terminate
    PROVE  IInv'
<1>1. /\ InTheAir /\ flight.inside /\ Top.quiet
      /\ flight' = [flight EXCEPT !.how = "terminated"]
      /\ got' = Nothing /\ build' = build /\ frames' = frames /\ alive' = alive
      /\ ci' = ci /\ jumps' = jumps
  BY DEF Terminate
<1>2. flight' \in Error /\ flight'.how = "terminated" /\ flight' # None
  BY <1>1, StateFacts DEF Error, None
<1>3. ValuesTyped'
  BY <1>1, <1>2 DEF ValuesTyped, IInv
<1>4. StackSound' /\ Top' = Top
  BY <1>1, StackSame DEF IInv
<1>5. ASSUME Sane PROVE ErrorsSound'
  <2>1. Sound(frames, jumps) /\ HandlersSound /\ CallsKnown /\ FlightSound
    BY <1>5 DEF IInv, ErrorsSound
  <2>2. HandlersSound' /\ Sound(frames', jumps')
    BY <1>1, <2>1, HandlersSame
  <2>3. build # "c" /\ ~Hushed
    BY <1>1, <2>1 DEF FlightSound, InTheAir
  <2>4. CallsKnown' /\ GotSound'
    BY <1>1, <1>2, <2>1, <2>3 DEF CallsKnown, GotSound
  <2>5. FlightSound'
    BY <1>1, <1>2, <2>1, <2>3 DEF FlightSound, Hushed, Sane
  <2> QED BY <2>2, <2>4, <2>5 DEF ErrorsSound
<1>6. Sane' <=> Sane
  BY <1>1 DEF Sane
<1> QED BY <1>3, <1>4, <1>5, <1>6 DEF IInv

\* The program's own catch.
LEMMA CatchInProgramKeeps ==
    ASSUME IInv, flight # None, CatchInProgram
    PROVE  IInv'
<1>1. /\ InTheAir /\ (Len(frames) > 1 => "catch" \in Uses)
      /\ flight' = None
      /\ got' = Nothing /\ build' = build /\ frames' = frames /\ alive' = alive
      /\ ci' = ci /\ jumps' = jumps
  BY DEF CatchInProgram
<1>2. ValuesTyped'
  BY <1>1 DEF ValuesTyped, IInv
<1>3. StackSound'
  BY <1>1, StackSame DEF IInv
<1>4. ASSUME Sane PROVE ErrorsSound'
  <2>1. Sound(frames, jumps) /\ HandlersSound /\ CallsKnown /\ FlightSound
    BY <1>4 DEF IInv, ErrorsSound
  <2>2. HandlersSound' /\ Sound(frames', jumps')
    BY <1>1, <2>1, HandlersSame
  <2>3. jumps # <<>> /\ Len(frames) \in Nat
    BY <2>1, StateFacts DEF FlightSound
  <2>4. Last(jumps) \in 2 .. Len(frames)
    BY <1>4, <2>3, InnermostFacts
  <2>5. build = "c"
    BY <1>1, <1>4, <2>3, <2>4 DEF Sane
  <2>6. CallsKnown' /\ GotSound' /\ FlightSound'
    BY <1>1, <2>1, <2>5 DEF CallsKnown, GotSound, FlightSound
  <2> QED BY <2>2, <2>6 DEF ErrorsSound
<1>5. Sane' <=> Sane
  BY <1>1 DEF Sane
<1> QED BY <1>2, <1>3, <1>4, <1>5 DEF IInv

\* The top call's objects are destroyed.
LEMMA DestroyedKeeps ==
    ASSUME IInv, frames' = [frames EXCEPT ![Len(frames)].locals = 0],
           alive' = alive - Top.locals, build' = build
    PROVE  /\ StackSound' /\ frames' \in Seq(Call) /\ Len(frames') = Len(frames)
           /\ Top' = [Top EXCEPT !.locals = 0] /\ Top'.locals = 0
           /\ \A k \in 1 .. Len(frames) :
                 /\ frames'[k].by = frames[k].by /\ frames'[k].cause = frames[k].cause
                 /\ frames'[k].msgh = frames[k].msgh
           /\ Handlers(frames') = Handlers(frames)
<1> DEFINE n == Len(frames)
           f == [Top EXCEPT !.locals = 0]
<1>1. /\ frames \in Seq(Call) /\ n \in Nat \ {0} /\ StackSound /\ DOMAIN frames = 1 .. n
      /\ alive = Cardinality(Holding(frames)) /\ Top = frames[n] /\ Top \in Call
      /\ IsFiniteSet(Holding(frames))
  BY StateFacts, StackFacts DEF IInv
<1>2. /\ f \in Call /\ f.locals = 0 /\ f.by = Top.by /\ f.cause = Top.cause
      /\ f.msgh = Top.msgh /\ f.code = Top.code /\ f.quiet = Top.quiet
  BY <1>1 DEF Call
<1>3. frames' = [frames EXCEPT ![n] = f]
  BY <1>1
<1> HIDE DEF n, f
<1>4. n \in 1 .. n
  BY <1>1
<1>5. /\ [frames EXCEPT ![n] = f] \in Seq(Call) /\ Len([frames EXCEPT ![n] = f]) = n
      /\ \A j \in 1 .. n : [frames EXCEPT ![n] = f][j] = IF j = n THEN f ELSE frames[j]
  BY <1>1, <1>2, <1>4, ExceptSeq DEF n
<1>6. /\ frames' \in Seq(Call) /\ Len(frames') = n /\ DOMAIN frames' = 1 .. n
      /\ frames'[n] = f /\ \A j \in 1 .. n : j # n => frames'[j] = frames[j]
  <2>1. /\ frames' \in Seq(Call) /\ Len(frames') = n /\ frames'[n] = f
        /\ \A j \in 1 .. n : j # n => frames'[j] = frames[j]
    BY <1>3, <1>4, <1>5
  <2> QED BY <2>1, StackFacts
<1>7. \A k \in 1 .. n :
         /\ frames'[k].by = frames[k].by /\ frames'[k].cause = frames[k].cause
         /\ frames'[k].msgh = frames[k].msgh
         /\ frames'[k].code = frames[k].code /\ frames'[k].quiet = frames[k].quiet
         /\ frames'[k].locals = 1 => frames[k].locals = 1
  BY <1>1, <1>2, <1>4, <1>6
<1>8. Handlers(frames') = Handlers(frames) /\ OwnCall(frames') = OwnCall(frames)
  BY <1>1, <1>6, <1>7 DEF Handlers, OwnCall
<1>9. Holding(frames') = Holding(frames) \ {n}
  BY <1>1, <1>2, <1>4, <1>6 DEF Holding
<1>10. Cardinality(Holding(frames')) = alive'
  <2>1. Cardinality(Holding(frames) \ {n}) =
           IF n \in Holding(frames) THEN Cardinality(Holding(frames)) - 1
                                    ELSE Cardinality(Holding(frames))
    BY <1>1, FS_RemoveElement
  <2>2. n \in Holding(frames) <=> Top.locals = 1
    BY <1>1, <1>4 DEF Holding
  <2>3. Top.locals \in {0, 1} /\ Cardinality(Holding(frames)) \in Nat
    BY <1>1, FS_CardinalityType DEF Call
  <2>4. CASE Top.locals = 1
    BY <1>1, <1>9, <2>1, <2>2, <2>4
  <2>5. CASE Top.locals = 0
    <3>1. Cardinality(Holding(frames')) = alive /\ alive \in Nat
      <4>1. n \notin Holding(frames)
        BY <2>2, <2>5
      <4>2. Cardinality(Holding(frames) \ {n}) = Cardinality(Holding(frames))
        BY <2>1, <4>1
      <4> QED BY <1>1, <1>9, <2>3, <4>2
    <3>2. alive' = alive - 0
      BY <2>5
    <3> QED BY <3>1, <3>2
  <2> QED BY <2>3, <2>4, <2>5
<1>11. Top' = f
  <2>1. Last(frames)' = frames'[Len(frames')]
    BY DEF Last
  <2> QED BY <1>6, <2>1 DEF Top
<1>12. CallsTyped'
  <2>1. frames' # <<>>
    BY <1>1, <1>6, EmptySeq
  <2>2. \A i \in Handlers(frames) : i \in 1 .. n
    BY <1>1 DEF Handlers
  <2> QED BY <1>1, <1>6, <1>7, <1>8, <2>1, <2>2 DEF CallsTyped, StackSound
<1>13. Bounded' /\ AliveSound'
  BY <1>1, <1>8, <1>10 DEF Bounded, AliveSound, StackSound
<1>14. \A i \in 1 .. n - 1 : i \in 1 .. n /\ i + 1 \in 1 .. n
  BY <1>1
<1>15. LocalsSound' /\ QuietSound'
  BY <1>1, <1>6, <1>7, <1>14 DEF LocalsSound, QuietSound, StackSound, Hushed, Sane, n
<1>16. CodeSound'
  <2>1. \A k \in 1 .. n : Plain(frames[k]) => Plain(frames'[k])
    BY <1>1, <1>2, <1>4, <1>6 DEF Plain
  <2>2. 1 \in 1 .. n
    BY <1>1
  <2> QED BY <1>1, <1>6, <1>7, <2>1, <2>2 DEF CodeSound, StackSound
<1>17. StackSound'
  BY <1>12, <1>13, <1>15, <1>16 DEF StackSound
<1> QED BY <1>2, <1>6, <1>7, <1>8, <1>11, <1>17 DEF n, f

LEMMA TrampolineKeeps ==
    ASSUME IInv, flight # None, Trampoline
    PROVE  IInv'
<1>1. /\ InTheAir /\ Catches
      /\ frames' = [frames EXCEPT ![Len(frames)].locals = 0]
      /\ alive' = alive - Top.locals
      /\ flight' = [flight EXCEPT !.how = "caught", !.inside = FALSE, !.value = Message,
                                  !.via = Append(flight.via, "exception_handler")]
      /\ got' = Nothing /\ build' = build /\ ci' = ci /\ jumps' = jumps
  BY DEF Trampoline, Trampolined
<1>2. /\ flight \in Error /\ frames \in Seq(Call) /\ Len(frames) \in Nat \ {0}
  BY StateFacts
<1>3. Message \in Values
  BY <1>2, ConstantFacts DEF Message, Error, Values, Generic
<1>4. Append(flight.via, "exception_handler") \in Seq(Through)
  BY <1>2, AppendProperties DEF Error, Through
<1>5. /\ flight' \in Error /\ flight'.how = "caught" /\ flight'.value = Message
      /\ flight'.via = Append(flight.via, "exception_handler") /\ flight'.due = flight.due
      /\ flight' # None
  BY <1>1, <1>2, <1>3, <1>4 DEF Error, None
<1>6. ValuesTyped'
  BY <1>1, <1>5 DEF ValuesTyped, IInv
<1>7. /\ StackSound' /\ frames' \in Seq(Call) /\ Len(frames') = Len(frames)
      /\ Top'.locals = 0
      /\ \A k \in 1 .. Len(frames) :
            /\ frames'[k].by = frames[k].by /\ frames'[k].cause = frames[k].cause
            /\ frames'[k].msgh = frames[k].msgh
      /\ Handlers(frames') = Handlers(frames)
  BY <1>1, DestroyedKeeps
<1>8. ASSUME Sane PROVE ErrorsSound'
  <2>1. Sound(frames, jumps) /\ HandlersSound /\ CallsKnown /\ FlightSound
    BY <1>8 DEF IInv, ErrorsSound
  <2>2. build = "c" /\ flight.how = "exception"
    BY <1>1, <1>8 DEF Catches, Sane, InTheAir
  <2>3. Sound(frames', jumps')
    BY <1>1, <1>2, <1>7, <2>1, SoundSame
  <2>4. HandlersSound'
    <3>1. SUFFICES ASSUME NEW i \in Handlers(frames) PROVE HandlerSound(frames', i)
      BY <1>7 DEF HandlersSound
    <3>2. i \in 1 .. Len(frames) /\ i \in Nat \ {0} /\ HandlerSound(frames, i)
      BY <1>2, <2>1, StackFacts DEF HandlersSound
    <3>3. frames'[i].cause = frames[i].cause /\ \A k \in 1 .. i : frames'[k].by = frames[k].by
      BY <1>2, <1>7, <3>2
    <3> QED BY <3>2, <3>3, HandlerKept
  <2>5. CallsKnown' /\ GotSound'
    BY <1>1, <1>7, <2>1, <2>2 DEF CallsKnown, GotSound
  <2>6. flight'.due = DueFor(flight.value, flight.via)'
    <3>1. flight.via = <<>> /\ flight.due = DueFor(Message, <<"exception_handler">>)
          /\ jumps # <<>>
      BY <2>1, <2>2 DEF FlightSound
    <3>2. flight'.via = <<"exception_handler">>
      BY <1>5, <3>1
    <3>3. Last(jumps) \in 1 .. Len(frames)
      <4>1. Last(jumps) \in 2 .. Len(frames)
        BY <1>8, <3>1, InnermostFacts
      <4> QED BY <1>2, <4>1
    <3>4. HandlerDue' <=> HandlerDue
      BY <1>1, <1>7, <3>3 DEF HandlerDue
    <3>5. Pending' = Pending
      <4>1. Pending = Cardinality(Handlers(frames))
        BY DEF Pending, Handlers
      <4>2. Pending' = Cardinality(Handlers(frames'))
        BY DEF Pending, Handlers
      <4> QED BY <1>7, <4>1, <4>2
    <3>6. DueFor(flight.value, flight.via)' = DueFor(flight'.value, flight'.via)
      <4>1. CASE HandlerDue
        BY <1>1, <3>4, <3>5, <4>1 DEF DueFor
      <4>2. CASE ~HandlerDue
        <5>1. ~HandlerDue'
          BY <3>4, <4>2
        <5>2. DueFor(flight.value, flight.via)' =
                 [value |-> flight'.value, via |-> flight'.via \o <<>>,
                  to |-> IF jumps = <<>> THEN 0 ELSE Last(jumps)]
          BY <1>1, <5>1 DEF DueFor
        <5>3. DueFor(flight'.value, flight'.via) =
                 [value |-> flight'.value, via |-> flight'.via \o <<>>,
                  to |-> IF jumps = <<>> THEN 0 ELSE Last(jumps)]
          BY <4>2 DEF DueFor
        <5> QED BY <5>2, <5>3
      <4> QED BY <4>1, <4>2
    <3> QED BY <1>5, <3>1, <3>2, <3>6
  <2>7. FlightSound'
    BY <1>1, <1>5, <1>7, <2>1, <2>2, <2>6 DEF FlightSound, Hushed
  <2> QED BY <2>3, <2>4, <2>5, <2>7 DEF ErrorsSound
<1>9. Sane' <=> Sane
  BY <1>1 DEF Sane
<1> QED BY <1>6, <1>7, <1>8, <1>9 DEF IInv

LEMMA LongjmpKeeps ==
    ASSUME IInv, flight # None, Longjmp
    PROVE  IInv'
<1> DEFINE to == Last(jumps)
           m == to - 1
<1>1. /\ flight.how = "lua" /\ build = "c" /\ Sane
      /\ frames' = SubSeq(frames, 1, m) /\ ci' = m /\ jumps' = Front(jumps)
      /\ got' = [value |-> flight.value, via |-> flight.via, to |-> to, due |-> flight.due]
      /\ flight' = None /\ build' = build /\ alive' = alive
  BY DEF Longjmp, Deliver, Sane
<1>2. /\ flight \in Error /\ frames \in Seq(Call) /\ jumps \in Places /\ Len(frames) \in Nat \ {0}
      /\ alive = Cardinality(Holding(frames)) /\ StackSound /\ Top = frames[Len(frames)]
      /\ Len(frames) <= MaxFrames + MaxHandlers
  BY StateFacts, ConstantFacts DEF IInv
<1>3. /\ Sound(frames, jumps) /\ HandlersSound /\ jumps # <<>> /\ Top.locals = 0
      /\ flight.due = [value |-> flight.value, via |-> flight.via, to |-> to]
  BY <1>1 DEF IInv, ErrorsSound, FlightSound
<1>4. to \in 2 .. Len(frames) /\ \A k \in to + 1 .. Len(frames) : ~Protects(frames[k])
  BY <1>1, <1>3, InnermostFacts DEF Innermost
<1> HIDE DEF to
<1>5. m \in 1 .. Len(frames) /\ m \in 0 .. Len(frames)
  BY <1>2, <1>4
<1>6. \A i \in Holding(frames) : i \in 1 .. m
  <2>1. SUFFICES ASSUME NEW i \in 1 .. Len(frames), frames[i].locals = 1, ~(i <= m)
                 PROVE  FALSE
    BY <1>2, <1>5, StackFacts DEF Holding
  <2>2. i # Len(frames)
    BY <1>2, <1>3, <2>1
  <2>3. i \in 1 .. Len(frames) - 1 /\ i + 1 \in to + 1 .. Len(frames)
    BY <1>2, <1>4, <2>1, <2>2
  <2>4. frames[i + 1].by = "protected"
    BY <1>1, <1>2, <2>1, <2>3 DEF StackSound, LocalsSound
  <2> QED BY <1>4, <2>3, <2>4 DEF Protects
<1> HIDE DEF m
<1>7. /\ frames' \in Seq(Call) /\ Len(frames') = m
      /\ Holding(SubSeq(frames, 1, m)) = Holding(frames) \cap (1 .. m)
  BY <1>1, <1>2, <1>5, Cut
<1>8. Holding(SubSeq(frames, 1, m)) = Holding(frames)
  BY <1>6, <1>7
<1>9. StackSound'
  BY <1>1, <1>2, <1>5, <1>8, Leaving
<1>10. jumps' \in Places /\ Sound(frames', jumps')
  BY <1>1, <1>2, <1>3, SoundEnded DEF m, to
<1>11. HandlersSound'
  BY <1>1, <1>2, <1>3, <1>5, HandlersLeft
<1>12. got' \in GotType
  BY <1>1, <1>2, <1>4 DEF GotType, Error
<1>13. ValuesTyped'
  BY <1>1, <1>10, <1>12 DEF ValuesTyped, IInv
<1>14. CallsKnown'
  BY <1>1, <1>2, <1>5, <1>7, ConstantFacts DEF CallsKnown
<1>15. FlightSound' /\ GotSound'
  BY <1>1, <1>3 DEF FlightSound, GotSound, ArrivedWhole
<1> QED BY <1>9, <1>10, <1>11, <1>13, <1>14, <1>15 DEF IInv, ErrorsSound

\* Where Lua was compiled as C, every exception is caught where it leaves a function.
LEMMA AlwaysTrampolined ==
    ASSUME IInv, build = "c", flight # None, InTheAir
    PROVE  Trampolined
<1>1. FlightSound /\ flight.how = "exception"
  BY DEF IInv, ErrorsSound, InTheAir, Sane
<1> QED BY <1>1 DEF Trampolined, FlightSound, Catches

LEMMA LeaveKeeps ==
    ASSUME IInv, flight # None, Leave
    PROVE  IInv'
<1> DEFINE n == Len(frames)
           inside == IF Top.by = "handler" THEN Top.cause.inside ELSE IsCpp(frames[n - 1])
<1>1. /\ InTheAir /\ n > 1 /\ ~Trampolined
      /\ (Protects(Top) => build = "c" /\ Top.by = "pcall")
      /\ flight' = [flight EXCEPT !.inside = inside]
      /\ frames' = Front(frames) /\ alive' = alive - Top.locals
      /\ got' = Nothing /\ build' = build /\ ci' = ci /\ jumps' = jumps
  BY DEF Leave
<1>2. build # "c"
  BY <1>1, AlwaysTrampolined
<1>3. ~Protects(Top) /\ Top.by # "protected"
  BY <1>1, <1>2 DEF Protects
<1>4. /\ flight \in Error /\ frames \in Seq(Call) /\ n \in Nat \ {0} /\ Top = frames[n]
  BY StateFacts
<1>5. inside \in BOOLEAN
  <2>1. CASE Top.by = "handler"
    <3>1. n \in Handlers(frames)
      BY <1>4, <2>1, StackFacts DEF Handlers
    <3>2. Top.cause \in Error
      BY <1>4, <3>1 DEF IInv, StackSound, CallsTyped
    <3> QED BY <2>1, <3>2 DEF Error
  <2>2. CASE Top.by # "handler"
    BY <2>2 DEF IsCpp
  <2> QED BY <2>1, <2>2
<1> HIDE DEF inside
<1>6. /\ flight' \in Error /\ flight' # None /\ flight'.how = flight.how
      /\ flight'.due = flight.due /\ flight'.via = flight.via /\ flight'.value = flight.value
  BY <1>1, <1>4, <1>5 DEF Error, None
<1>7. ValuesTyped'
  BY <1>1, <1>6 DEF ValuesTyped, IInv
<1>8. StackSound' /\ (Hushed => ~Top'.quiet)
  BY <1>1, <1>3, PoppedKeeps
<1>9. ASSUME Sane PROVE ErrorsSound'
  <2>1. CallsKnown /\ FlightSound
    BY <1>9 DEF IInv, ErrorsSound
  <2>2. Sound(frames', jumps') /\ HandlersSound'
    BY <1>1, <1>3, <1>9, PoppedSound
  <2>3. CallsKnown' /\ GotSound'
    BY <1>1, <1>2, <1>6, <2>1 DEF CallsKnown, GotSound
  <2>4. FlightSound'
    BY <1>1, <1>2, <1>6, <1>8, <2>1 DEF FlightSound, Hushed, Sane
  <2> QED BY <2>2, <2>3, <2>4 DEF ErrorsSound
<1>10. Sane' <=> Sane
  BY <1>1 DEF Sane
<1> QED BY <1>7, <1>8, <1>9, <1>10 DEF IInv

LEMMA CatchInLuaKeeps ==
    ASSUME IInv, flight # None, CatchInLua
    PROVE  IInv'
<1> DEFINE n == Len(frames)
<1>1. /\ InTheAir /\ build # "c" /\ Protects(Top)
      /\ frames' = Front(frames) /\ alive' = alive - Top.locals
      /\ ci' = n - 1 /\ jumps' = Front(jumps) /\ flight' = None /\ build' = build
      /\ got' = [value |-> IF flight.how = "lua" THEN flight.value ELSE Garbage,
                 via |-> flight.via, to |-> n, due |-> flight.due]
  BY DEF CatchInLua, Deliver
<1>2. /\ flight \in Error /\ frames \in Seq(Call) /\ jumps \in Places /\ n \in Nat \ {0}
      /\ Top = frames[n] /\ n <= MaxFrames + MaxHandlers
  BY StateFacts, ConstantFacts
<1>3. n > 1
  <2>1. frames[1].by = "main"
    BY DEF IInv, StackSound, CodeSound
  <2> QED BY <1>1, <1>2, <2>1 DEF Protects
<1>4. StackSound' /\ Len(frames') = n - 1
  BY <1>1, <1>3, PoppedKeeps
<1>5. jumps' \in Places
  BY <1>1, <1>2, FrontPlaces
<1>6. got' \in GotType
  <2>1. Garbage \in Values
    BY ConstantFacts DEF Garbage, Values
  <2> QED BY <1>1, <1>2, <2>1 DEF GotType, Error
<1>7. ValuesTyped'
  BY <1>1, <1>5, <1>6 DEF ValuesTyped, IInv
<1>8. ASSUME Sane PROVE ErrorsSound'
  <2>1. FlightSound
    BY <1>8 DEF IInv, ErrorsSound
  <2>2. jumps # <<>> /\ Last(jumps) = n
    BY <1>1, <1>8, TopKnown
  <2>3. Sound(frames', jumps') /\ HandlersSound'
    BY <1>1, <1>3, <1>8, PoppedSound
  <2>4. CallsKnown'
    BY <1>1, <1>2, <1>3, <1>4, ConstantFacts DEF CallsKnown
  <2>5. FlightSound'
    BY <1>1 DEF FlightSound
  <2>6. GotSound'
    <3>1. build = "cxx" /\ flight # None
      BY <1>1, <1>2, <1>8 DEF Sane, InTheAir
    <3>2. CASE flight.how = "lua"
      <4>1. flight.due = [value |-> flight.value, via |-> flight.via, to |-> n]
        BY <2>1, <2>2, <3>2 DEF FlightSound
      <4> QED BY <1>1, <3>2, <4>1 DEF GotSound, ArrivedWhole
    <3>3. CASE flight.how = "exception"
      <4>1. flight.due.to = n /\ OfException(flight.due)
        BY <1>1, <2>1, <2>2, <3>3 DEF FlightSound
      <4> QED BY <1>1, <3>1, <4>1 DEF GotSound
    <3> QED BY <1>1, <3>2, <3>3 DEF InTheAir
  <2> QED BY <2>3, <2>4, <2>5, <2>6 DEF ErrorsSound
<1>9. Sane' <=> Sane
  BY <1>1 DEF Sane
<1> QED BY <1>4, <1>7, <1>8, <1>9 DEF IInv

LEMMA CatchInSolNever ==
    ASSUME IInv, flight # None, CatchInSol
    PROVE  FALSE
BY AlwaysTrampolined DEF CatchInSol

-----------------------------------------------------------------------------
(* Every behaviour.                                                        *)

LEMMA InitInv ==
    ASSUME Init
    PROVE  IInv
<1> DEFINE main == NewCall("main", "main", FALSE, 0, FALSE)
<1>1. /\ build \in Builds /\ frames = <<main>> /\ alive = 0 /\ flight = None /\ got = Nothing
      /\ ci = 1 /\ jumps = <<>>
  BY DEF Init
<1>2. /\ main \in Call /\ main.by = "main" /\ main.locals = 0 /\ Plain(main)
      /\ main.code = "main" /\ ~Protects(main)
  BY DEF NewCall, Call, Plain, Protects
<1> HIDE DEF main
<1>3. /\ frames \in Seq(Call) /\ frames # <<>> /\ Len(frames) = 1 /\ frames[1] = main
      /\ DOMAIN frames = {1}
  BY <1>1, <1>2
<1>4. /\ Handlers(frames) = {} /\ OwnCall(frames) = {1} /\ Holding(frames) = {}
  BY <1>2, <1>3 DEF Handlers, OwnCall, Holding
<1>5. Cardinality({}) = 0 /\ Cardinality({1}) = 1
  BY FS_EmptySet, FS_Singleton
<1>6. CallsTyped /\ Bounded /\ AliveSound
  <2>1. CallsTyped
    BY <1>3, <1>4 DEF CallsTyped
  <2>2. Cardinality(Handlers(frames)) = 0 /\ Cardinality(OwnCall(frames)) = 1
        /\ Cardinality(Holding(frames)) = 0
    BY <1>4, <1>5
  <2>3. Bounded /\ AliveSound
    BY <1>1, <2>2, ConstantFacts DEF Bounded, AliveSound
  <2> QED BY <2>1, <2>3
<1>7. LocalsSound /\ QuietSound /\ CodeSound
  BY <1>2, <1>3 DEF LocalsSound, QuietSound, CodeSound
<1>8. jumps \in Places
  BY <1>1, EmptySeq DEF Places
<1>9. ValuesTyped
  BY <1>1, <1>8 DEF ValuesTyped
<1>10. Sound(frames, jumps)
  <2>1. DOMAIN jumps = {}
    BY <1>1
  <2> QED BY <1>2, <1>3, <2>1 DEF Sound
<1>11. HandlersSound /\ CallsKnown /\ FlightSound /\ GotSound
  BY <1>1, <1>3, <1>4, ConstantFacts DEF HandlersSound, CallsKnown, FlightSound, GotSound
<1> QED BY <1>6, <1>7, <1>9, <1>10, <1>11 DEF IInv, StackSound, ErrorsSound

LEMMA StutterKeeps ==
    ASSUME IInv, UNCHANGED vars
    PROVE  IInv'
<1>1. /\ frames' = frames /\ alive' = alive /\ build' = build /\ flight' = flight /\ ci' = ci
      /\ jumps' = jumps /\ got' = got
  BY DEF vars
<1>2. StackSound' /\ Top' = Top
  BY <1>1, StackSame DEF IInv
<1>3. ValuesTyped'
  BY <1>1 DEF ValuesTyped, IInv
<1>4. Sane' <=> Sane
  BY <1>1 DEF Sane
<1>5. ASSUME Sane PROVE ErrorsSound'
  <2>1. Sound(frames, jumps) /\ HandlersSound /\ CallsKnown /\ FlightSound /\ GotSound
    BY <1>5 DEF IInv, ErrorsSound
  <2>2. HandlersSound' /\ Sound(frames', jumps')
    BY <1>1, <2>1, HandlersSame
  <2>3. CallsKnown' /\ GotSound'
    BY <1>1, <2>1 DEF CallsKnown, GotSound
  <2>4. Pending' = Pending /\ HandlerDue' = HandlerDue /\ Message' = Message
    BY <1>1 DEF Pending, HandlerDue, Message
  <2>5. FlightSound'
    BY <1>1, <1>2, <2>1, <2>4 DEF FlightSound, DueFor, Hushed, Sane
  <2> QED BY <2>2, <2>3, <2>5 DEF ErrorsSound
<1> QED BY <1>2, <1>3, <1>4, <1>5 DEF IInv

LEMMA NextKeeps ==
    ASSUME Disciplined, IInv, [Next]_vars
    PROVE  IInv'
<1>1. CASE CallUnsafe \/ CallProtected \/ CallFromScript
  BY <1>1, CallsKeep
<1>2. CASE Return
  BY <1>2, ReturnKeeps
<1>3. CASE RaiseError
  BY <1>3, RaiseErrorKeeps
<1>4. ASSUME NEW kind \in Thrown, Throw(kind) PROVE IInv'
  BY <1>4, ThrowKeeps
<1>5. ASSUME flight # None, Longjmp PROVE IInv'
  BY <1>5, LongjmpKeeps
<1>6. ASSUME flight # None, Terminate PROVE IInv'
  BY <1>6, TerminateKeeps
<1>7. ASSUME flight # None, Trampoline PROVE IInv'
  BY <1>7, TrampolineKeeps
<1>8. ASSUME flight # None, Rethrow PROVE IInv'
  BY <1>8, RethrowKeeps
<1>9. ASSUME flight # None, Leave PROVE IInv'
  BY <1>9, LeaveKeeps
<1>10. ASSUME flight # None, CatchInLua PROVE IInv'
  BY <1>10, CatchInLuaKeeps
<1>11. ASSUME flight # None, CatchInSol PROVE IInv'
  BY <1>11, CatchInSolNever
<1>12. ASSUME flight # None, CatchInProgram PROVE IInv'
  BY <1>12, CatchInProgramKeeps
<1>13. CASE UNCHANGED vars
  BY <1>13, StutterKeeps
<1> QED BY <1>1, <1>2, <1>3, <1>4, <1>5, <1>6, <1>7, <1>8, <1>9, <1>10, <1>11, <1>12, <1>13 DEF Next

\* The invariant holds in every reachable state.
THEOREM TrampolinesInvariant ==
    ASSUME Disciplined
    PROVE  Spec => []IInv
<1>1. Init => IInv
  BY InitInv
<1>2. IInv /\ [Next]_vars => IInv'
  BY NextKeeps
<1> QED BY <1>1, <1>2, PTL DEF Spec

LEMMA SaneAlways ==
    ASSUME Propagated, IInv
    PROVE  Sane /\ (QuietKept /\ build # "c" => Hushed)
BY StateFacts DEF Propagated, Sane, QuietKept, Hushed

LEMMA TypesSound ==
    ASSUME Propagated, IInv
    PROVE  TypeOK
<1>1. /\ build \in Builds /\ frames \in Seq(Call) /\ Len(frames) \in Nat \ {0}
      /\ jumps \in Places /\ flight \in Error \cup {None}
      /\ Pending \in 0 .. MaxHandlers /\ Len(frames) <= MaxFrames + Pending
      /\ alive \in 0 .. Len(frames)
  BY StateFacts
<1>2. Len(frames) <= MaxFrames + MaxHandlers /\ alive \in 0 .. MaxFrames + MaxHandlers
  BY <1>1, ConstantFacts
<1>3. ci \in 1 .. MaxFrames + MaxHandlers
  BY SaneAlways DEF IInv, ErrorsSound, CallsKnown
<1>4. jumps \in Seq(Nat)
  <2>1. Len(jumps) \in Nat /\ jumps \in [1 .. Len(jumps) -> Nat \ {0}]
    BY <1>1, LenProperties DEF Places
  <2>2. jumps \in [1 .. Len(jumps) -> Nat]
    BY <2>1
  <2> QED BY <2>1, <2>2, SeqDef
<1>5. got = Nothing \/ got \in [value : Values, via : Seq(Through), to : Nat, due : Due]
  BY DEF IInv, ValuesTyped, GotType
<1> QED BY <1>1, <1>2, <1>3, <1>4, <1>5 DEF TypeOK

\* Every behaviour keeps the types, for any bound on calls and on handlers.
THEOREM TrampolinesTypes ==
    ASSUME Disciplined, Propagated
    PROVE  Spec => []TypeOK
<1>1. Spec => []IInv
  BY TrampolinesInvariant
<1>2. IInv => TypeOK
  BY TypesSound
<1> QED BY <1>1, <1>2, PTL

\* Exactly the objects of the calls under way are alive, whatever else the
\* build and the program do, if none is jumped over on purpose.
THEOREM ObjectsDestroyed ==
    ASSUME Disciplined
    PROVE  Spec => []LocalsDestroyed
<1>1. Spec => []IInv
  BY TrampolinesInvariant
<1>2. IInv => LocalsDestroyed
  BY DEF IInv, StackSound, AliveSound, LocalsDestroyed, Holding
<1> QED BY <1>1, <1>2, PTL

LEMMA ArrivalsSound ==
    ASSUME Propagated, QuietKept, IInv
    PROVE  ErrorsArriveWhole
<1>1. FlightSound /\ GotSound /\ (build # "c" => Hushed)
  BY SaneAlways DEF IInv, ErrorsSound
<1>2. flight.how # "terminated"
  BY <1>1 DEF FlightSound, None
<1> QED BY <1>1, <1>2 DEF GotSound, ErrorsArriveWhole

\* Errors arrive where they should and as what they should.
THEOREM ErrorsArrive ==
    ASSUME Disciplined, Propagated, QuietKept
    PROVE  Spec => []ErrorsArriveWhole
<1>1. Spec => []IInv
  BY TrampolinesInvariant
<1>2. IInv => ErrorsArriveWhole
  BY ArrivalsSound
<1> QED BY <1>1, <1>2, PTL

LEMMA RecordsSound ==
    ASSUME Propagated, IInv
    PROVE  LuaKnowsItsCalls
<1>1. Sound(frames, jumps) /\ CallsKnown
  BY SaneAlways DEF IInv, ErrorsSound
<1>2. ToSet(jumps) = {i \in DOMAIN frames : Protects(frames[i])}
  BY <1>1 DEF ToSet, Sound
<1>3. \A i, j \in DOMAIN jumps : i < j => jumps[i] < jumps[j]
  BY <1>1 DEF Sound
<1> QED BY <1>1, <1>2, <1>3 DEF LuaKnowsItsCalls, CallsKnown

\* Lua's own record of the calls is right whenever a call can be made.
THEOREM CallsRecorded ==
    ASSUME Disciplined, Propagated
    PROVE  Spec => []LuaKnowsItsCalls
<1>1. Spec => []IInv
  BY TrampolinesInvariant
<1>2. IInv => LuaKnowsItsCalls
  BY RecordsSound
<1> QED BY <1>1, <1>2, PTL
=============================================================================

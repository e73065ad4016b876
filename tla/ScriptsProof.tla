----------------------------- MODULE ScriptsProof -----------------------------
(***************************************************************************)
(* What Scripts promises for any number of result objects, calls, packages *)
(* and environments, and any depth of scripts that require others.         *)
(***************************************************************************)
EXTENDS Scripts, SequenceTheorems, FunctionTheorems, FiniteSetTheorems, TLAPS

-----------------------------------------------------------------------------
(* The inductive invariant.                                                *)

\* The script on the top of runs has its function on the top of the stack,
\* and each of the others lies two slots below the one it requires.
FramesSound ==
    /\ \A i \in DOMAIN runs :
          /\ runs[i].func \in 1 .. Len(stack)
          /\ i > 1 \/ runs[i].how = "protected" => runs[i].func > 1
          /\ i > 1 => /\ runs[i].how = "require"
                      /\ runs[i].base = runs[i].func - 2
                      /\ runs[i].base = runs[i - 1].func
          /\ i = 1 /\ runs[i].how = "require" => runs[i].base = 0
    /\ \A i, j \in DOMAIN runs : i < j => runs[i].func + 2 <= runs[j].func
    /\ runs # <<>> => Last(runs).func = Len(stack)

\* Every package has its entries.
Registry == UNION {Registered(p) : p \in Packages}

TablesSound ==
    /\ loaded \in [Packages -> Registry] /\ global \in [Packages -> Registry]
    /\ ran \in [Packages -> 0 .. MaxRuns] /\ handed \in [Packages -> SUBSET Registry]

Framed == TypeOK /\ FramesSound /\ TablesSound

-----------------------------------------------------------------------------
(* Sequences.                                                              *)

LEMMA PrefixFacts ==
    ASSUME NEW S, NEW s \in Seq(S), NEW m \in Int, m <= Len(s)
    PROVE  /\ SubSeq(s, 1, m) \in Seq(S)
           /\ Len(SubSeq(s, 1, m)) = IF m > 0 THEN m ELSE 0
           /\ \A i \in 1 .. m : SubSeq(s, 1, m)[i] = s[i]
<1> DEFINE t == SubSeq(s, 1, m)
<1>1. Len(s) \in Nat /\ \A i \in 1 .. Len(s) : s[i] \in S
  BY LenProperties
<1>2. 1 \in Int /\ \A i \in 1 .. m : s[i] \in S
  BY <1>1
<1>3. /\ t \in Seq(S)
      /\ Len(t) = IF 1 <= m THEN m - 1 + 1 ELSE 0
      /\ \A i \in 1 .. m - 1 + 1 : t[i] = s[1 + i - 1]
  BY <1>2, SubSeqProperties
<1> HIDE DEF t
<1>4. Len(t) = IF m > 0 THEN m ELSE 0
  BY <1>3
<1>5. ASSUME NEW i \in 1 .. m PROVE t[i] = s[i]
  <2>1. i \in 1 .. m - 1 + 1 /\ 1 + i - 1 = i
    OBVIOUS
  <2> QED BY <2>1, <1>3
<1> QED BY <1>3, <1>4, <1>5 DEF t

LEMMA CutFacts ==
    ASSUME NEW S, NEW s \in Seq(S), NEW n \in Nat
    PROVE  /\ Cut(s, n) \in Seq(S)
           /\ Len(Cut(s, n)) = IF n < Len(s) THEN Len(s) - n ELSE 0
           /\ \A i \in 1 .. Len(s) - n : Cut(s, n)[i] = s[i]
<1> DEFINE m == Len(s) - n
<1>1. Len(s) \in Nat
  BY LenProperties
<1>2. m \in Int /\ m <= Len(s) /\ (m > 0 <=> n < Len(s))
  BY <1>1
<1> HIDE DEF m
<1>3. /\ SubSeq(s, 1, m) \in Seq(S)
      /\ Len(SubSeq(s, 1, m)) = IF m > 0 THEN m ELSE 0
      /\ \A i \in 1 .. m : SubSeq(s, 1, m)[i] = s[i]
  BY <1>2, PrefixFacts
<1> QED BY <1>2, <1>3 DEF Cut, m

LEMMA SuffixFacts ==
    ASSUME NEW S, NEW s \in Seq(S), NEW m \in 1 .. Len(s) + 1
    PROVE  /\ SubSeq(s, m, Len(s)) \in Seq(S)
           /\ Len(SubSeq(s, m, Len(s))) = Len(s) - m + 1
           /\ \A i \in 1 .. Len(s) - m + 1 : SubSeq(s, m, Len(s))[i] = s[m + i - 1]
<1> DEFINE n == Len(s)
<1>1. n \in Nat /\ m \in 1 .. n + 1 /\ \A i \in 1 .. n : s[i] \in S
  BY LenProperties
<1> HIDE DEF n
<1>2. \A i \in m .. n : s[i] \in S
  BY <1>1
<1>3. /\ SubSeq(s, m, n) \in Seq(S)
      /\ Len(SubSeq(s, m, n)) = IF m <= n THEN n - m + 1 ELSE 0
      /\ \A i \in 1 .. n - m + 1 : SubSeq(s, m, n)[i] = s[m + i - 1]
  BY <1>1, <1>2, SubSeqProperties
<1>4. Len(SubSeq(s, m, n)) = n - m + 1
  BY <1>1, <1>3
<1> QED BY <1>3, <1>4 DEF n

\* What append and concatenation do, said with the length.
LEMMA AppendFacts ==
    ASSUME NEW S, NEW s \in Seq(S), NEW e \in S
    PROVE  /\ Append(s, e) \in Seq(S)
           /\ Len(Append(s, e)) = Len(s) + 1
           /\ Append(s, e)[Len(s) + 1] = e
           /\ \A i \in 1 .. Len(s) : Append(s, e)[i] = s[i]
BY AppendProperties

LEMMA LastFrontFacts ==
    ASSUME NEW S, NEW s \in Seq(S), s # <<>>
    PROVE  /\ Len(s) \in Nat \ {0}
           /\ Last(s) = s[Len(s)] /\ Last(s) \in S
           /\ Front(s) \in Seq(S) /\ Len(Front(s)) = Len(s) - 1
           /\ \A i \in 1 .. Len(s) - 1 : Front(s)[i] = s[i]
<1>1. Len(s) \in Nat \ {0} /\ \A i \in 1 .. Len(s) : s[i] \in S
  BY EmptySeq, LenProperties
<1>2. Last(s) = s[Len(s)] /\ Last(s) \in S
  BY <1>1 DEF Last
<1>3. Front(s) = Cut(s, 1)
  BY DEF Front, Cut
<1>4. /\ Cut(s, 1) \in Seq(S)
      /\ Len(Cut(s, 1)) = IF 1 < Len(s) THEN Len(s) - 1 ELSE 0
      /\ \A i \in 1 .. Len(s) - 1 : Cut(s, 1)[i] = s[i]
  BY CutFacts
<1> QED BY <1>1, <1>2, <1>3, <1>4

-----------------------------------------------------------------------------
(* The helpers on stacks keep types.                                       *)

LEMMA RemovedType ==
    ASSUME NEW S, NEW s \in Seq(S), NEW index \in Nat, NEW count \in Nat
    PROVE  removed(s, index, count) \in Seq(S)
<1> DEFINE n == Len(s)
<1>1. n \in Nat
  BY LenProperties
<1>2. Cut(s, count) \in Seq(S)
  BY CutFacts
<1>3. ASSUME count >= 1, index + count - 1 <= n
      PROVE  SubSeq(s, 1, index - 1) \o SubSeq(s, index + count, n) \in Seq(S)
  <2>1. index - 1 \in Int /\ index - 1 <= n /\ index + count \in 1 .. n + 1
    BY <1>1, <1>3
  <2>2. SubSeq(s, 1, index - 1) \in Seq(S)
    BY <2>1, PrefixFacts
  <2>3. SubSeq(s, index + count, n) \in Seq(S)
    BY <2>1, SuffixFacts
  <2> QED BY <2>2, <2>3, ConcatProperties
<1>4. index + count - 1 \in Int
  OBVIOUS
<1> HIDE DEF n
<1>5. removed(s, index, count) = IF count < 1 \/ n < 1 THEN s
         ELSE IF index = n \/ index + count - 1 > n THEN Cut(s, count)
         ELSE SubSeq(s, 1, index - 1) \o SubSeq(s, index + count, n)
  BY DEF removed, n
<1> QED BY <1>1, <1>2, <1>3, <1>4, <1>5

LEMMA RotatedType ==
    ASSUME NEW S, NEW s \in Seq(S), NEW n \in Nat
    PROVE  rotatedTop(s, n) \in Seq(S)
<1>1. Len(s) \in Nat /\ Cut(s, n) \in Seq(S)
  BY LenProperties, CutFacts
<1>2. ASSUME n <= Len(s)
      PROVE  Cut(s, n) \o Reverse(SubSeq(s, Len(s) - n + 1, Len(s))) \in Seq(S)
  <2> DEFINE t == SubSeq(s, Len(s) - n + 1, Len(s))
  <2>1. Len(s) - n + 1 \in 1 .. Len(s) + 1
    BY <1>1, <1>2
  <2>2. t \in Seq(S)
    BY <2>1, SuffixFacts
  <2> HIDE DEF t
  <2>3. Reverse(t) \in Seq(S)
    <3>1. Len(t) \in Nat /\ \A i \in 1 .. Len(t) : t[i] \in S
      BY <2>2, LenProperties
    <3>2. \A i \in 1 .. Len(t) : t[(Len(t) - i) + 1] \in S
      BY <3>1
    <3>3. Reverse(t) \in [1 .. Len(t) -> S]
      BY <3>2 DEF Reverse
    <3> QED BY <3>1, <3>3, SeqDef
  <2> QED BY <1>1, <2>3, ConcatProperties DEF t
<1> QED BY <1>1, <1>2 DEF rotatedTop

LEMMA ItemFacts ==
    /\ Own \in Item /\ H \in Item /\ Arg \in Item /\ Nil \in Item /\ False \in Item /\ Foreign \in Item
    /\ \A c \in Calls : Val(c) \in Item /\ \A e \in Envs : Chunk(c, e) \in Item
    /\ \A p \in Packages : Script(p) \in Item /\ Registered(p) \subseteq Item
BY DEF Item, Registered

LEMMA ThrownType ==
    ASSUME NEW s \in Seq(Item), NEW r \in Result
    PROVE  thrown(s, r) \in Seq(Item)
<1>1. r.index \in Nat /\ r.popcount \in Nat /\ Val(r.call) \in Item
  BY ItemFacts DEF Result
<1> DEFINE pushed  == Append(removed(s, r.index, r.popcount), Val(r.call))
           towards == Len(pushed) - r.index
           rotated == IF towards > 0 THEN rotatedTop(pushed, towards) ELSE pushed
<1>2. pushed \in Seq(Item)
  BY <1>1, RemovedType, AppendFacts
<1> HIDE DEF pushed
<1>3. Len(pushed) \in Nat
  BY <1>2, LenProperties
<1>4. rotated \in Seq(Item)
  <2>1. CASE towards > 0
    <3>1. towards \in Nat
      BY <1>1, <1>3, <2>1
    <3> QED BY <3>1, <2>1, <1>2, RotatedType
  <2>2. CASE ~(towards > 0)
    BY <1>2, <2>2
  <2> QED BY <2>1, <2>2
<1> HIDE DEF rotated
<1>5. thrown(s, r) = removed(rotated, r.index, r.popcount)
  BY DEF thrown, pushed, rotated
<1> QED BY <1>1, <1>4, <1>5, RemovedType

-----------------------------------------------------------------------------
(* What set_on does to a stack.                                            *)

\* What lua_setupvalue on the function x makes of a value y.
Upvalued(y, x, e) ==
    IF x[1] = "chunk" /\ y[1] = "chunk" /\ y[2] = x[2] THEN Chunk(y[2], e) ELSE y

LEMMA ChunkItem ==
    ASSUME NEW x \in Item, x[1] = "chunk"
    PROVE  \E c \in Calls, d \in Envs : x = Chunk(c, d) /\ x[2] = c
<1>1. x \notin {Own, H, Arg, Nil, False, Foreign}
  BY DEF Own, H, Arg, Nil, False, Foreign
<1>2. \A c \in Calls : x # Val(c)
  BY DEF Val
<1>3. \A p \in Packages : x # Script(p) /\ x \notin Modules(p)
  BY DEF Script, Modules, Module
<1>4. PICK c \in Calls, d \in Envs : x = Chunk(c, d)
  BY <1>1, <1>2, <1>3 DEF Item
<1> QED BY <1>4 DEF Chunk

LEMMA UpvaluedType ==
    ASSUME NEW x \in Item, NEW y \in Item, NEW e \in Envs
    PROVE  Upvalued(y, x, e) \in Item
<1>1. CASE y[1] = "chunk"
  <2>1. PICK c \in Calls, d \in Envs : y = Chunk(c, d) /\ y[2] = c
    BY <1>1, ChunkItem
  <2> QED BY <2>1, ItemFacts DEF Upvalued
<1>2. CASE y[1] # "chunk"
  BY <1>2 DEF Upvalued
<1> QED BY <1>1, <1>2

LEMMA SetOnFacts ==
    ASSUME NEW s \in Seq(Item), NEW at \in 1 .. Len(s), NEW pushed \in BOOLEAN,
           NEW e \in Envs, NEW x, x = IF pushed THEN s[at] ELSE s[Len(s)]
    PROVE  /\ set_on(s, at, pushed, e) \in Seq(Item)
           /\ Len(set_on(s, at, pushed, e)) = Len(s)
           /\ \A i \in 1 .. Len(s) : set_on(s, at, pushed, e)[i] = Upvalued(s[i], x, e)
<1> DEFINE t == IF pushed THEN Append(s, s[at]) ELSE s
           u == WithUpvalue(t, Len(t), e)
<1>1. Len(s) \in Nat \ {0} /\ \A i \in 1 .. Len(s) : s[i] \in Item
  BY LenProperties
<1>2. /\ t \in Seq(Item) /\ Len(t) \in Nat /\ Len(t) >= Len(s)
      /\ \A i \in 1 .. Len(s) : t[i] = s[i]
      /\ t[Len(t)] = x
  <2>1. CASE pushed
    <3>1. s[at] \in Item
      BY <1>1
    <3>2. t = Append(s, s[at])
      BY <2>1
    <3>3. /\ Append(s, s[at]) \in Seq(Item) /\ Len(Append(s, s[at])) = Len(s) + 1
          /\ Append(s, s[at])[Len(s) + 1] = s[at]
          /\ \A i \in 1 .. Len(s) : Append(s, s[at])[i] = s[i]
      BY <3>1, AppendFacts
    <3> HIDE DEF t
    <3> QED BY <1>1, <2>1, <3>2, <3>3
  <2>2. CASE ~pushed
    BY <1>1, <2>2
  <2> QED BY <2>1, <2>2
<1> HIDE DEF t
<1>3. \A i \in 1 .. Len(t) : t[i] \in Item
  BY <1>2, LenProperties
<1>4. x \in Item
  <2>1. Len(t) \in 1 .. Len(t)
    BY <1>1, <1>2
  <2> QED BY <1>2, <1>3, <2>1
<1>5. u = [i \in 1 .. Len(t) |-> Upvalued(t[i], x, e)]
  BY <1>2 DEF WithUpvalue, Upvalued
<1>6. u \in [1 .. Len(t) -> Item]
  <2>1. \A i \in 1 .. Len(t) : Upvalued(t[i], x, e) \in Item
    BY <1>3, <1>4, UpvaluedType
  <2> QED BY <1>5, <2>1
<1>7. u \in Seq(Item)
  BY <1>2, <1>6, SeqDef
<1> HIDE DEF u
<1>8. Len(u) = Len(t)
  <2>1. DOMAIN u = 1 .. Len(u) /\ Len(u) \in Nat
    BY <1>7, LenProperties
  <2>2. DOMAIN u = 1 .. Len(t)
    BY <1>6
  <2> QED BY <1>2, <2>1, <2>2
<1>9. set_on(s, at, pushed, e) = SubSeq(u, 1, Len(s))
  BY DEF set_on, t, u
<1>10. /\ SubSeq(u, 1, Len(s)) \in Seq(Item)
       /\ Len(SubSeq(u, 1, Len(s))) = Len(s)
       /\ \A i \in 1 .. Len(s) : SubSeq(u, 1, Len(s))[i] = u[i]
  <2>1. Len(s) \in Int /\ Len(s) <= Len(u) /\ Len(s) > 0
    BY <1>1, <1>2, <1>8
  <2> QED BY <1>7, <2>1, PrefixFacts
<1>11. \A i \in 1 .. Len(s) : u[i] = Upvalued(s[i], x, e)
  BY <1>1, <1>2, <1>5
<1> QED BY <1>9, <1>10, <1>11

LEMMA SetOnTop ==
    ASSUME NEW s \in Seq(Item), NEW at \in 1 .. Len(s), NEW e \in Envs
    PROVE  /\ set_on(s, at, FALSE, e) \in Seq(Item)
           /\ Len(set_on(s, at, FALSE, e)) = Len(s)
           /\ \A i \in 1 .. Len(s) : set_on(s, at, FALSE, e)[i] = Upvalued(s[i], s[Len(s)], e)
<1> DEFINE x == s[Len(s)]
           pushed == FALSE
<1>1. pushed \in BOOLEAN /\ x = IF pushed THEN s[at] ELSE s[Len(s)]
  OBVIOUS
<1> HIDE DEF x, pushed
<1>2. /\ set_on(s, at, pushed, e) \in Seq(Item)
      /\ Len(set_on(s, at, pushed, e)) = Len(s)
      /\ \A i \in 1 .. Len(s) : set_on(s, at, pushed, e)[i] = Upvalued(s[i], x, e)
  BY <1>1, SetOnFacts
<1> QED BY <1>2 DEF x, pushed

-----------------------------------------------------------------------------
(* Every action keeps the types and the frames.                            *)

LEMMA InitFramed == Init => Framed
<1> SUFFICES ASSUME Init PROVE Framed
  OBVIOUS
<1> USE DEF Init
<1>1. TypeOK
  BY EmptySeq, ScriptsAssumption DEF TypeOK, Registered
<1>2. FramesSound
  BY DEF FramesSound
<1>3. TablesSound
  <2>1. \A p \in Packages : Nil \in Registry
    BY DEF Registry, Registered
  <2> QED BY <2>1, ScriptsAssumption DEF TablesSound
<1> QED BY <1>1, <1>2, <1>3 DEF Framed

\* Between runs the program only moves values and result objects about.
LEMMA Between ==
    ASSUME Framed, runs' = <<>>, UNCHANGED packageVars,
           stack' \in Seq(Item), own' \in 0 .. MaxOwn,
           res' \in [Objects -> Result \cup {Gone}]
    PROVE  Framed'
<1>1. UNCHANGED <<loaded, global, ran, handed, wanted>>
  BY DEF packageVars
<1>2. runs' \in Seq(Run) /\ DOMAIN runs' = {}
  BY EmptySeq
<1>3. TypeOK'
  BY <1>1, <1>2 DEF Framed, TypeOK
<1>4. FramesSound'
  BY <1>2 DEF FramesSound
<1>5. TablesSound'
  BY <1>1 DEF Framed, TablesSound
<1> QED BY <1>3, <1>4, <1>5 DEF Framed

\* What a result object of a given object is.
LEMMA ResultType ==
    ASSUME TypeOK, NEW o \in Objects
    PROVE  /\ res[o] # Gone => /\ res[o] \in Result /\ res[o].index \in Nat
                               /\ res[o].popcount \in Nat /\ res[o].call \in Calls
                               /\ res[o].asked \in Envs /\ res[o].ok \in BOOLEAN
           /\ Owns(o) => res[o] # Gone /\ res[o].popcount > 0
BY DEF TypeOK, Result, Owns

LEMMA OwnFramed ==
    ASSUME Framed, PushOwn \/ PopOwn
    PROVE  Framed'
<1>0. stack \in Seq(Item) /\ runs' = <<>> /\ UNCHANGED packageVars /\ UNCHANGED res
      /\ res \in [Objects -> Result \cup {Gone}] /\ own \in 0 .. MaxOwn /\ MaxOwn \in Nat
  BY ScriptsAssumption DEF PushOwn, PopOwn, Running, Framed, TypeOK
<1>1. CASE PushOwn
  <2>1. own' \in 0 .. MaxOwn
    BY <1>0, <1>1 DEF PushOwn
  <2>2. stack' \in Seq(Item)
    BY <1>0, <1>1, ItemFacts, AppendFacts DEF PushOwn
  <2> QED BY <1>0, <2>1, <2>2, Between
<1>2. CASE PopOwn
  <2>1. own' \in 0 .. MaxOwn
    BY <1>0, <1>2 DEF PopOwn
  <2>2. stack' \in Seq(Item)
    BY <1>0, <1>2, LastFrontFacts DEF PopOwn
  <2> QED BY <1>0, <2>1, <2>2, Between
<1> QED BY <1>1, <1>2

LEMMA DestroyFramed ==
    ASSUME Framed, NEW o \in Objects, Destroy(o) \/ ThrowLate(o)
    PROVE  Framed'
<1>0. /\ stack \in Seq(Item) /\ runs' = <<>> /\ UNCHANGED packageVars
      /\ res \in [Objects -> Result \cup {Gone}] /\ own' \in 0 .. MaxOwn
      /\ res' = [res EXCEPT ![o] = Gone] /\ res[o] # Gone
  BY DEF Destroy, ThrowLate, Running, Framed, TypeOK, Owns
<1>1. res' \in [Objects -> Result \cup {Gone}]
  BY <1>0
<1>2. res[o] \in Result /\ res[o].index \in Nat /\ res[o].popcount \in Nat
  BY <1>0, ResultType DEF Framed
<1>3. stack' \in Seq(Item)
  <2>1. CASE Destroy(o)
    <3>1. Cut(stack, res[o].popcount) \in Seq(Item)
      BY <1>0, <1>2, CutFacts
    <3>2. removed(stack, res[o].index, res[o].popcount) \in Seq(Item)
      BY <1>0, <1>2, RemovedType
    <3> QED BY <2>1, <3>1, <3>2 DEF Destroy
  <2>2. CASE ThrowLate(o)
    <3>1. thrown(stack, res[o]) \in Seq(Item)
      BY <1>0, <1>2, ThrownType
    <3> QED BY <2>2, <3>1 DEF ThrowLate
  <2> QED BY <2>1, <2>2
<1> QED BY <1>0, <1>1, <1>3, Between

LEMMA MoveFramed ==
    ASSUME Framed, NEW o \in Objects, NEW p \in Objects, Move(p, o) \/ Copy(p, o)
    PROVE  Framed'
<1>0. /\ stack' \in Seq(Item) /\ runs' = <<>> /\ UNCHANGED packageVars
      /\ res \in [Objects -> Result \cup {Gone}] /\ own' \in 0 .. MaxOwn
      /\ res[o] # Gone
  BY DEF Move, Copy, Running, Framed, TypeOK
<1>1. res[o] \in Result
  BY <1>0
<1>2. abandoned(res[o]) \in Result
  BY <1>1 DEF abandoned, Result
<1>3. res' \in [Objects -> Result \cup {Gone}]
  BY <1>0, <1>1, <1>2 DEF Move, Copy
<1> QED BY <1>0, <1>3, Between

LEMMA LoadFramed ==
    ASSUME Framed, NEW o \in Objects, NEW c \in Fresh, NEW ok \in BOOLEAN, load(o, c, ok)
    PROVE  Framed'
<1>0. /\ stack \in Seq(Item) /\ runs' = <<>> /\ UNCHANGED packageVars
      /\ res \in [Objects -> Result \cup {Gone}] /\ own' \in 0 .. MaxOwn
      /\ c \in Calls /\ Globals \in Envs
  BY ScriptsAssumption DEF load, Running, Framed, TypeOK, Fresh
<1> DEFINE x == IF ok THEN Chunk(c, Globals) ELSE Val(c)
<1>1. x \in Item
  BY <1>0, ItemFacts
<1>2. stack' = Append(stack, x)
  BY DEF load
<1> HIDE DEF x
<1>3. stack' \in Seq(Item) /\ Len(stack') \in Nat
  BY <1>0, <1>1, <1>2, AppendFacts, LenProperties
<1>4. res' = [res EXCEPT ![o] = [kind |-> "load", index |-> Len(stack'),
                  popcount |-> 1, ok |-> ok, call |-> c, asked |-> Globals]]
  BY DEF load
<1>5. res' \in [Objects -> Result \cup {Gone}]
  BY <1>0, <1>3, <1>4 DEF Result
<1> QED BY <1>0, <1>3, <1>5, Between

LEMMA SetEnvironmentFramed ==
    ASSUME Framed, NEW o \in Objects, NEW pushed \in BOOLEAN, NEW e \in Envs,
           SetEnvironment(o, pushed, e)
    PROVE  Framed'
<1>0. /\ stack \in Seq(Item) /\ runs' = <<>> /\ UNCHANGED packageVars
      /\ res \in [Objects -> Result \cup {Gone}] /\ own' \in 0 .. MaxOwn
      /\ res[o] # Gone /\ res[o].index \in 1 .. Len(stack)
      /\ stack' = set_on(stack, res[o].index, pushed, e)
      /\ res' = [res EXCEPT ![o].asked = e]
  BY DEF SetEnvironment, Owns, Running, Framed, TypeOK
<1>1. stack' \in Seq(Item)
  BY <1>0, SetOnFacts
<1>2. res' \in [Objects -> Result \cup {Gone}]
  BY <1>0 DEF Result
<1> QED BY <1>0, <1>1, <1>2, Between

LEMMA LoadFailsFramed ==
    ASSUME Framed, NEW o \in Objects, NEW c \in Fresh, NEW h \in {"pass", "throw"},
           LoadFails(o, c, h)
    PROVE  Framed'
<1>0. /\ stack \in Seq(Item) /\ runs' = <<>> /\ UNCHANGED packageVars
      /\ res \in [Objects -> Result \cup {Gone}] /\ own' \in 0 .. MaxOwn
      /\ c \in Calls /\ Globals \in Envs
  BY ScriptsAssumption DEF LoadFails, Running, Framed, TypeOK, Fresh
<1> DEFINE st     == Append(stack, Val(c))
           result == [kind |-> "protected", index |-> Len(st), popcount |-> 1,
                      ok |-> FALSE, call |-> c, asked |-> Globals]
<1>1. st \in Seq(Item) /\ Len(st) \in Nat
  BY <1>0, ItemFacts, AppendFacts, LenProperties
<1>2. IF h = "pass"
      THEN stack' = st /\ res' = [res EXCEPT ![o] = result]
      ELSE stack' = thrown(st, result) /\ UNCHANGED res
  BY DEF LoadFails
<1> HIDE DEF st
<1>3. result \in Result
  BY <1>0, <1>1 DEF Result
<1> HIDE DEF result
<1>4. thrown(st, result) \in Seq(Item)
  BY <1>1, <1>3, ThrownType
<1>5. stack' \in Seq(Item) /\ res' \in [Objects -> Result \cup {Gone}]
  BY <1>0, <1>1, <1>2, <1>3, <1>4
<1> QED BY <1>0, <1>5, Between

\* A script the program starts is the only one that runs.
LEMMA Started ==
    ASSUME Framed, UNCHANGED <<res, own, packageVars>>,
           NEW r, r \in Run, runs' = <<r>>, stack' \in Seq(Item),
           r.how # "require", r.func = Len(stack'), r.func > 0,
           r.how = "protected" => r.func > 1
    PROVE  Framed'
<1>1. UNCHANGED <<loaded, global, ran, handed, wanted>>
  BY DEF packageVars
<1>2. runs' \in Seq(Run) /\ DOMAIN runs' = {1} /\ runs'[1] = r /\ Last(runs') = r
  BY DEF Last
<1>3. TypeOK'
  BY <1>1, <1>2 DEF Framed, TypeOK
<1>4. FramesSound'
  <2>1. Len(stack') \in Nat
    BY LenProperties
  <2> QED BY <1>2, <2>1 DEF FramesSound
<1>5. TablesSound'
  BY <1>1 DEF Framed, TablesSound
<1> QED BY <1>3, <1>4, <1>5 DEF Framed

\* What they leave on the stack: the first chunk of a safe script goes
\* behind its handler.
LEMMA ScriptStack ==
    ASSUME stack \in Seq(Item), NEW c \in Calls, NEW e \in Envs
    PROVE  LET chunk == set_on(Append(stack, Chunk(c, Globals)), Len(stack) + 1, FALSE, e)
           IN  /\ chunk \in Seq(Item) /\ chunk # <<>> /\ Len(chunk) = Len(stack) + 1
               /\ Last(chunk) = Chunk(c, e)
               /\ \A i \in 1 .. Len(stack) :
                     chunk[i] = Upvalued(stack[i], Chunk(c, Globals), e)
<1> DEFINE s == Append(stack, Chunk(c, Globals))
           chunk == set_on(s, Len(stack) + 1, FALSE, e)
<1>1. Chunk(c, Globals) \in Item /\ Len(stack) \in Nat
  BY ItemFacts, ScriptsAssumption, LenProperties
<1>2. /\ s \in Seq(Item) /\ Len(s) = Len(stack) + 1 /\ s[Len(s)] = Chunk(c, Globals)
      /\ \A i \in 1 .. Len(stack) : s[i] = stack[i]
  BY <1>1, AppendFacts
<1> HIDE DEF s
<1>3. Len(stack) + 1 \in 1 .. Len(s) /\ FALSE \in BOOLEAN
  BY <1>1, <1>2
<1>4. /\ chunk \in Seq(Item) /\ Len(chunk) = Len(s)
      /\ \A i \in 1 .. Len(s) : chunk[i] = Upvalued(s[i], Chunk(c, Globals), e)
  <2> DEFINE at == Len(stack) + 1
  <2>1. at \in 1 .. Len(s)
    BY <1>3
  <2> HIDE DEF at
  <2>2. /\ set_on(s, at, FALSE, e) \in Seq(Item)
        /\ Len(set_on(s, at, FALSE, e)) = Len(s)
        /\ \A i \in 1 .. Len(s) : set_on(s, at, FALSE, e)[i] = Upvalued(s[i], s[Len(s)], e)
    BY <1>2, <2>1, SetOnTop
  <2> QED BY <1>2, <2>2 DEF at
<1> HIDE DEF chunk
<1>5. Upvalued(Chunk(c, Globals), Chunk(c, Globals), e) = Chunk(c, e)
  BY DEF Upvalued, Chunk
<1>6. Last(chunk) = Chunk(c, e)
  BY <1>1, <1>2, <1>4, <1>5 DEF Last
<1>7. \A i \in 1 .. Len(stack) : chunk[i] = Upvalued(stack[i], Chunk(c, Globals), e)
  BY <1>1, <1>2, <1>4
<1>8. chunk # <<>>
  BY <1>1, <1>2, <1>4
<1> QED BY <1>2, <1>4, <1>6, <1>7, <1>8 DEF chunk, s

\* Two values put above a stack.
LEMMA TwoMore ==
    ASSUME NEW S, NEW s \in Seq(S), NEW a \in S, NEW b \in S
    PROVE  /\ s \o <<a, b>> \in Seq(S)
           /\ Len(s \o <<a, b>>) = Len(s) + 2
           /\ \A i \in 1 .. Len(s) : (s \o <<a, b>>)[i] = s[i]
           /\ (s \o <<a, b>>)[Len(s) + 1] = a /\ (s \o <<a, b>>)[Len(s) + 2] = b
<1>1. /\ <<a, b>> \in Seq(S) /\ Len(<<a, b>>) = 2 /\ <<a, b>>[1] = a /\ <<a, b>>[2] = b
      /\ Len(s) \in Nat
  BY LenProperties
<1>2. /\ s \o <<a, b>> \in Seq(S)
      /\ Len(s \o <<a, b>>) = Len(s) + Len(<<a, b>>)
      /\ \A i \in 1 .. Len(s) + Len(<<a, b>>) : (s \o <<a, b>>)[i] =
             IF i <= Len(s) THEN s[i] ELSE <<a, b>>[i - Len(s)]
  BY <1>1, ConcatProperties
<1>3. \A i \in 1 .. Len(s) + 2 : (s \o <<a, b>>)[i] =
             IF i <= Len(s) THEN s[i] ELSE <<a, b>>[i - Len(s)]
  BY <1>1, <1>2
<1>4. \A i \in 1 .. Len(s) : (s \o <<a, b>>)[i] = s[i]
  BY <1>1, <1>3
<1>5. (s \o <<a, b>>)[Len(s) + 1] = <<a, b>>[1]
  <2>1. Len(s) + 1 \in 1 .. Len(s) + 2 /\ ~(Len(s) + 1 <= Len(s))
        /\ (Len(s) + 1) - Len(s) = 1
    BY <1>1
  <2> QED BY <1>3, <2>1
<1>6. (s \o <<a, b>>)[Len(s) + 2] = <<a, b>>[2]
  <2>1. Len(s) + 2 \in 1 .. Len(s) + 2 /\ ~(Len(s) + 2 <= Len(s))
        /\ (Len(s) + 2) - Len(s) = 2
    BY <1>1
  <2> QED BY <1>3, <2>1
<1> QED BY <1>1, <1>2, <1>4, <1>5, <1>6

LEMMA SafeScriptFramed ==
    ASSUME Framed, NEW o \in Objects, NEW c \in Fresh, NEW h \in {"pass", "throw"},
           NEW e \in Envs, safe_script(o, c, h, e)
    PROVE  Framed'
<1>0. /\ stack \in Seq(Item) /\ UNCHANGED <<res, own, packageVars>> /\ c \in Calls
  BY DEF safe_script, Framed, TypeOK, Fresh
<1> DEFINE chunk == set_on(Append(stack, Chunk(c, Globals)), Len(stack) + 1, FALSE, e)
           r == [how |-> "protected", func |-> Len(stack) + 2, into |-> o,
                 call |-> c, handler |-> h, asked |-> e]
<1>1. stack' = Front(chunk) \o <<H, Last(chunk)>> /\ runs' = <<r>>
  BY DEF safe_script
<1>2. chunk \in Seq(Item) /\ chunk # <<>> /\ Len(chunk) = Len(stack) + 1
  BY <1>0, ScriptStack
<1> HIDE DEF chunk
<1>3. Front(chunk) \in Seq(Item) /\ Len(Front(chunk)) = Len(stack) /\ Last(chunk) \in Item
      /\ Len(stack) \in Nat
  BY <1>0, <1>2, LastFrontFacts, LenProperties
<1>4. stack' \in Seq(Item) /\ Len(stack') = Len(stack) + 2
  BY <1>1, <1>3, ItemFacts, TwoMore
<1>5. r \in Run /\ r.how = "protected" /\ r.func = Len(stack) + 2
  BY <1>0, <1>3 DEF Run
<1> HIDE DEF r
<1> QED BY <1>0, <1>1, <1>3, <1>4, <1>5, Started

LEMMA UnsafeScriptFramed ==
    ASSUME Framed, NEW o \in Objects, NEW c \in Fresh, NEW e \in Envs,
           unsafe_script(o, c, e)
    PROVE  Framed'
<1>0. /\ stack \in Seq(Item) /\ UNCHANGED <<res, own, packageVars>> /\ c \in Calls
  BY DEF unsafe_script, Framed, TypeOK, Fresh
<1> DEFINE chunk == set_on(Append(stack, Chunk(c, Globals)), Len(stack) + 1, FALSE, e)
           r == [how |-> "unsafe", func |-> Len(stack) + 1, into |-> o,
                 call |-> c, handler |-> "pass", asked |-> e]
<1>1. stack' = chunk /\ runs' = <<r>>
  BY DEF unsafe_script
<1>2. chunk \in Seq(Item) /\ Len(chunk) = Len(stack) + 1 /\ Len(stack) \in Nat
  BY <1>0, ScriptStack, LenProperties
<1> HIDE DEF chunk
<1>5. r \in Run /\ r.how = "unsafe" /\ r.func = Len(stack) + 1
  BY <1>0, <1>2 DEF Run
<1> HIDE DEF r
<1> QED BY <1>0, <1>1, <1>2, <1>5, Started

LEMMA CallLoadedFramed ==
    ASSUME Framed, NEW o \in Objects, NEW p \in Objects, NEW c \in Fresh,
           CallLoaded(o, p, c)
    PROVE  Framed'
<1>0. /\ stack \in Seq(Item) /\ UNCHANGED <<res, own, packageVars>> /\ c \in Calls
      /\ res[o].index \in 1 .. Len(stack) /\ Len(stack) \in Nat
      /\ Owns(o) /\ stack' = stack \o <<H, stack[res[o].index]>>
  BY LenProperties DEF CallLoaded, Framed, TypeOK, Fresh
<1> DEFINE r == [how |-> "protected", func |-> Len(stack) + 2, into |-> p,
                 call |-> c, handler |-> "pass", asked |-> res[o].asked]
<1>1. runs' = <<r>>
  BY DEF CallLoaded
<1>2. stack[res[o].index] \in Item /\ res[o].asked \in Envs
  BY <1>0, LenProperties, ResultType DEF Framed
<1>4. stack' \in Seq(Item) /\ Len(stack') = Len(stack) + 2
  BY <1>0, <1>2, ItemFacts, TwoMore
<1>5. r \in Run /\ r.how = "protected" /\ r.func = Len(stack) + 2
  BY <1>0, <1>2 DEF Run
<1> HIDE DEF r
<1> QED BY <1>0, <1>1, <1>4, <1>5, Started

LEMMA FrameType ==
    ASSUME Framed, NEW i \in DOMAIN runs
    PROVE  /\ runs[i] \in Run /\ runs[i].func \in 1 .. Len(stack) /\ Len(stack) \in Nat
           /\ runs[i].how \in {"protected", "unsafe", "require"}
           /\ runs[i].how # "require" =>
                 /\ runs[i].into \in Objects /\ runs[i].call \in Calls
                 /\ runs[i].handler \in {"pass", "throw"} /\ runs[i].asked \in Envs
           /\ runs[i].how = "require" =>
                 /\ runs[i].base \in Nat /\ runs[i].key \in Packages
                 /\ runs[i].create \in BOOLEAN /\ runs[i].n \in 1 .. MaxRuns
<1>1. runs[i] \in Run /\ Len(stack) \in Nat
  BY LenProperties DEF Framed, TypeOK
<1> QED BY <1>1 DEF Framed, FramesSound, Run

LEMMA ProtectedEnd ==
    ASSUME Framed, runs # <<>>, runs[1].how = "protected",
           NEW values \in Seq(Item), NEW ok \in BOOLEAN,
           EndProtected(runs[1], values, ok)
    PROVE  stack' \in Seq(Item) /\ res' \in [Objects -> Result \cup {Gone}] /\ own' = own
<1> DEFINE r == runs[1]
           st == SubSeq(stack, 1, r.func - 1) \o values
           result == protectedResult(r.call, r.asked, st, r.func, ok)
           bare == removed(st, r.func - 1, 1)
<1>0. /\ stack \in Seq(Item) /\ res \in [Objects -> Result \cup {Gone}]
      /\ 1 \in DOMAIN runs
  BY EmptySeq, LenProperties DEF Framed, TypeOK
<1>1. /\ r.func \in 2 .. Len(stack) /\ Len(stack) \in Nat
      /\ r.into \in Objects /\ r.call \in Calls /\ r.asked \in Envs
  BY <1>0, FrameType DEF Framed, FramesSound
<1>2. /\ IF ok \/ r.handler = "pass"
         THEN stack' = bare /\ res' = [res EXCEPT ![r.into] = result]
         ELSE stack' = thrown(bare, result) /\ UNCHANGED res
      /\ own' = own
  BY DEF EndProtected
<1> HIDE DEF r
<1>3. SubSeq(stack, 1, r.func - 1) \in Seq(Item) /\ Len(SubSeq(stack, 1, r.func - 1)) = r.func - 1
  <2>1. r.func - 1 \in Int /\ r.func - 1 <= Len(stack) /\ r.func - 1 > 0
    BY <1>1
  <2> QED BY <1>0, <2>1, PrefixFacts
<1>4. st \in Seq(Item) /\ Len(st) = r.func - 1 + Len(values) /\ Len(values) \in Nat
  BY <1>3, ConcatProperties, LenProperties
<1> HIDE DEF st
<1>5. result \in Result
  <2>1. /\ r.func - 1 \in Nat
        /\ (Len(st) - 1) - ((r.func - 1) - 1) \in Nat
    BY <1>1, <1>4, SMTT(30)
  <2> QED BY <1>1, <2>1 DEF Result, protectedResult
<1> HIDE DEF result
<1>6. bare \in Seq(Item)
  <2>1. r.func - 1 \in Nat /\ 1 \in Nat
    BY <1>1
  <2> QED BY <2>1, <1>4, RemovedType
<1> HIDE DEF bare
<1>7. thrown(bare, result) \in Seq(Item)
  BY <1>5, <1>6, ThrownType
<1> QED BY <1>0, <1>1, <1>2, <1>5, <1>6, <1>7

LEMMA ValuesType ==
    ASSUME NEW c \in Calls, NEW k \in Nat
    PROVE  /\ [i \in 1 .. k |-> Val(c)] \in Seq(Item)
           /\ Len([i \in 1 .. k |-> Val(c)]) = k
           /\ \A i \in 1 .. k : [j \in 1 .. k |-> Val(c)][i] = Val(c)
<1>1. [i \in 1 .. k |-> Val(c)] \in Seq(Item)
  BY ItemFacts, SeqDef
<1> QED BY <1>1, LenProperties

LEMMA FinishFramed ==
    ASSUME Framed, NEW k \in 0 .. 2, Finish(k)
    PROVE  Framed'
<1> DEFINE r == runs[1]
           values == [i \in 1 .. k |-> Val(r.call)]
<1>0. /\ Len(runs) = 1 /\ r.how # "require" /\ runs' = <<>> /\ UNCHANGED packageVars
      /\ IF r.how = "protected" THEN EndProtected(r, values, TRUE)
         ELSE EndUnsafe(r, values)
  BY DEF Finish
<1>1. /\ stack \in Seq(Item) /\ res \in [Objects -> Result \cup {Gone}]
      /\ 1 \in DOMAIN runs /\ runs # <<>> /\ own \in 0 .. MaxOwn
  <2>1. runs \in Seq(Run) /\ Len(runs) = 1
    BY <1>0 DEF Framed, TypeOK
  <2>2. DOMAIN runs = 1 .. 1
    BY <2>1, LenProperties
  <2>3. runs # <<>>
    BY <2>1, EmptySeq
  <2> QED BY <2>2, <2>3 DEF Framed, TypeOK
<1>2. /\ r.func \in 1 .. Len(stack) /\ Len(stack) \in Nat
      /\ r.into \in Objects /\ r.call \in Calls /\ r.asked \in Envs
      /\ r.how \in {"protected", "unsafe"}
  BY <1>0, <1>1, FrameType
<1>3. values \in Seq(Item) /\ Len(values) = k
  <2>1. k \in Nat
    OBVIOUS
  <2> HIDE DEF r
  <2> QED BY <1>2, <2>1, ValuesType
<1> HIDE DEF values
<1>4. CASE r.how = "protected"
  <2>1. stack' \in Seq(Item) /\ res' \in [Objects -> Result \cup {Gone}] /\ own' = own
    BY <1>0, <1>1, <1>3, <1>4, ProtectedEnd
  <2> QED BY <1>0, <1>1, <2>1, Between
<1>5. CASE r.how = "unsafe"
  <2> DEFINE st == SubSeq(stack, 1, r.func - 1) \o values
             returns == returnsOf(Len(st), r.func - 1)
             at == Len(st) - (returns - 1)
             result == [kind |-> "unsafe", index |-> IF at < 1 THEN 1 ELSE at,
                        popcount |-> returns, ok |-> TRUE, call |-> r.call,
                        asked |-> r.asked]
  <2>1. stack' = st /\ res' = [res EXCEPT ![r.into] = result] /\ own' = own
    BY <1>0, <1>5 DEF EndUnsafe
  <2> HIDE DEF r
  <2>2. /\ SubSeq(stack, 1, r.func - 1) \in Seq(Item)
        /\ Len(SubSeq(stack, 1, r.func - 1)) = r.func - 1
    <3>1. r.func - 1 \in Int /\ r.func - 1 <= Len(stack) /\ r.func - 1 >= 0
      BY <1>2
    <3> QED BY <1>1, <3>1, PrefixFacts
  <2>3. st \in Seq(Item) /\ Len(st) = r.func - 1 + k
    BY <1>3, <2>2, ConcatProperties, LenProperties
  <2> HIDE DEF st
  <2>4. returns = k
    BY <1>2, <2>3 DEF returnsOf
  <2> HIDE DEF returns
  <2>5. result \in Result
    <3>1. at \in Int
      BY <1>2, <2>3, <2>4
    <3>2. (IF at < 1 THEN 1 ELSE at) \in Nat
      BY <3>1
    <3> HIDE DEF at
    <3> QED BY <1>2, <2>4, <3>2 DEF Result
  <2> HIDE DEF result
  <2>6. res' \in [Objects -> Result \cup {Gone}]
    BY <1>1, <1>2, <2>1, <2>5
  <2> QED BY <1>0, <1>1, <2>1, <2>3, <2>6, Between
<1> QED BY <1>2, <1>4, <1>5

LEMMA FailFramed ==
    ASSUME Framed, Fail
    PROVE  Framed'
<1>0. /\ runs # <<>> /\ runs' = <<>> /\ UNCHANGED packageVars
      /\ IF runs[1].how = "protected"
         THEN EndProtected(runs[1], <<Val(runs[1].call)>>, FALSE)
         ELSE Panic /\ UNCHANGED res
  BY DEF Fail, Running
<1>1. /\ stack \in Seq(Item) /\ res \in [Objects -> Result \cup {Gone}]
      /\ 1 \in DOMAIN runs /\ own \in 0 .. MaxOwn /\ MaxOwn \in Nat
  BY <1>0, EmptySeq, LenProperties, ScriptsAssumption DEF Framed, TypeOK
<1>2. CASE runs[1].how = "protected"
  <2>1. Val(runs[1].call) \in Item
    BY <1>1, <1>2, FrameType, ItemFacts
  <2>2. <<Val(runs[1].call)>> \in Seq(Item)
    BY <2>1
  <2>3. stack' \in Seq(Item) /\ res' \in [Objects -> Result \cup {Gone}] /\ own' = own
    BY <1>0, <1>2, <2>2, ProtectedEnd
  <2> QED BY <1>0, <1>1, <2>3, Between
<1>3. CASE runs[1].how # "protected"
  <2>1. stack' \in Seq(Item) /\ own' \in 0 .. MaxOwn /\ UNCHANGED res
    BY <1>0, <1>1, <1>3, EmptySeq DEF Panic
  <2> QED BY <1>0, <1>1, <2>1, Between
<1> QED BY <1>2, <1>3
\* A package's entries, after a value of its own became its value.
LEMMA TablesKept ==
    ASSUME Framed, NEW p \in Packages, NEW v \in Registered(p), NEW create \in BOOLEAN,
           loaded' = [loaded EXCEPT ![p] = v] \/ loaded' = loaded,
           global' = [global EXCEPT ![p] = v] \/ global' = global,
           handed' = [handed EXCEPT ![p] = @ \cup {v}],
           wanted' = IF create THEN wanted \cup {p} ELSE wanted,
           ran' = ran \/ (ran' = [ran EXCEPT ![p] = @ + 1] /\ ran[p] < MaxRuns)
    PROVE  /\ TablesSound' /\ wanted' \subseteq Packages
           /\ \A q \in Packages : /\ {loaded'[q], global'[q]} \subseteq Registered(q)
                                  /\ ran'[q] \in 0 .. MaxRuns
                                  /\ handed'[q] \subseteq Registered(q)
<1>0. /\ loaded \in [Packages -> Registry] /\ global \in [Packages -> Registry]
      /\ ran \in [Packages -> 0 .. MaxRuns] /\ handed \in [Packages -> SUBSET Registry]
      /\ wanted \subseteq Packages
      /\ \A q \in Packages : /\ {loaded[q], global[q]} \subseteq Registered(q)
                             /\ handed[q] \subseteq Registered(q)
  BY DEF Framed, TypeOK, TablesSound
<1>1. v \in Registry
  BY DEF Registry
<1>2. ran' \in [Packages -> 0 .. MaxRuns]
  <2>1. ran[p] < MaxRuns => ran[p] + 1 \in 0 .. MaxRuns
    BY <1>0, ScriptsAssumption
  <2> QED BY <1>0, <2>1
<1>3. loaded' \in [Packages -> Registry] /\ global' \in [Packages -> Registry]
      /\ handed' \in [Packages -> SUBSET Registry]
  BY <1>0, <1>1
<1>4. \A q \in Packages : /\ {loaded'[q], global'[q]} \subseteq Registered(q)
                          /\ handed'[q] \subseteq Registered(q)
  BY <1>0
<1> QED BY <1>0, <1>2, <1>3, <1>4 DEF TablesSound

\* Where only tables change, the rest stays as it was.
LEMMA OnlyTables ==
    ASSUME Framed, UNCHANGED <<stack, runs, res, own>>,
           TablesSound', wanted' \subseteq Packages,
           \A q \in Packages : /\ {loaded'[q], global'[q]} \subseteq Registered(q)
                               /\ ran'[q] \in 0 .. MaxRuns
                               /\ handed'[q] \subseteq Registered(q)
    PROVE  Framed'
<1>1. TypeOK'
  BY DEF Framed, TypeOK
<1>2. FramesSound'
  BY DEF Framed, FramesSound
<1> QED BY <1>1, <1>2 DEF Framed

LEMMA ModuleRegistered ==
    ASSUME NEW p \in Packages, NEW n \in 1 .. MaxRuns
    PROVE  Module(p, n) \in Registered(p)
BY DEF Registered, Modules

LEMMA RequirefFramed ==
    ASSUME Framed, NEW p \in Packages, NEW create \in BOOLEAN, requiref(p, create)
    PROVE  Framed'
<1> DEFINE value == IF is_loaded_package(p) THEN loaded[p] ELSE Module(p, ran[p] + 1)
<1>1. /\ loaded' = [loaded EXCEPT ![p] = value]
      /\ global' = [global EXCEPT ![p] = value] \/ global' = global
      /\ handed' = [handed EXCEPT ![p] = @ \cup {value}]
      /\ wanted' = IF create THEN wanted \cup {p} ELSE wanted
      /\ UNCHANGED <<stack, runs, res, own>>
  BY DEF requiref
<1>2. ran' = ran \/ (ran' = [ran EXCEPT ![p] = @ + 1] /\ ran[p] < MaxRuns)
  BY DEF requiref
<1>3. value \in Registered(p)
  <2>1. CASE is_loaded_package(p)
    BY <2>1 DEF Framed, TypeOK
  <2>2. CASE ~is_loaded_package(p)
    <3>1. ran[p] \in 0 .. MaxRuns /\ ran[p] < MaxRuns /\ MaxRuns \in Nat
      BY <2>2, ScriptsAssumption DEF requiref, Framed, TypeOK
    <3>2. ran[p] + 1 \in 1 .. MaxRuns
      BY <3>1
    <3> QED BY <2>2, <3>2, ModuleRegistered
  <2> QED BY <2>1, <2>2
<1> HIDE DEF value
<1>4. /\ TablesSound' /\ wanted' \subseteq Packages
      /\ \A q \in Packages : /\ {loaded'[q], global'[q]} \subseteq Registered(q)
                             /\ ran'[q] \in 0 .. MaxRuns
                             /\ handed'[q] \subseteq Registered(q)
  BY <1>1, <1>2, <1>3, TablesKept
<1> QED BY <1>1, <1>4, OnlyTables

LEMMA RequireLoadedFramed ==
    ASSUME Framed, NEW p \in Packages, NEW create \in BOOLEAN, require_loaded(p, create)
    PROVE  Framed'
<1>1. /\ loaded' = loaded /\ global' = global /\ ran' = ran
      /\ handed' = [handed EXCEPT ![p] = @ \cup {loaded[p]}]
      /\ wanted' = IF create THEN wanted \cup {p} ELSE wanted
      /\ UNCHANGED <<stack, runs, res, own>>
  BY DEF require_loaded
<1>2. loaded[p] \in Registered(p)
  BY DEF Framed, TypeOK
<1>3. /\ TablesSound' /\ wanted' \subseteq Packages
      /\ \A q \in Packages : /\ {loaded'[q], global'[q]} \subseteq Registered(q)
                             /\ ran'[q] \in 0 .. MaxRuns
                             /\ handed'[q] \subseteq Registered(q)
  BY <1>1, <1>2, TablesKept
<1> QED BY <1>1, <1>3, OnlyTables

LEMMA RequireScriptFramed ==
    ASSUME Framed, NEW p \in Packages, NEW create \in BOOLEAN, require_script(p, create)
    PROVE  Framed'
<1> DEFINE st == IF Running THEN Append(stack, Arg) ELSE stack
           base == IF Running THEN Len(stack) ELSE 0
           r == [how |-> "require", func |-> Len(st) + 1, base |-> base, key |-> p,
                 create |-> create, n |-> ran[p] + 1]
<1>0. /\ stack \in Seq(Item) /\ Len(stack) \in Nat /\ runs \in Seq(Run)
      /\ UNCHANGED <<res, own, loaded, global, handed, wanted>>
      /\ ran[p] \in 0 .. MaxRuns /\ ran[p] < MaxRuns /\ MaxRuns \in Nat
      /\ ran \in [Packages -> 0 .. MaxRuns]
  BY LenProperties, ScriptsAssumption DEF Framed, TypeOK, TablesSound, require_script
<1>1. /\ stack' = Append(st, Script(p)) /\ runs' = Append(runs, r)
      /\ ran' = [ran EXCEPT ![p] = @ + 1]
  BY DEF require_script
<1>2. /\ st \in Seq(Item) /\ Len(st) = IF Running THEN Len(stack) + 1 ELSE Len(stack)
  BY <1>0, ItemFacts, AppendFacts
<1>3. stack' \in Seq(Item) /\ Len(stack') = Len(st) + 1
  BY <1>1, <1>2, ItemFacts, AppendFacts
<1> HIDE DEF st
<1>4. base \in Nat /\ Len(st) \in Nat
  BY <1>0, <1>2
<1>5. r \in Run /\ r.how = "require" /\ r.func = Len(st) + 1 /\ r.base = base
  <2>1. ran[p] + 1 \in 1 .. MaxRuns
    BY <1>0
  <2> QED BY <1>4, <2>1 DEF Run
<1> HIDE DEF r
<1>6. /\ runs' \in Seq(Run) /\ Len(runs') = Len(runs) + 1 /\ Len(runs) \in Nat
      /\ runs'[Len(runs) + 1] = r /\ \A i \in 1 .. Len(runs) : runs'[i] = runs[i]
  BY <1>0, <1>1, <1>5, AppendFacts, LenProperties
<1>7. ran' \in [Packages -> 0 .. MaxRuns]
  <2>1. ran[p] + 1 \in 0 .. MaxRuns
    BY <1>0
  <2> QED BY <1>0, <1>1, <2>1
<1>8. TypeOK'
  BY <1>0, <1>3, <1>6, <1>7 DEF Framed, TypeOK
<1>9. TablesSound'
  BY <1>0, <1>7 DEF Framed, TablesSound
<1>10. FramesSound'
  <2> DEFINE n == Len(runs)
  <2>1. /\ n \in Nat /\ DOMAIN runs = 1 .. n /\ DOMAIN runs' = 1 .. n + 1
        /\ (Running <=> n > 0) /\ runs'[n + 1] = r
        /\ \A i \in 1 .. n : runs'[i] = runs[i]
        /\ Last(runs') = r
    <3>1. Running <=> n > 0
      BY <1>0, <1>6, EmptySeq DEF Running
    <3>2. DOMAIN runs' = 1 .. Len(runs')
      BY <1>6, LenProperties
    <3>3. Last(runs') = runs'[Len(runs')]
      BY DEF Last
    <3> QED BY <1>0, <1>6, <3>1, <3>2, <3>3, LenProperties
  <2> HIDE DEF n
  <2> DEFINE m == Len(stack)
             m1 == Len(stack')
  <2>2. /\ m \in Nat /\ m1 = IF n > 0 THEN m + 2 ELSE m + 1
        /\ r.func = m1 /\ r.base = IF n > 0 THEN m ELSE 0
    BY <1>0, <1>2, <1>3, <1>4, <1>5, <2>1
  <2>3. \A i \in 1 .. n : runs[i].func \in 1 .. m
    BY <2>1 DEF Framed, FramesSound
  <2>4. n > 0 => runs[n].func = m
    <3>1. n > 0 => runs # <<>>
      BY <2>1 DEF Running
    <3>2. Last(runs) = runs[n]
      BY DEF Last, n
    <3> QED BY <3>1, <3>2 DEF Framed, FramesSound
  <2> HIDE DEF m, m1
  <2>5. \A i \in 1 .. n + 1 :
          /\ runs'[i].func \in 1 .. m1
          /\ i > 1 \/ runs'[i].how = "protected" => runs'[i].func > 1
          /\ i > 1 => /\ runs'[i].how = "require"
                      /\ runs'[i].base = runs'[i].func - 2
                      /\ runs'[i].base = runs'[i - 1].func
          /\ i = 1 /\ runs'[i].how = "require" => runs'[i].base = 0
    <3> SUFFICES ASSUME NEW i \in 1 .. n + 1
        PROVE  /\ runs'[i].func \in 1 .. m1
               /\ i > 1 \/ runs'[i].how = "protected" => runs'[i].func > 1
               /\ i > 1 => /\ runs'[i].how = "require"
                           /\ runs'[i].base = runs'[i].func - 2
                           /\ runs'[i].base = runs'[i - 1].func
               /\ i = 1 /\ runs'[i].how = "require" => runs'[i].base = 0
      OBVIOUS
    <3>1. CASE i \in 1 .. n
      <4>1. /\ i > 1 \/ runs[i].how = "protected" => runs[i].func > 1
            /\ i > 1 => /\ runs[i].how = "require"
                        /\ runs[i].base = runs[i].func - 2
                        /\ runs[i].base = runs[i - 1].func
            /\ i = 1 /\ runs[i].how = "require" => runs[i].base = 0
        BY <3>1, <2>1 DEF Framed, FramesSound
      <4>2. runs'[i] = runs[i] /\ (i > 1 => runs'[i - 1] = runs[i - 1])
        <5>1. i > 1 => i - 1 \in 1 .. n
          BY <2>1, <3>1
        <5> QED BY <2>1, <3>1, <5>1
      <4>3. runs[i].func \in 1 .. m1
        BY <2>2, <2>3, <3>1
      <4> QED BY <4>1, <4>2, <4>3
    <3>2. CASE i = n + 1
      <4>1. runs'[i] = r
        BY <2>1, <3>2
      <4>2. i > 1 => runs'[i - 1] = runs[n]
        <5>1. i > 1 => i - 1 = n /\ n \in 1 .. n
          BY <2>1, <3>2
        <5> QED BY <2>1, <5>1
      <4>3. i > 1 <=> n > 0
        BY <2>1, <3>2
      <4> QED BY <1>5, <2>2, <2>4, <4>1, <4>2, <4>3
    <3> QED BY <2>1, <3>1, <3>2
  <2>6. \A i, j \in 1 .. n + 1 : i < j => runs'[i].func + 2 <= runs'[j].func
    <3> SUFFICES ASSUME NEW i \in 1 .. n + 1, NEW j \in 1 .. n + 1, i < j
                 PROVE  runs'[i].func + 2 <= runs'[j].func
      OBVIOUS
    <3>1. i \in 1 .. n /\ runs'[i] = runs[i]
      BY <2>1
    <3>2. CASE j \in 1 .. n
      <4>1. runs[i].func + 2 <= runs[j].func
        BY <2>1, <3>1, <3>2 DEF Framed, FramesSound
      <4> QED BY <2>1, <3>1, <3>2, <4>1
    <3>3. CASE j = n + 1
      BY <2>1, <2>2, <2>3, <3>1, <3>3
    <3> QED BY <2>1, <3>2, <3>3
  <2>7. Last(runs').func = m1
    BY <2>1, <2>2
  <2> QED BY <2>1, <2>5, <2>6, <2>7 DEF FramesSound, m1
<1> QED BY <1>8, <1>9, <1>10 DEF Framed
\* The innermost package's script, its frame and what lies below it.
LEMMA InnermostFacts ==
    ASSUME Framed, runs # <<>>, Last(runs).how = "require"
    PROVE  /\ Last(runs) = runs[Len(runs)] /\ Len(runs) \in Nat \ {0}
           /\ DOMAIN runs = 1 .. Len(runs)
           /\ Last(runs) \in Run /\ Last(runs).func = Len(stack)
           /\ Len(stack) \in Nat \ {0}
           /\ Last(runs).key \in Packages /\ Last(runs).create \in BOOLEAN
           /\ Last(runs).n \in 1 .. MaxRuns
           /\ Last(runs).base = IF Len(runs) > 1 THEN Len(stack) - 2 ELSE 0
           /\ Len(runs) > 1 => runs[Len(runs) - 1].func = Last(runs).base
<1>1. runs \in Seq(Run) /\ DOMAIN runs = 1 .. Len(runs)
  BY LenProperties DEF Framed, TypeOK
<1>2. Len(runs) \in Nat \ {0} /\ Last(runs) = runs[Len(runs)]
  BY <1>1, LastFrontFacts
<1> DEFINE n == Len(runs)
<1>3. n \in 1 .. n /\ n \in DOMAIN runs
  BY <1>1, <1>2
<1>4. /\ runs[n] \in Run /\ runs[n].func \in 1 .. Len(stack) /\ Len(stack) \in Nat
      /\ runs[n].how = "require"
      /\ runs[n].key \in Packages /\ runs[n].create \in BOOLEAN
      /\ runs[n].n \in 1 .. MaxRuns
  BY <1>2, <1>3, FrameType
<1>5. /\ n > 1 => /\ runs[n].base = runs[n].func - 2 /\ runs[n].base = runs[n - 1].func
      /\ n = 1 => runs[n].base = 0
  BY <1>3, <1>4 DEF Framed, FramesSound
<1>6. runs[n].func = Len(stack)
  BY <1>2 DEF Framed, FramesSound
<1> HIDE DEF n
<1>7. n \in Nat \ {0}
  BY <1>2 DEF n
<1>8. runs[n].base = IF n > 1 THEN Len(stack) - 2 ELSE 0
  BY <1>5, <1>6, <1>7
<1> QED BY <1>1, <1>2, <1>4, <1>5, <1>6, <1>8 DEF n

\* What EndRequire leaves of the stack when the script returned k values.
Returned(r, k, first) ==
    SubSeq(stack, 1, r.func - 1) \o (IF k = 0 THEN <<>> ELSE <<first>>)
                                 \o (IF k < 2 THEN <<>> ELSE <<Foreign>>)

LEMMA ReturnedFacts ==
    ASSUME Framed, runs # <<>>, Last(runs).how = "require",
           NEW k \in 0 .. 2, NEW first \in Item
    PROVE  LET st == Returned(Last(runs), k, first)
           IN  /\ st \in Seq(Item) /\ Len(st) = Len(stack) - 1 + k
               /\ k = 1 => st[Len(stack)] = first
               /\ \A i \in 1 .. Len(stack) - 1 : st[i] = stack[i]
<1> DEFINE m == Len(stack) - 1
           a == SubSeq(stack, 1, m)
           b == IF k = 0 THEN <<>> ELSE <<first>>
           d == IF k < 2 THEN <<>> ELSE <<Foreign>>
<1>1. Last(runs).func = Len(stack) /\ Len(stack) \in Nat \ {0}
  BY InnermostFacts
<1>2. Returned(Last(runs), k, first) = a \o b \o d
  BY <1>1 DEF Returned
<1>3. m \in Nat /\ m \in Int /\ m <= Len(stack) /\ Len(stack) = m + 1
  BY <1>1
<1> HIDE DEF m
<1>4. a \in Seq(Item) /\ Len(a) = m /\ \A i \in 1 .. m : a[i] = stack[i]
  BY <1>3, PrefixFacts DEF Framed, TypeOK
<1> HIDE DEF a
<1>5. b \in Seq(Item) /\ Len(b) = (IF k = 0 THEN 0 ELSE 1) /\ (k = 1 => b[1] = first)
  OBVIOUS
<1>6. d \in Seq(Item) /\ Len(d) = (IF k < 2 THEN 0 ELSE 1)
  BY ItemFacts
<1> HIDE DEF b, d
<1>7. /\ a \o b \in Seq(Item) /\ Len(a \o b) = Len(a) + Len(b)
      /\ \A i \in 1 .. Len(a) + Len(b) :
            (a \o b)[i] = IF i <= Len(a) THEN a[i] ELSE b[i - Len(a)]
  BY <1>4, <1>5, ConcatProperties
<1> DEFINE ab == a \o b
<1>8. ab \in Seq(Item)
  BY <1>7
<1> HIDE DEF ab
<1>9. /\ ab \o d \in Seq(Item) /\ Len(ab \o d) = Len(ab) + Len(d)
      /\ \A i \in 1 .. Len(ab) + Len(d) :
            (ab \o d)[i] = IF i <= Len(ab) THEN ab[i] ELSE d[i - Len(ab)]
  BY <1>6, <1>8, ConcatProperties
<1>10. Len(ab) = m + (IF k = 0 THEN 0 ELSE 1)
  BY <1>4, <1>5, <1>7 DEF ab
<1>11. Len(ab \o d) = m + k
  BY <1>3, <1>6, <1>9, <1>10
<1>12. \A i \in 1 .. m : (ab \o d)[i] = stack[i]
  <2> SUFFICES ASSUME NEW i \in 1 .. m PROVE (ab \o d)[i] = stack[i]
    OBVIOUS
  <2>1. i <= Len(ab) /\ i \in 1 .. Len(ab) + Len(d)
    BY <1>3, <1>6, <1>10
  <2>2. ab[i] = a[i]
    <3>1. i <= Len(a) /\ i \in 1 .. Len(a) + Len(b)
      BY <1>3, <1>4, <1>5
    <3> QED BY <3>1, <1>7 DEF ab
  <2> QED BY <1>4, <1>9, <2>1, <2>2
<1>13. k = 1 => (ab \o d)[m + 1] = first
  <2> SUFFICES ASSUME k = 1 PROVE (ab \o d)[m + 1] = first
    OBVIOUS
  <2>1. Len(ab) = m + 1 /\ Len(d) = 0 /\ Len(b) = 1 /\ b[1] = first
    BY <1>5, <1>6, <1>10
  <2>2. (ab \o d)[m + 1] = ab[m + 1]
    BY <1>3, <1>9, <2>1
  <2>3. ab[m + 1] = b[1]
    <3>1. m + 1 \in 1 .. Len(a) + Len(b) /\ ~(m + 1 <= Len(a)) /\ (m + 1) - Len(a) = 1
      BY <1>3, <1>4, <2>1
    <3> QED BY <3>1, <1>7 DEF ab
  <2> QED BY <2>1, <2>2, <2>3
<1>14. Returned(Last(runs), k, first) = ab \o d
  BY <1>2 DEF ab
<1>15. Len(stack) - 1 = m
  BY DEF m
<1> HIDE DEF ab
<1> QED BY <1>3, <1>9, <1>11, <1>12, <1>13, <1>14, <1>15

LEMMA EndRequireFramed ==
    ASSUME Framed, NEW k \in 0 .. 2, NEW q \in Packages, NEW first \in Registered(q),
           EndRequire(k, first)
    PROVE  Framed'
<1> DEFINE r == Last(runs)
           st == Returned(r, k, first)
           top == Kept(r.key, Last(st))
           n == Len(runs)
           m == Len(stack)
<1>1. /\ runs # <<>> /\ r.how = "require"
      /\ Len(st) > r.base
      /\ global' = IF r.create THEN [global EXCEPT ![r.key] = top] ELSE global
      /\ loaded' = [loaded EXCEPT ![r.key] = top]
      /\ handed' = [handed EXCEPT ![r.key] = @ \cup {top}]
      /\ wanted' = IF r.create THEN wanted \cup {r.key} ELSE wanted
      /\ stack' = IF n > 1 THEN SubSeq(st, 1, r.base) ELSE Front(st)
      /\ runs' = Front(runs)
      /\ UNCHANGED <<res, own, ran>>
  BY DEF EndRequire, Running, Returned, ensure_package
<1>2. /\ r = runs[n] /\ n \in Nat \ {0} /\ DOMAIN runs = 1 .. n
      /\ r \in Run /\ r.func = m /\ m \in Nat \ {0}
      /\ r.key \in Packages /\ r.create \in BOOLEAN
      /\ r.base = IF n > 1 THEN m - 2 ELSE 0
      /\ n > 1 => runs[n - 1].func = r.base
  BY <1>1, InnermostFacts
<1>3. first \in Item
  BY ItemFacts
<1>4. st \in Seq(Item) /\ Len(st) = m - 1 + k
  BY <1>1, <1>3, ReturnedFacts
<1> HIDE DEF r, st
<1>5. top \in Registered(r.key)
  BY DEF Kept, Registered
<1> HIDE DEF top
<1>6. /\ TablesSound' /\ wanted' \subseteq Packages
      /\ \A p \in Packages : /\ {loaded'[p], global'[p]} \subseteq Registered(p)
                             /\ ran'[p] \in 0 .. MaxRuns
                             /\ handed'[p] \subseteq Registered(p)
  BY <1>1, <1>2, <1>5, TablesKept
<1>7. /\ runs' \in Seq(Run) /\ Len(runs') = n - 1
      /\ \A i \in 1 .. n - 1 : runs'[i] = runs[i]
  BY <1>1, LastFrontFacts DEF Framed, TypeOK
<1>8. stack' \in Seq(Item) /\ (n > 1 => Len(stack') = r.base)
  <2>1. CASE n > 1
    <3>1. r.base \in Int /\ r.base <= Len(st) /\ r.base > 0
      <4>1. n - 1 \in DOMAIN runs
        BY <1>2, <2>1
      <4>2. runs[n - 1].func > 0
        BY <4>1, FrameType
      <4> HIDE DEF n, m
      <4> QED BY <1>2, <1>4, <2>1, <4>2
    <3> QED BY <1>1, <1>4, <2>1, <3>1, PrefixFacts
  <2>2. CASE ~(n > 1)
    <3>1. Len(st) > 0
      BY <1>1, <1>2, <2>2
    <3>2. st # <<>>
      BY <3>1
    <3> QED BY <1>1, <1>4, <2>2, <3>2, LastFrontFacts
  <2> QED BY <2>1, <2>2
<1>9. TypeOK'
  BY <1>1, <1>6, <1>7, <1>8 DEF Framed, TypeOK
<1>10. FramesSound'
  <2>1. DOMAIN runs' = 1 .. n - 1
    BY <1>7, LenProperties
  <2>2. \A i \in 1 .. n - 1 :
           /\ i \in DOMAIN runs /\ runs'[i] = runs[i] /\ runs[i].func <= r.base
           /\ n > 1 /\ (i > 1 => i - 1 \in 1 .. n - 1)
    <3> SUFFICES ASSUME NEW i \in 1 .. n - 1
        PROVE  /\ i \in DOMAIN runs /\ runs'[i] = runs[i] /\ runs[i].func <= r.base
               /\ n > 1 /\ (i > 1 => i - 1 \in 1 .. n - 1)
      OBVIOUS
    <3>1. n > 1 /\ i \in DOMAIN runs /\ n \in DOMAIN runs /\ i < n
          /\ (i > 1 => i - 1 \in 1 .. n - 1)
      BY <1>2
    <3>2. runs[i].func + 2 <= runs[n].func /\ runs[i].func \in 1 .. m
      BY <3>1 DEF Framed, FramesSound
    <3> HIDE DEF n, m
    <3>3. runs[i].func <= r.base
      BY <1>2, <3>1, <3>2
    <3> QED BY <1>7, <3>1, <3>3
  <2>3. \A i \in 1 .. n - 1 :
          /\ runs'[i].func \in 1 .. Len(stack')
          /\ i > 1 \/ runs'[i].how = "protected" => runs'[i].func > 1
          /\ i > 1 => /\ runs'[i].how = "require"
                      /\ runs'[i].base = runs'[i].func - 2
                      /\ runs'[i].base = runs'[i - 1].func
          /\ i = 1 /\ runs'[i].how = "require" => runs'[i].base = 0
    <3> SUFFICES ASSUME NEW i \in 1 .. n - 1
        PROVE  /\ runs'[i].func \in 1 .. Len(stack')
               /\ i > 1 \/ runs'[i].how = "protected" => runs'[i].func > 1
               /\ i > 1 => /\ runs'[i].how = "require"
                           /\ runs'[i].base = runs'[i].func - 2
                           /\ runs'[i].base = runs'[i - 1].func
               /\ i = 1 /\ runs'[i].how = "require" => runs'[i].base = 0
      OBVIOUS
    <3>1. /\ runs[i].func \in 1 .. m
          /\ i > 1 \/ runs[i].how = "protected" => runs[i].func > 1
          /\ i > 1 => /\ runs[i].how = "require"
                      /\ runs[i].base = runs[i].func - 2
                      /\ runs[i].base = runs[i - 1].func
          /\ i = 1 /\ runs[i].how = "require" => runs[i].base = 0
      BY <2>2 DEF Framed, FramesSound
    <3>2. runs'[i] = runs[i] /\ (i > 1 => runs'[i - 1] = runs[i - 1])
      BY <2>2
    <3>3. runs[i].func \in 1 .. Len(stack')
      <4>1. runs[i].func <= r.base /\ Len(stack') = r.base /\ r.base \in Int
        BY <1>2, <1>8, <2>2
      <4> QED BY <3>1, <4>1
    <3> QED BY <3>1, <3>2, <3>3
  <2>4. \A i, j \in 1 .. n - 1 : i < j => runs'[i].func + 2 <= runs'[j].func
    BY <2>2 DEF Framed, FramesSound
  <2>5. runs' # <<>> => Last(runs').func = Len(stack')
    <3> SUFFICES ASSUME runs' # <<>> PROVE Last(runs').func = Len(stack')
      OBVIOUS
    <3>1. Len(runs') > 0 /\ Last(runs') = runs'[Len(runs')]
      <4>1. Len(runs') \in Nat /\ Len(runs') # 0
        BY <1>7, EmptySeq, LenProperties
      <4> QED BY <4>1 DEF Last
    <3>2. n > 1 /\ n - 1 \in 1 .. n - 1
      BY <1>2, <1>7, <3>1
    <3> QED BY <1>2, <1>7, <1>8, <3>1, <3>2
  <2> QED BY <2>1, <2>3, <2>4, <2>5 DEF FramesSound
<1> QED BY <1>6, <1>9, <1>10 DEF Framed

LEMMA NextFramed == Framed /\ [Next]_vars => Framed'
<1> SUFFICES ASSUME Framed, [Next]_vars PROVE Framed'
  OBVIOUS
<1>1. CASE PushOwn \/ PopOwn
  BY <1>1, OwnFramed
<1>2. CASE Fail
  BY <1>2, FailFramed
<1>3. CASE \E o \in Objects : Destroy(o) \/ ThrowLate(o)
  BY <1>3, DestroyFramed
<1>4. CASE \E o, p \in Objects : Move(p, o) \/ Copy(p, o)
  BY <1>4, MoveFramed
<1>5. CASE \E o \in Objects, pushed \in BOOLEAN, e \in Envs : SetEnvironment(o, pushed, e)
  BY <1>5, SetEnvironmentFramed
<1>6. CASE \E c \in Fresh, o \in Objects :
             \/ \E ok \in BOOLEAN : load(o, c, ok)
             \/ \E e \in Envs, h \in {"pass", "throw"} : safe_script(o, c, h, e)
             \/ \E e \in Envs : unsafe_script(o, c, e)
             \/ \E h \in {"pass", "throw"} : LoadFails(o, c, h)
             \/ \E p \in Objects : CallLoaded(o, p, c)
  BY <1>6, LoadFramed, SafeScriptFramed, UnsafeScriptFramed, LoadFailsFramed,
     CallLoadedFramed
<1>7. CASE \E k \in 0 .. 2 : Finish(k)
  BY <1>7, FinishFramed
<1>8. CASE \E p \in Packages : open_libraries(p)
  BY <1>8, RequirefFramed DEF open_libraries
<1>9. CASE \E p \in Packages, create \in BOOLEAN :
             require_loaded(p, create) \/ require_script(p, create) \/ require(p, create)
  BY <1>9, RequireLoadedFramed, RequireScriptFramed, RequirefFramed DEF require
<1>10. CASE \E k \in 0 .. 2, p \in Packages : \E first \in Registered(p) : EndRequire(k, first)
  BY <1>10, EndRequireFramed
<1>11. CASE UNCHANGED vars
  <2>1. UNCHANGED <<stack, runs, res, own>> /\ UNCHANGED <<loaded, global, ran, handed, wanted>>
    BY <1>11 DEF vars
  <2>2. TypeOK'
    BY <2>1 DEF Framed, TypeOK
  <2>3. FramesSound'
    BY <2>1 DEF Framed, FramesSound
  <2>4. TablesSound'
    BY <2>1 DEF Framed, TablesSound
  <2> QED BY <2>2, <2>3, <2>4 DEF Framed
<1> QED BY <1>1, <1>2, <1>3, <1>4, <1>5, <1>6, <1>7, <1>8, <1>9, <1>10, <1>11 DEF Next

(***************************************************************************)
(* Whatever uses of the API the program makes, and however deep scripts    *)
(* run inside each other, the variables keep their types: no slot of the   *)
(* stack, no entry of _LOADED and no global of a package holds anything    *)
(* but a value the model names for it.                                     *)
(***************************************************************************)
THEOREM TypeCorrect == Spec => []TypeOK
<1>1. Init => Framed
  BY InitFramed
<1>2. Framed /\ [Next]_vars => Framed'
  BY NextFramed
<1>3. Framed => TypeOK
  BY DEF Framed
<1> QED BY <1>1, <1>2, <1>3, PTL DEF Spec
-----------------------------------------------------------------------------
(* Packages: one value for everyone.                                       *)

\* The uses of the API that lose it.
PackageUses == {"cycle", "global_later", "falsy", "many_values"}

\* A package is registered once its first script ended, or its function was
\* called; what it is then is what everyone was handed and what its global
\* holds.  Until then at most one script of it runs.
PackagesSound ==
    /\ \A p \in Packages :
          /\ \/ loaded[p] \in Modules(p) /\ handed[p] = {loaded[p]}
             \/ loaded[p] = Nil /\ handed[p] = {}
          /\ p \in wanted => handed[p] = {global[p]}
    /\ \A i \in DOMAIN runs : runs[i].how = "require" => loaded[runs[i].key] = Nil
    /\ \A i, j \in DOMAIN runs :
          runs[i].how = "require" /\ runs[j].how = "require" /\ i # j
             => runs[i].key # runs[j].key

Packaged == Framed /\ PackagesSound

LEMMA ModuleFacts ==
    ASSUME NEW p, NEW v \in Modules(p)
    PROVE  v \notin {Nil, False, Foreign}
<1>1. PICK n \in 1 .. MaxRuns : v = Module(p, n)
  BY DEF Modules
<1> QED BY <1>1 DEF Module, Nil, False, Foreign

LEMMA LoadedFacts ==
    ASSUME Packaged, NEW p \in Packages
    PROVE  /\ is_loaded_package(p) =>
                 loaded[p] \in Modules(p) /\ handed[p] = {loaded[p]}
           /\ ~is_loaded_package(p) => loaded[p] = Nil /\ handed[p] = {} /\ p \notin wanted
<1>1. loaded[p] \in Modules(p) => is_loaded_package(p)
  BY ModuleFacts DEF is_loaded_package
<1>2. loaded[p] = Nil => ~is_loaded_package(p)
  BY DEF is_loaded_package
<1>3. /\ (loaded[p] \in Modules(p) /\ handed[p] = {loaded[p]})
         \/ (loaded[p] = Nil /\ handed[p] = {})
      /\ p \in wanted => handed[p] = {global[p]}
  BY DEF Packaged, PackagesSound
<1> QED BY <1>1, <1>2, <1>3

\* What becomes of a package's entries when it is handed to someone else.
LEMMA HandedOn ==
    ASSUME Packaged, NEW p \in Packages, NEW create \in BOOLEAN, NEW v \in Modules(p),
           is_loaded_package(p) => v = loaded[p],
           loaded' = [loaded EXCEPT ![p] = v],
           handed' = [handed EXCEPT ![p] = @ \cup {v}],
           wanted' = IF create THEN wanted \cup {p} ELSE wanted,
           \/ global' = (IF create THEN [global EXCEPT ![p] = v] ELSE global)
           \/ global' = global /\ create /\ is_loaded_package(p) /\ p \in wanted
    PROVE  \A q \in Packages :
              /\ (loaded'[q] \in Modules(q) /\ handed'[q] = {loaded'[q]})
                 \/ (loaded'[q] = Nil /\ handed'[q] = {})
              /\ q \in wanted' => handed'[q] = {global'[q]}
              /\ q # p => loaded'[q] = loaded[q]
<1>0. /\ loaded \in [Packages -> Registry] /\ global \in [Packages -> Registry]
      /\ handed \in [Packages -> SUBSET Registry]
  BY DEF Packaged, Framed, TablesSound
<1>1. /\ (loaded[p] \in Modules(p) /\ handed[p] = {loaded[p]} /\ is_loaded_package(p))
         \/ (loaded[p] = Nil /\ handed[p] = {} /\ p \notin wanted)
      /\ p \in wanted => handed[p] = {global[p]}
  BY LoadedFacts DEF Packaged, PackagesSound
<1>2. loaded'[p] = v /\ handed'[p] = {v}
  BY <1>0, <1>1
<1>3. p \in wanted' => global'[p] = v
  BY <1>0, <1>1
<1>4. ASSUME NEW q \in Packages, q # p
      PROVE  /\ loaded'[q] = loaded[q] /\ handed'[q] = handed[q] /\ global'[q] = global[q]
             /\ q \in wanted' <=> q \in wanted
  BY <1>0, <1>4
<1>5. \A q \in Packages :
         /\ (loaded[q] \in Modules(q) /\ handed[q] = {loaded[q]})
            \/ (loaded[q] = Nil /\ handed[q] = {})
         /\ q \in wanted => handed[q] = {global[q]}
  BY DEF Packaged, PackagesSound
<1> QED BY <1>2, <1>3, <1>4, <1>5

LEMMA RequirefPackaged ==
    ASSUME Uses \cap PackageUses = {}, Packaged, NEW p \in Packages,
           NEW create \in BOOLEAN, requiref(p, create)
    PROVE  PackagesSound'
<1> DEFINE value == IF is_loaded_package(p) THEN loaded[p] ELSE Module(p, ran[p] + 1)
<1>1. /\ loaded' = [loaded EXCEPT ![p] = value]
      /\ global' = IF create THEN [global EXCEPT ![p] = value] ELSE global
      /\ handed' = [handed EXCEPT ![p] = @ \cup {value}]
      /\ wanted' = IF create THEN wanted \cup {p} ELSE wanted
      /\ runs' = runs /\ ~InProgress(p)
  BY DEF requiref, PackageUses
<1>2. value \in Modules(p)
  <2>1. CASE is_loaded_package(p)
    BY <2>1, LoadedFacts
  <2>2. CASE ~is_loaded_package(p)
    <3>1. ran[p] \in 0 .. MaxRuns /\ ran[p] < MaxRuns /\ MaxRuns \in Nat
      BY <2>2, ScriptsAssumption DEF requiref, Packaged, Framed, TypeOK
    <3>2. ran[p] + 1 \in 1 .. MaxRuns
      BY <3>1
    <3> QED BY <2>2, <3>2 DEF Modules
  <2> QED BY <2>1, <2>2
<1>3. is_loaded_package(p) => value = loaded[p]
  OBVIOUS
<1> HIDE DEF value
<1>4. \A q \in Packages :
         /\ (loaded'[q] \in Modules(q) /\ handed'[q] = {loaded'[q]})
            \/ (loaded'[q] = Nil /\ handed'[q] = {})
         /\ q \in wanted' => handed'[q] = {global'[q]}
         /\ q # p => loaded'[q] = loaded[q]
  BY <1>1, <1>2, <1>3, HandedOn
<1>5. \A i \in DOMAIN runs : runs[i].how = "require" =>
         runs[i].key # p /\ runs[i].key \in Packages
  <2>1. DOMAIN runs = 1 .. Len(runs)
    BY LenProperties DEF Packaged, Framed, TypeOK
  <2> QED BY <1>1, <2>1, FrameType DEF InProgress, Packaged
<1> QED BY <1>1, <1>4, <1>5 DEF Packaged, PackagesSound

LEMMA RequireLoadedPackaged ==
    ASSUME Uses \cap PackageUses = {}, Packaged, NEW p \in Packages,
           NEW create \in BOOLEAN, require_loaded(p, create)
    PROVE  PackagesSound'
<1>1. /\ loaded' = loaded /\ global' = global /\ runs' = runs
      /\ handed' = [handed EXCEPT ![p] = @ \cup {loaded[p]}]
      /\ wanted' = IF create THEN wanted \cup {p} ELSE wanted
      /\ is_loaded_package(p) /\ (create => p \in wanted)
  BY DEF require_loaded, PackageUses
<1>2. loaded[p] \in Modules(p) /\ handed[p] = {loaded[p]}
  BY <1>1, LoadedFacts
<1>3. handed' = handed /\ wanted' = wanted
  BY <1>1, <1>2 DEF Packaged, Framed, TablesSound
<1> QED BY <1>1, <1>3 DEF Packaged, PackagesSound

LEMMA RequireScriptPackaged ==
    ASSUME Uses \cap PackageUses = {}, Packaged, NEW p \in Packages,
           NEW create \in BOOLEAN, require_script(p, create)
    PROVE  PackagesSound'
<1>1. /\ UNCHANGED <<loaded, global, handed, wanted>>
      /\ ~is_loaded_package(p) /\ ~InProgress(p)
  BY DEF require_script, PackageUses
<1>2. PICK r : r.how = "require" /\ r.key = p /\ runs' = Append(runs, r)
  BY DEF require_script
<1>3. DOMAIN runs = 1 .. Len(runs) /\ Len(runs) \in Nat /\ runs \in Seq(Run)
  BY LenProperties DEF Packaged, Framed, TypeOK
<1>4. /\ DOMAIN runs' = 1 .. Len(runs) + 1 /\ runs'[Len(runs) + 1] = r
      /\ \A i \in 1 .. Len(runs) : runs'[i] = runs[i]
  BY <1>2, <1>3
<1>5. \A i \in 1 .. Len(runs) : runs[i].how = "require" => runs[i].key # p
  BY <1>1 DEF InProgress
<1>6. loaded[p] = Nil
  BY <1>1, LoadedFacts
<1> DEFINE n == Len(runs)
<1>7. \A i \in 1 .. n + 1 : i \in 1 .. n \/ i = n + 1
  BY <1>3
<1> HIDE DEF n
<1>8. \A i \in 1 .. n + 1 : runs'[i].how = "require" => loaded[runs'[i].key] = Nil
  BY <1>2, <1>3, <1>4, <1>6, <1>7 DEF Packaged, PackagesSound, n
<1>9. \A i, j \in 1 .. n + 1 :
         runs'[i].how = "require" /\ runs'[j].how = "require" /\ i # j
            => runs'[i].key # runs'[j].key
  BY <1>2, <1>3, <1>4, <1>5, <1>7 DEF Packaged, PackagesSound, n
<1>10. DOMAIN runs' = 1 .. n + 1
  BY <1>4 DEF n
<1> QED BY <1>1, <1>8, <1>9, <1>10 DEF Packaged, PackagesSound

LEMMA EndRequirePackaged ==
    ASSUME Uses \cap PackageUses = {}, Packaged, NEW k \in 0 .. 2, NEW q \in Packages,
           NEW first \in Registered(q), EndRequire(k, first)
    PROVE  PackagesSound'
<1> DEFINE r == Last(runs)
           st == Returned(r, k, first)
           top == Kept(r.key, Last(st))
           n == Len(runs)
<1>1. /\ runs # <<>> /\ r.how = "require"
      /\ global' = IF r.create THEN [global EXCEPT ![r.key] = top] ELSE global
      /\ loaded' = [loaded EXCEPT ![r.key] = top]
      /\ handed' = [handed EXCEPT ![r.key] = @ \cup {top}]
      /\ wanted' = IF r.create THEN wanted \cup {r.key} ELSE wanted
      /\ runs' = Front(runs)
      /\ k = 1 /\ first = Module(r.key, r.n)
  BY DEF EndRequire, Running, Returned, ensure_package, PackageUses
<1>2. /\ r = runs[n] /\ n \in Nat \ {0} /\ DOMAIN runs = 1 .. n
      /\ r.key \in Packages /\ r.create \in BOOLEAN /\ r.n \in 1 .. MaxRuns
      /\ Len(stack) \in Nat \ {0}
  BY <1>1, InnermostFacts DEF Packaged
<1>3. first \in Modules(r.key)
  BY <1>1, <1>2 DEF Modules
<1>4. Last(st) = first
  <2>1. first \in Item
    BY ItemFacts
  <2>2. Len(st) = Len(stack) - 1 + k /\ st[Len(stack)] = first
    BY <1>1, <2>1, ReturnedFacts DEF Packaged
  <2> HIDE DEF st
  <2>3. Len(st) = Len(stack)
    BY <1>1, <1>2, <2>2
  <2> QED BY <2>2, <2>3 DEF Last
<1>5. top \in Modules(r.key)
  BY <1>3, <1>4 DEF Kept, Registered
<1>6. ~is_loaded_package(r.key)
  <2>1. n \in DOMAIN runs
    BY <1>2
  <2>2. loaded[r.key] = Nil
    BY <1>1, <1>2, <2>1 DEF Packaged, PackagesSound
  <2> QED BY <2>2 DEF is_loaded_package
<1>7. /\ Len(Front(runs)) = n - 1 /\ Front(runs) \in Seq(Run)
      /\ \A i \in 1 .. n - 1 : Front(runs)[i] = runs[i]
  BY <1>1, LastFrontFacts DEF Packaged, Framed, TypeOK
<1>8. DOMAIN runs' = 1 .. n - 1 /\ \A i \in 1 .. n - 1 : runs'[i] = runs[i]
  BY <1>1, <1>7, LenProperties
<1>9. \A i \in 1 .. n - 1 : i \in DOMAIN runs /\ i # n /\ n \in DOMAIN runs
  <2>1. n \in Nat \ {0} /\ DOMAIN runs = 1 .. n
    BY <1>2
  <2> HIDE DEF n
  <2> QED BY <2>1
<1> HIDE DEF top, st
<1>10. \A p \in Packages :
         /\ (loaded'[p] \in Modules(p) /\ handed'[p] = {loaded'[p]})
            \/ (loaded'[p] = Nil /\ handed'[p] = {})
         /\ p \in wanted' => handed'[p] = {global'[p]}
         /\ p # r.key => loaded'[p] = loaded[p]
  <2> DEFINE key == r.key
             create == r.create
  <2>1. key \in Packages /\ create \in BOOLEAN /\ top \in Modules(key)
        /\ ~is_loaded_package(key)
        /\ global' = (IF create THEN [global EXCEPT ![key] = top] ELSE global)
        /\ loaded' = [loaded EXCEPT ![key] = top]
        /\ handed' = [handed EXCEPT ![key] = @ \cup {top}]
        /\ wanted' = IF create THEN wanted \cup {key} ELSE wanted
    BY <1>1, <1>2, <1>5, <1>6
  <2> HIDE DEF key, create
  <2>2. \A p \in Packages :
         /\ (loaded'[p] \in Modules(p) /\ handed'[p] = {loaded'[p]})
            \/ (loaded'[p] = Nil /\ handed'[p] = {})
         /\ p \in wanted' => handed'[p] = {global'[p]}
         /\ p # key => loaded'[p] = loaded[p]
    BY <2>1, HandedOn
  <2> QED BY <2>2 DEF key
<1>11. \A i \in 1 .. n - 1 : runs'[i].how = "require" =>
          loaded'[runs'[i].key] = Nil
  <2> SUFFICES ASSUME NEW i \in 1 .. n - 1, runs'[i].how = "require"
               PROVE  loaded'[runs'[i].key] = Nil
    OBVIOUS
  <2>1. runs'[i] = runs[i] /\ i \in DOMAIN runs /\ i # n /\ n \in DOMAIN runs
    BY <1>8, <1>9
  <2>2. runs[i].key # runs[n].key /\ loaded[runs[i].key] = Nil
    BY <1>1, <1>2, <2>1 DEF Packaged, PackagesSound
  <2>3. runs[i].key \in Packages
    BY <2>1, FrameType DEF Packaged
  <2> QED BY <1>2, <1>10, <2>1, <2>2, <2>3
<1>12. \A i, j \in 1 .. n - 1 :
          runs'[i].how = "require" /\ runs'[j].how = "require" /\ i # j
             => runs'[i].key # runs'[j].key
  BY <1>8, <1>9 DEF Packaged, PackagesSound
<1> QED BY <1>8, <1>10, <1>11, <1>12 DEF PackagesSound

\* An action that touches no table either leaves the scripts that run alone
\* or ends or starts the outermost one.
LEMMA OthersPackaged ==
    ASSUME Packaged, UNCHANGED packageVars,
           \/ runs' = runs \/ runs' = <<>>
           \/ \E r : runs' = <<r>> /\ r.how # "require"
    PROVE  PackagesSound'
<1>1. UNCHANGED <<loaded, global, handed, wanted>>
  BY DEF packageVars
<1>2. CASE runs' = runs
  BY <1>1, <1>2 DEF Packaged, PackagesSound
<1>3. CASE runs' = <<>>
  BY <1>1, <1>3 DEF Packaged, PackagesSound
<1>4. CASE \E r : runs' = <<r>> /\ r.how # "require"
  <2>1. DOMAIN runs' = {1} /\ runs'[1].how # "require"
    BY <1>4
  <2> QED BY <1>1, <2>1 DEF Packaged, PackagesSound
<1> QED BY <1>2, <1>3, <1>4

LEMMA NextPackaged ==
    ASSUME Uses \cap PackageUses = {}, Packaged, [Next]_vars
    PROVE  Packaged'
<1>0. Framed'
  BY NextFramed DEF Packaged
<1> SUFFICES PackagesSound'
  BY <1>0 DEF Packaged
<1>1. CASE PushOwn \/ PopOwn \/ Fail
  BY <1>1, OthersPackaged DEF PushOwn, PopOwn, Fail
<1>2. CASE \E o \in Objects : Destroy(o) \/ ThrowLate(o)
  BY <1>2, OthersPackaged DEF Destroy, ThrowLate
<1>3. CASE \E o, p \in Objects : Move(p, o) \/ Copy(p, o)
  BY <1>3, OthersPackaged DEF Move, Copy
<1>4. CASE \E o \in Objects, pushed \in BOOLEAN, e \in Envs : SetEnvironment(o, pushed, e)
  BY <1>4, OthersPackaged DEF SetEnvironment
<1>5. CASE \E c \in Fresh, o \in Objects :
             \/ \E ok \in BOOLEAN : load(o, c, ok)
             \/ \E h \in {"pass", "throw"} : LoadFails(o, c, h)
  BY <1>5, OthersPackaged DEF load, LoadFails
<1>6. CASE \E c \in Fresh, o \in Objects :
             \E e \in Envs, h \in {"pass", "throw"} : safe_script(o, c, h, e)
  BY <1>6, OthersPackaged DEF safe_script
<1>7. CASE \E c \in Fresh, o \in Objects : \E e \in Envs : unsafe_script(o, c, e)
  BY <1>7, OthersPackaged DEF unsafe_script
<1>8. CASE \E c \in Fresh, o \in Objects : \E p \in Objects : CallLoaded(o, p, c)
  BY <1>8, OthersPackaged DEF CallLoaded
<1>9. CASE \E k \in 0 .. 2 : Finish(k)
  BY <1>9, OthersPackaged DEF Finish
<1>10. CASE \E p \in Packages : open_libraries(p)
  BY <1>10, RequirefPackaged DEF open_libraries
<1>11. CASE \E p \in Packages, create \in BOOLEAN :
             require_loaded(p, create) \/ require_script(p, create) \/ require(p, create)
  BY <1>11, RequireLoadedPackaged, RequireScriptPackaged, RequirefPackaged DEF require
<1>12. CASE \E k \in 0 .. 2, p \in Packages : \E first \in Registered(p) : EndRequire(k, first)
  BY <1>12, EndRequirePackaged
<1>13. CASE UNCHANGED vars
  BY <1>13, OthersPackaged DEF vars, packageVars
<1> QED BY <1>1, <1>2, <1>3, <1>4, <1>5, <1>6, <1>7, <1>8, <1>9, <1>10, <1>11, <1>12, <1>13
        DEF Next

(***************************************************************************)
(* However many packages there are and however deep their scripts require  *)
(* each other, fail and panic, everyone who required a package has the     *)
(* same value, the one _LOADED and the global hold: as long as no package  *)
(* requires itself, each script returns one value that is true, and a      *)
(* global is asked for by the first who requires.                          *)
(***************************************************************************)
THEOREM PackagesAgree ==
    ASSUME Uses \cap PackageUses = {}
    PROVE  Spec => []OnePackageOneValue
<1>1. Init => Packaged
  <2> SUFFICES ASSUME Init PROVE PackagesSound
    BY InitFramed DEF Packaged
  <2> QED BY DEF Init, PackagesSound
<1>2. Packaged /\ [Next]_vars => Packaged'
  BY NextPackaged
<1>3. Packaged => OnePackageOneValue
  <2> SUFFICES ASSUME Packaged, NEW p \in Packages
               PROVE  /\ Cardinality(handed[p]) <= 1
                      /\ handed[p] # {} => handed[p] = {loaded[p]}
                      /\ p \in wanted => handed[p] = {global[p]}
    BY DEF OnePackageOneValue
  <2>1. /\ handed[p] = {loaded[p]} \/ handed[p] = {}
        /\ p \in wanted => handed[p] = {global[p]}
    BY DEF Packaged, PackagesSound
  <2>2. Cardinality({loaded[p]}) = 1 /\ Cardinality({}) = 0
    BY FS_Singleton, FS_EmptySet
  <2>3. Cardinality(handed[p]) <= 1
    BY <2>1, <2>2
  <2> QED BY <2>1, <2>3
<1> QED BY <1>1, <1>2, <1>3, PTL DEF Spec

-----------------------------------------------------------------------------
(* Who owns the slots of the stack: what is said of any stack st, of which *)
(* the first n slots are the program's, of any result objects rs and of    *)
(* the number w of values the program keeps there.                         *)

\* The uses that leave values no one owns, or remove values of others.
StackUses == {"copy", "assign_over", "out_of_order", "late_throw", "panic", "many_values"}

Holds(rs, o) == rs[o] # Gone /\ rs[o].popcount > 0
Slots(r) == r.index .. r.index + r.popcount - 1

\* What the values of a result object are.
Content(r, x) == IF r.kind = "load" /\ r.ok THEN \E e \in Envs : x = Chunk(r.call, e)
                 ELSE x = Val(r.call)

Placed(st, n, r) ==
    /\ r.index >= 1 /\ r.index + r.popcount - 1 <= n
    /\ r.kind = "load" \/ ~r.ok => r.popcount = 1
    /\ \A i \in Slots(r) : Content(r, st[i])

Sees(st, r) == "env_below" \notin Uses /\ r.kind = "load" /\ r.ok =>
                  st[r.index] = Chunk(r.call, r.asked)

Apart(r, q) == r.call # q.call /\ \A i \in Slots(r) : i \notin Slots(q)

OwnSlots(st, n) == {i \in 1 .. n : st[i] = Own}

Owned(st, n, rs, w) ==
    /\ \A o \in Objects : Holds(rs, o) => Placed(st, n, rs[o]) /\ Sees(st, rs[o])
    /\ \A o, p \in Objects : Holds(rs, o) /\ Holds(rs, p) /\ o # p => Apart(rs[o], rs[p])
    /\ \A i \in 1 .. n : st[i] = Own \/ \E o \in Objects : Holds(rs, o) /\ i \in Slots(rs[o])
    /\ Cardinality(OwnSlots(st, n)) = w

LEMMA HeldType ==
    ASSUME NEW rs \in [Objects -> Result \cup {Gone}], NEW o \in Objects, Holds(rs, o)
    PROVE  /\ rs[o] \in Result /\ rs[o] # Gone
           /\ rs[o].index \in Nat /\ rs[o].popcount \in Nat \ {0}
           /\ rs[o].call \in Calls /\ rs[o].asked \in Envs /\ rs[o].ok \in BOOLEAN
BY DEF Holds, Result

LEMMA ContentFacts ==
    ASSUME NEW r, NEW x, Content(r, x)
    PROVE  x # Own /\ (x = Val(r.call) \/ \E e \in Envs : x = Chunk(r.call, e))
BY DEF Content, Own, Val, Chunk

\* The slots of an owner lie in the program's part.
LEMMA HeldFacts ==
    ASSUME NEW st, NEW n \in Nat, NEW rs \in [Objects -> Result \cup {Gone}], NEW w,
           Owned(st, n, rs, w), NEW o \in Objects, Holds(rs, o)
    PROVE  /\ rs[o].index \in Slots(rs[o]) /\ rs[o].index >= 1
           /\ rs[o].index + rs[o].popcount - 1 <= n
           /\ \A i \in Slots(rs[o]) : i \in 1 .. n /\ st[i] # Own
<1>1. Placed(st, n, rs[o])
  BY DEF Owned
<1>2. /\ rs[o].index \in Nat /\ rs[o].popcount \in Nat \ {0}
      /\ rs[o].index >= 1 /\ rs[o].index + rs[o].popcount - 1 <= n
  BY <1>1, HeldType DEF Placed
<1>3. \A i \in Slots(rs[o]) : i \in 1 .. n
  BY <1>2 DEF Slots
<1>4. \A i \in Slots(rs[o]) : st[i] # Own
  BY <1>1, ContentFacts DEF Placed
<1>5. rs[o].index \in Slots(rs[o])
  BY <1>2 DEF Slots
<1> QED BY <1>2, <1>3, <1>4, <1>5

LEMMA OwnSlotsFinite ==
    ASSUME NEW st, NEW n \in Nat
    PROVE  IsFiniteSet(OwnSlots(st, n)) /\ Cardinality(OwnSlots(st, n)) \in Nat
<1>1. IsFiniteSet(1 .. n)
  BY FS_Interval
<1>2. OwnSlots(st, n) \in SUBSET (1 .. n)
  BY DEF OwnSlots
<1> QED BY <1>1, <1>2, FS_Subset, FS_CardinalityType

\* What lies above the program's part does not matter to it.
LEMMA SamePrefix ==
    ASSUME NEW st, NEW st2, NEW n \in Nat, NEW rs \in [Objects -> Result \cup {Gone}], NEW w,
           Owned(st, n, rs, w), \A i \in 1 .. n : st2[i] = st[i]
    PROVE  Owned(st2, n, rs, w)
<1>1. ASSUME NEW o \in Objects, Holds(rs, o)
      PROVE  Placed(st2, n, rs[o]) /\ Sees(st2, rs[o])
  <2>1. Placed(st, n, rs[o]) /\ Sees(st, rs[o])
    BY <1>1 DEF Owned
  <2>2. rs[o].index \in Slots(rs[o]) /\ \A i \in Slots(rs[o]) : i \in 1 .. n
    BY <1>1, HeldFacts
  <2>3. \A i \in Slots(rs[o]) : st2[i] = st[i]
    BY <2>2
  <2> QED BY <2>1, <2>2, <2>3 DEF Placed, Sees
<1>2. OwnSlots(st2, n) = OwnSlots(st, n)
  BY DEF OwnSlots
<1> QED BY <1>1, <1>2 DEF Owned

\* One more value of the program, and one less.
LEMMA OwnPushed ==
    ASSUME NEW st, NEW n \in Nat, NEW rs \in [Objects -> Result \cup {Gone}], NEW w \in Nat,
           Owned(st, n, rs, w), st[n + 1] = Own
    PROVE  Owned(st, n + 1, rs, w + 1)
<1>1. \A i \in 1 .. n + 1 : i \in 1 .. n \/ i = n + 1
  OBVIOUS
<1>2. ASSUME NEW o \in Objects, Holds(rs, o)
      PROVE  Placed(st, n + 1, rs[o]) /\ Sees(st, rs[o])
  <2>1. Placed(st, n, rs[o]) /\ Sees(st, rs[o])
    BY <1>2 DEF Owned
  <2>2. rs[o].index + rs[o].popcount - 1 <= n /\ rs[o].index \in Nat /\ rs[o].popcount \in Nat
    BY <1>2, HeldFacts, HeldType
  <2>3. rs[o].index + rs[o].popcount - 1 <= n + 1
    BY <2>2
  <2> QED BY <2>1, <2>3 DEF Placed
<1>3. OwnSlots(st, n + 1) = OwnSlots(st, n) \cup {n + 1}
  <2>1. n + 1 \in 1 .. n + 1 /\ \A i \in 1 .. n : i \in 1 .. n + 1
    OBVIOUS
  <2> QED BY <1>1, <2>1 DEF OwnSlots
<1>4. n + 1 \notin OwnSlots(st, n)
  BY DEF OwnSlots
<1>5. Cardinality(OwnSlots(st, n + 1)) = w + 1
  BY <1>3, <1>4, OwnSlotsFinite, FS_AddElement DEF Owned
<1>6. \A i \in 1 .. n + 1 : st[i] = Own \/ \E o \in Objects : Holds(rs, o) /\ i \in Slots(rs[o])
  BY <1>1 DEF Owned
<1> QED BY <1>2, <1>5, <1>6 DEF Owned

LEMMA OwnPopped ==
    ASSUME NEW st, NEW n \in Nat, NEW rs \in [Objects -> Result \cup {Gone}], NEW w \in Nat,
           Owned(st, n + 1, rs, w), st[n + 1] = Own
    PROVE  w > 0 /\ Owned(st, n, rs, w - 1)
<1>1. \A i \in 1 .. n + 1 : i \in 1 .. n \/ i = n + 1
  OBVIOUS
<1>2. ASSUME NEW o \in Objects, Holds(rs, o)
      PROVE  Placed(st, n, rs[o]) /\ Sees(st, rs[o])
  <2>1. Placed(st, n + 1, rs[o]) /\ Sees(st, rs[o])
    BY <1>2 DEF Owned
  <2>2. n + 1 \in Nat
    OBVIOUS
  <2>3. /\ rs[o].index + rs[o].popcount - 1 <= n + 1 /\ rs[o].index \in Nat
        /\ rs[o].popcount \in Nat \ {0} /\ n + 1 \notin Slots(rs[o])
    BY <1>2, <2>2, HeldFacts, HeldType
  <2>4. rs[o].index + rs[o].popcount - 1 <= n
    BY <2>3 DEF Slots
  <2> QED BY <2>1, <2>4 DEF Placed
<1>3. OwnSlots(st, n + 1) = OwnSlots(st, n) \cup {n + 1}
  <2>1. n + 1 \in 1 .. n + 1 /\ \A i \in 1 .. n : i \in 1 .. n + 1
    OBVIOUS
  <2> QED BY <1>1, <2>1 DEF OwnSlots
<1>4. n + 1 \notin OwnSlots(st, n)
  BY DEF OwnSlots
<1>5. Cardinality(OwnSlots(st, n)) + 1 = w /\ Cardinality(OwnSlots(st, n)) \in Nat
  BY <1>3, <1>4, OwnSlotsFinite, FS_AddElement DEF Owned
<1>6. w > 0 /\ Cardinality(OwnSlots(st, n)) = w - 1
  BY <1>5
<1>7. \A i \in 1 .. n : st[i] = Own \/ \E o \in Objects : Holds(rs, o) /\ i \in Slots(rs[o])
  <2>1. \A i \in 1 .. n : i \in 1 .. n + 1
    OBVIOUS
  <2> QED BY <2>1 DEF Owned
<1> QED BY <1>2, <1>6, <1>7 DEF Owned

\* Who owns nothing does not matter.
LEMMA SameOwners ==
    ASSUME NEW st, NEW n, NEW rs, NEW rs2, NEW w, Owned(st, n, rs, w),
           \A o \in Objects : Holds(rs2, o) => Holds(rs, o) /\ rs2[o] = rs[o],
           \A o \in Objects : Holds(rs, o) => Holds(rs2, o)
    PROVE  Owned(st, n, rs2, w)
<1>1. \A o \in Objects : Holds(rs2, o) => Placed(st, n, rs2[o]) /\ Sees(st, rs2[o])
  BY DEF Owned
<1>2. \A o, p \in Objects : Holds(rs2, o) /\ Holds(rs2, p) /\ o # p => Apart(rs2[o], rs2[p])
  BY DEF Owned
<1>3. ASSUME NEW i \in 1 .. n
      PROVE  st[i] = Own \/ \E o \in Objects : Holds(rs2, o) /\ i \in Slots(rs2[o])
  <2>1. CASE st[i] = Own
    BY <2>1
  <2>2. CASE st[i] # Own
    <3>1. PICK o \in Objects : Holds(rs, o) /\ i \in Slots(rs[o])
      BY <2>2 DEF Owned
    <3>2. Holds(rs2, o) /\ rs2[o] = rs[o]
      BY <3>1
    <3> QED BY <3>1, <3>2
  <2> QED BY <2>1, <2>2
<1> QED BY <1>1, <1>2, <1>3 DEF Owned

\* A result comes to name the values above the program's part.
LEMMA ResultAdded ==
    ASSUME NEW st, NEW n \in Nat, NEW rs \in [Objects -> Result \cup {Gone}], NEW w,
           Owned(st, n, rs, w), NEW o \in Objects, ~Holds(rs, o), NEW r \in Result,
           r.popcount > 0 => r.index = n + 1,
           \A p \in Objects : Holds(rs, p) => rs[p].call # r.call,
           r.kind = "load" \/ ~r.ok => r.popcount = 1,
           \A i \in n + 1 .. n + r.popcount : Content(r, st[i]),
           r.popcount > 0 => Sees(st, r)
    PROVE  Owned(st, n + r.popcount, [rs EXCEPT ![o] = r], w)
<1> DEFINE m == n + r.popcount
           rs2 == [rs EXCEPT ![o] = r]
<1>1. /\ rs2[o] = r /\ \A p \in Objects : p # o => rs2[p] = rs[p]
      /\ r.popcount \in Nat /\ r.index \in Nat /\ m \in Nat /\ n <= m
      /\ \A i \in 1 .. n : i \in 1 .. m
  BY DEF Result
<1>2. r.popcount > 0 => Slots(r) = n + 1 .. m
  <2> SUFFICES ASSUME r.popcount > 0 PROVE Slots(r) = n + 1 .. m
    OBVIOUS
  <2>1. n + 1 + r.popcount - 1 = m
    BY <1>1
  <2> QED BY <2>1 DEF Slots
<1>3. \A i \in 1 .. m : i \in 1 .. n \/ (i \in n + 1 .. m /\ r.popcount > 0 /\ i \notin 1 .. n)
  BY <1>1
<1>4. Holds(rs2, o) <=> r.popcount > 0
  <2>1. r # Gone
    BY DEF Result, Gone
  <2> QED BY <2>1, <1>1 DEF Holds
<1> HIDE DEF rs2
<1>5. ASSUME NEW p \in Objects, Holds(rs2, p), p # o
      PROVE  /\ Holds(rs, p) /\ rs2[p] = rs[p] /\ Placed(st, m, rs2[p]) /\ Sees(st, rs2[p])
             /\ \A i \in Slots(rs2[p]) : i \in 1 .. n
  <2>1. Holds(rs, p) /\ rs2[p] = rs[p]
    BY <1>1, <1>5 DEF Holds
  <2>2. Placed(st, n, rs[p]) /\ Sees(st, rs[p])
    BY <2>1 DEF Owned
  <2>3. /\ rs[p].index + rs[p].popcount - 1 <= n /\ rs[p].index \in Nat /\ rs[p].popcount \in Nat
        /\ \A i \in Slots(rs[p]) : i \in 1 .. n
    BY <2>1, HeldFacts, HeldType
  <2>4. rs[p].index + rs[p].popcount - 1 <= m
    BY <2>3, <1>1
  <2> QED BY <2>1, <2>2, <2>3, <2>4 DEF Placed
<1>6. ASSUME Holds(rs2, o)
      PROVE  Placed(st, m, rs2[o]) /\ Sees(st, rs2[o])
  <2>1. r.popcount > 0 /\ r.index = n + 1 /\ Slots(r) = n + 1 .. m
    BY <1>2, <1>4, <1>6
  <2>2. r.index >= 1 /\ r.index + r.popcount - 1 <= m
    BY <2>1, <1>1
  <2> QED BY <1>1, <2>1, <2>2 DEF Placed
<1> HIDE DEF m
<1>7. \A p \in Objects : Holds(rs2, p) => Placed(st, m, rs2[p]) /\ Sees(st, rs2[p])
  BY <1>5, <1>6
<1>8. ASSUME NEW p \in Objects, NEW q \in Objects, Holds(rs2, p), Holds(rs2, q), p # q
      PROVE  Apart(rs2[p], rs2[q])
  <2>1. CASE p # o /\ q # o
    BY <2>1, <1>5, <1>8 DEF Owned
  <2>2. CASE p = o
    <3>1. Holds(rs, q) /\ rs2[q] = rs[q] /\ \A i \in Slots(rs2[q]) : i \in 1 .. n
      BY <2>2, <1>5, <1>8
    <3>2. Slots(rs2[p]) = n + 1 .. m
      BY <2>2, <1>1, <1>2, <1>4, <1>8
    <3>3. \A i \in n + 1 .. m : i \notin 1 .. n
      OBVIOUS
    <3> QED BY <2>2, <3>1, <3>2, <3>3, <1>1 DEF Apart
  <2>3. CASE q = o
    <3>1. Holds(rs, p) /\ rs2[p] = rs[p] /\ \A i \in Slots(rs2[p]) : i \in 1 .. n
      BY <2>3, <1>5, <1>8
    <3>2. Slots(rs2[q]) = n + 1 .. m
      BY <2>3, <1>1, <1>2, <1>4, <1>8
    <3>3. \A i \in n + 1 .. m : i \notin 1 .. n
      OBVIOUS
    <3> QED BY <2>3, <3>1, <3>2, <3>3, <1>1 DEF Apart
  <2> QED BY <2>1, <2>2, <2>3
<1>9. ASSUME NEW i \in 1 .. m
      PROVE  st[i] = Own \/ \E p \in Objects : Holds(rs2, p) /\ i \in Slots(rs2[p])
  <2>1. CASE i \in 1 .. n /\ st[i] # Own
    <3>1. PICK p \in Objects : Holds(rs, p) /\ i \in Slots(rs[p])
      BY <2>1 DEF Owned
    <3>2. p # o /\ rs2[p] = rs[p] /\ Holds(rs2, p)
      BY <3>1, <1>1 DEF Holds
    <3> QED BY <3>1, <3>2
  <2>2. CASE i \in n + 1 .. m /\ r.popcount > 0
    <3>1. Holds(rs2, o) /\ i \in Slots(rs2[o])
      BY <2>2, <1>1, <1>2, <1>4
    <3> QED BY <3>1
  <2> QED BY <2>1, <2>2, <1>3
<1>10. OwnSlots(st, m) = OwnSlots(st, n)
  <2>1. \A i \in n + 1 .. m : st[i] # Own
    BY ContentFacts DEF m
  <2> QED BY <2>1, <1>1, <1>3 DEF OwnSlots
<1> QED BY <1>7, <1>8, <1>9, <1>10 DEF Owned, m, rs2

\* A load_result passes its values on.
LEMMA ResultPassed ==
    ASSUME NEW st, NEW n, NEW rs \in [Objects -> Result \cup {Gone}], NEW w,
           Owned(st, n, rs, w), NEW o \in Objects, NEW p \in Objects, p # o,
           ~Holds(rs, p), NEW g, g.popcount = 0
    PROVE  Owned(st, n, [rs EXCEPT ![p] = rs[o], ![o] = g], w)
<1> DEFINE rs2 == [rs EXCEPT ![p] = rs[o], ![o] = g]
           from(q) == IF q = p THEN o ELSE q
<1>1. rs2[p] = rs[o] /\ rs2[o] = g /\ \A q \in Objects : q # o /\ q # p => rs2[q] = rs[q]
  OBVIOUS
<1> HIDE DEF rs2
<1>2. ASSUME NEW q \in Objects, Holds(rs2, q)
      PROVE  q # o /\ from(q) \in Objects /\ Holds(rs, from(q)) /\ rs2[q] = rs[from(q)]
  BY <1>1, <1>2 DEF Holds
<1>3. ASSUME NEW q \in Objects, Holds(rs, q)
      PROVE  \E q2 \in Objects : Holds(rs2, q2) /\ rs2[q2] = rs[q]
  <2>1. q # p
    BY <1>3
  <2>2. CASE q = o
    BY <2>2, <1>1, <1>3 DEF Holds
  <2>3. CASE q # o
    BY <2>1, <2>3, <1>1, <1>3 DEF Holds
  <2> QED BY <2>2, <2>3
<1>4. \A q \in Objects : Holds(rs2, q) => Placed(st, n, rs2[q]) /\ Sees(st, rs2[q])
  <2> SUFFICES ASSUME NEW q \in Objects, Holds(rs2, q)
               PROVE  Placed(st, n, rs2[q]) /\ Sees(st, rs2[q])
    OBVIOUS
  <2>1. from(q) \in Objects /\ Holds(rs, from(q)) /\ rs2[q] = rs[from(q)]
    BY <1>2
  <2> HIDE DEF from
  <2> QED BY <2>1 DEF Owned
<1>5. ASSUME NEW q \in Objects, NEW s \in Objects, Holds(rs2, q), Holds(rs2, s), q # s
      PROVE  Apart(rs2[q], rs2[s])
  <2>1. /\ q # o /\ from(q) \in Objects /\ Holds(rs, from(q)) /\ rs2[q] = rs[from(q)]
        /\ s # o /\ from(s) \in Objects /\ Holds(rs, from(s)) /\ rs2[s] = rs[from(s)]
    BY <1>2, <1>5
  <2>2. from(q) # from(s)
    BY <2>1, <1>5
  <2> HIDE DEF from
  <2> QED BY <2>1, <2>2 DEF Owned
<1>6. ASSUME NEW i \in 1 .. n
      PROVE  st[i] = Own \/ \E q \in Objects : Holds(rs2, q) /\ i \in Slots(rs2[q])
  <2>1. CASE st[i] = Own
    BY <2>1
  <2>2. CASE st[i] # Own
    <3>1. PICK q \in Objects : Holds(rs, q) /\ i \in Slots(rs[q])
      BY <2>2 DEF Owned
    <3>2. PICK q2 \in Objects : Holds(rs2, q2) /\ rs2[q2] = rs[q]
      BY <3>1, <1>3
    <3> QED BY <3>1, <3>2
  <2> QED BY <2>1, <2>2
<1> QED BY <1>4, <1>5, <1>6 DEF Owned, rs2

\* set_on relabels the chunks of one load_result.
LEMMA UpvaluedFacts ==
    ASSUME NEW y, NEW x, NEW e \in Envs
    PROVE  /\ Upvalued(y, x, e) = Own <=> y = Own
           /\ \A r : Content(r, y) => Content(r, Upvalued(y, x, e))
           /\ \A c, d : y = Chunk(c, d) =>
                 Upvalued(y, x, e) = IF x[1] = "chunk" /\ x[2] = c THEN Chunk(c, e) ELSE y
<1>1. Upvalued(y, x, e) = Own <=> y = Own
  BY DEF Upvalued, Own, Chunk
<1>2. ASSUME NEW c, NEW d, y = Chunk(c, d)
      PROVE  /\ y[1] = "chunk" /\ y[2] = c
             /\ Upvalued(y, x, e) = IF x[1] = "chunk" /\ x[2] = c THEN Chunk(c, e) ELSE y
  <2>1. y[1] = "chunk" /\ y[2] = c
    BY <1>2 DEF Chunk
  <2> QED BY <2>1 DEF Upvalued
<1>3. ASSUME NEW r, Content(r, y) PROVE Content(r, Upvalued(y, x, e))
  <2>1. CASE r.kind = "load" /\ r.ok
    <3>1. PICK d \in Envs : y = Chunk(r.call, d)
      BY <2>1, <1>3 DEF Content
    <3>2. Upvalued(y, x, e) = Chunk(r.call, e) \/ Upvalued(y, x, e) = Chunk(r.call, d)
      BY <3>1, <1>2
    <3> QED BY <2>1, <3>2 DEF Content
  <2>2. CASE ~(r.kind = "load" /\ r.ok)
    <3>1. y = Val(r.call)
      BY <2>2, <1>3 DEF Content
    <3>2. Upvalued(y, x, e) = y
      BY <3>1 DEF Upvalued, Val
    <3> QED BY <2>2, <3>1, <3>2 DEF Content
  <2> QED BY <2>1, <2>2
<1> QED BY <1>1, <1>2, <1>3

Upvalues(t, s, n, x, e) == \A i \in 1 .. n : t[i] = Upvalued(s[i], x, e)

LEMMA Relabeled ==
    ASSUME NEW st, NEW t, NEW n \in Nat, NEW rs \in [Objects -> Result \cup {Gone}], NEW w,
           Owned(st, n, rs, w), NEW o \in Objects, Holds(rs, o),
           rs[o].kind = "load", rs[o].ok, NEW x, NEW e \in Envs,
           "env_below" \notin Uses => x[1] = "chunk" /\ x[2] = rs[o].call,
           Upvalues(t, st, n, x, e)
    PROVE  Owned(t, n, [rs EXCEPT ![o].asked = e], w)
<1> DEFINE rs2 == [rs EXCEPT ![o].asked = e]
<1>1. /\ \A p \in Objects : p # o => rs2[p] = rs[p]
      /\ rs2[o] = [rs[o] EXCEPT !.asked = e]
  OBVIOUS
<1>2. /\ rs2[o].index = rs[o].index /\ rs2[o].popcount = rs[o].popcount
      /\ rs2[o].call = rs[o].call /\ rs2[o].kind = rs[o].kind /\ rs2[o].ok = rs[o].ok
      /\ rs2[o].asked = e /\ rs2[o] # Gone
  <2>1. rs[o] \in Result
    BY HeldType
  <2>2. [rs[o] EXCEPT !.asked = e] \in Result
    BY <2>1 DEF Result
  <2>3. rs2[o] # Gone
    BY <1>1, <2>2 DEF Result, Gone
  <2> HIDE DEF rs2
  <2> QED BY <1>1, <2>1, <2>3, ZenonT(30) DEF Result
<1> HIDE DEF rs2
<1> USE DEF Upvalues
<1>3. ASSUME NEW p \in Objects
      PROVE  /\ Holds(rs2, p) <=> Holds(rs, p)
             /\ Holds(rs2, p) => /\ Slots(rs2[p]) = Slots(rs[p]) /\ rs2[p].call = rs[p].call
                                 /\ rs2[p].index = rs[p].index /\ rs2[p].popcount = rs[p].popcount
                                 /\ rs2[p].kind = rs[p].kind /\ rs2[p].ok = rs[p].ok
  BY <1>1, <1>2 DEF Holds, Slots
<1>4. ASSUME NEW p \in Objects, Holds(rs2, p) PROVE Placed(t, n, rs2[p])
  <2>1. Placed(st, n, rs[p]) /\ \A i \in Slots(rs[p]) : i \in 1 .. n
    BY <1>3, <1>4, HeldFacts DEF Owned
  <2>2. ASSUME NEW i \in Slots(rs[p]) PROVE Content(rs2[p], t[i])
    <3>1. Content(rs[p], st[i]) /\ t[i] = Upvalued(st[i], x, e)
      BY <2>1 DEF Placed
    <3>2. Content(rs[p], t[i])
      BY <3>1, UpvaluedFacts
    <3> QED BY <3>2, <1>3, <1>4 DEF Content
  <2> QED BY <1>3, <1>4, <2>1, <2>2 DEF Placed
<1>5. ASSUME NEW p \in Objects, Holds(rs2, p) PROVE Sees(t, rs2[p])
  <2> SUFFICES ASSUME "env_below" \notin Uses, rs2[p].kind = "load", rs2[p].ok
               PROVE  t[rs2[p].index] = Chunk(rs2[p].call, rs2[p].asked)
    BY DEF Sees
  <2> DEFINE i == rs[p].index
  <2>1. Holds(rs, p) /\ rs2[p].index = i /\ rs2[p].call = rs[p].call
        /\ rs[p].kind = "load" /\ rs[p].ok
    BY <1>3, <1>5
  <2>2. i \in 1 .. n /\ st[i] = Chunk(rs[p].call, rs[p].asked)
    <3>1. i \in Slots(rs[p]) /\ \A j \in Slots(rs[p]) : j \in 1 .. n
      BY <2>1, HeldFacts
    <3>2. Sees(st, rs[p])
      BY <2>1 DEF Owned
    <3> QED BY <2>1, <3>1, <3>2 DEF Sees
  <2> HIDE DEF i
  <2>3. t[i] = IF rs[p].call = rs[o].call THEN Chunk(rs[p].call, e)
               ELSE Chunk(rs[p].call, rs[p].asked)
    <3>1. t[i] = Upvalued(st[i], x, e) /\ x[1] = "chunk" /\ x[2] = rs[o].call
      BY <2>2
    <3> QED BY <2>2, <3>1, UpvaluedFacts
  <2>4. CASE p = o
    BY <2>1, <2>3, <2>4, <1>2
  <2>5. CASE p # o
    <3>1. rs[p].call # rs[o].call
      BY <2>1, <2>5 DEF Owned, Apart
    <3> QED BY <2>1, <2>3, <2>5, <3>1, <1>1
  <2> QED BY <2>4, <2>5
<1>6. ASSUME NEW p \in Objects, NEW q \in Objects, Holds(rs2, p), Holds(rs2, q), p # q
      PROVE  Apart(rs2[p], rs2[q])
  <2>1. Apart(rs[p], rs[q])
    BY <1>3, <1>6 DEF Owned
  <2> QED BY <1>3, <1>6, <2>1 DEF Apart
<1>7. ASSUME NEW i \in 1 .. n
      PROVE  t[i] = Own \/ \E p \in Objects : Holds(rs2, p) /\ i \in Slots(rs2[p])
  <2>1. CASE st[i] = Own
    BY <2>1, UpvaluedFacts
  <2>2. CASE st[i] # Own
    <3>1. PICK p \in Objects : Holds(rs, p) /\ i \in Slots(rs[p])
      BY <2>2 DEF Owned
    <3> QED BY <3>1, <1>3
  <2> QED BY <2>1, <2>2
<1>8. OwnSlots(t, n) = OwnSlots(st, n)
  <2>1. \A i \in 1 .. n : t[i] = Own <=> st[i] = Own
    BY UpvaluedFacts
  <2> QED BY <2>1 DEF OwnSlots
<1> QED BY <1>4, <1>5, <1>6, <1>7, <1>8 DEF Owned, rs2

\* t is s without its n values from a on.
Without(t, s, a, n) ==
    /\ Len(t) = Len(s) - n
    /\ \A i \in 1 .. Len(s) - n : t[i] = IF i < a THEN s[i] ELSE s[i + n]

\* stack::remove of values that are there.
LEMMA RemovedFacts ==
    ASSUME NEW S, NEW s \in Seq(S), NEW a \in Nat \ {0}, NEW n \in Nat, a + n <= Len(s) + 1
    PROVE  Without(removed(s, a, n), s, a, n)
<1> DEFINE k == Len(s)
           p == SubSeq(s, 1, a - 1)
           q == SubSeq(s, a + n, k)
           t == p \o q
<1>1. k \in Nat /\ a - 1 \in Int /\ a - 1 <= k /\ a + n \in 1 .. k + 1
  BY LenProperties
<1>2. CASE n = 0
  <2>1. removed(s, a, n) = s
    BY <1>2 DEF removed
  <2> QED BY <2>1, <1>1, <1>2 DEF Without
<1>3. CASE n # 0 /\ a = k
  <2>1. n = 1 /\ ~(n < 1 \/ k < 1)
    BY <1>1, <1>3
  <2>2. removed(s, a, n) = Cut(s, 1)
    BY <2>1, <1>3 DEF removed
  <2>3. /\ Len(Cut(s, 1)) = IF 1 < k THEN k - 1 ELSE 0
        /\ \A i \in 1 .. k - 1 : Cut(s, 1)[i] = s[i]
    BY CutFacts
  <2>4. Len(Cut(s, 1)) = k - 1 /\ \A i \in 1 .. k - 1 : i < a
    BY <2>1, <2>3, <1>1, <1>3
  <2> QED BY <2>1, <2>2, <2>3, <2>4 DEF Without
<1>4. CASE n # 0 /\ a # k
  <2>1. ~(n < 1) /\ ~(k < 1) /\ ~(a + n - 1 > k)
    BY <1>1, <1>4
  <2>2. removed(s, a, n) = t
    BY <2>1, <1>4 DEF removed
  <2>3. p \in Seq(S) /\ Len(p) = a - 1 /\ \A i \in 1 .. a - 1 : p[i] = s[i]
    <3>1. /\ p \in Seq(S) /\ Len(p) = (IF a - 1 > 0 THEN a - 1 ELSE 0)
          /\ \A i \in 1 .. a - 1 : p[i] = s[i]
      BY <1>1, PrefixFacts
    <3> HIDE DEF p
    <3> QED BY <3>1
  <2>4. /\ q \in Seq(S) /\ Len(q) = k - (a + n) + 1
        /\ \A i \in 1 .. k - (a + n) + 1 : q[i] = s[a + n + i - 1]
    BY <1>1, SuffixFacts
  <2> HIDE DEF p, q
  <2>5. /\ Len(t) = Len(p) + Len(q)
        /\ \A i \in 1 .. Len(p) + Len(q) : t[i] = IF i <= Len(p) THEN p[i] ELSE q[i - Len(p)]
    BY <2>3, <2>4, ConcatProperties
  <2> HIDE DEF t
  <2>6. Len(t) = k - n
    BY <1>1, <2>3, <2>4, <2>5
  <2>7. ASSUME NEW i \in 1 .. k - n
        PROVE  t[i] = IF i < a THEN s[i] ELSE s[i + n]
    <3>1. CASE i < a
      <4>1. i \in 1 .. a - 1 /\ i \in 1 .. Len(p) + Len(q) /\ i <= Len(p)
        BY <3>1, <1>1, <2>3, <2>4
      <4>2. t[i] = p[i]
        BY <4>1, <2>5
      <4>3. p[i] = s[i]
        BY <4>1, <2>3
      <4> QED BY <3>1, <4>2, <4>3
    <3>2. CASE ~(i < a)
      <4>1. t[i] = q[i - (a - 1)]
        <5>1. i \in 1 .. Len(p) + Len(q) /\ ~(i <= Len(p)) /\ Len(p) = a - 1
          BY <3>2, <1>1, <2>3, <2>4
        <5> QED BY <5>1, <2>5
      <4>2. i - (a - 1) \in 1 .. k - (a + n) + 1 /\ a + n + (i - (a - 1)) - 1 = i + n
        BY <3>2, <1>1
      <4> QED BY <3>2, <4>1, <4>2, <2>4
    <3> QED BY <3>1, <3>2
  <2> QED BY <2>2, <2>6, <2>7 DEF Without
<1> QED BY <1>2, <1>3, <1>4

\* The program's values move down together.
LEMMA OwnMovesDown ==
    ASSUME NEW s, NEW t, Len(s) \in Nat, NEW a \in Nat \ {0}, NEW n \in Nat,
           a + n <= Len(s) + 1, Without(t, s, a, n), \A i \in a .. a + n - 1 : s[i] # Own
    PROVE  Cardinality(OwnSlots(t, Len(t))) = Cardinality(OwnSlots(s, Len(s)))
<1> DEFINE X == OwnSlots(t, Len(t))
           Y == OwnSlots(s, Len(s))
           f == [i \in X |-> IF i < a THEN i ELSE i + n]
<1>1. /\ Len(t) = Len(s) - n /\ Len(t) \in Nat
      /\ \A i \in 1 .. Len(t) : i < a => t[i] = s[i]
      /\ \A i \in 1 .. Len(t) : ~(i < a) => t[i] = s[i + n]
  BY DEF Without
<1>2. ASSUME NEW i PROVE i \in X <=> i \in 1 .. Len(t) /\ t[i] = Own
  BY DEF OwnSlots
<1>3. ASSUME NEW i PROVE i \in Y <=> i \in 1 .. Len(s) /\ s[i] = Own
  BY DEF OwnSlots
<1>4. ASSUME NEW i \in X
      PROVE  (i < a => i \in Y) /\ (~(i < a) => i + n \in Y)
  <2>1. i \in 1 .. Len(t) /\ t[i] = Own
    BY <1>2
  <2>2. i \in 1 .. Len(s) /\ i + n \in 1 .. Len(s)
    BY <2>1, <1>1
  <2> QED BY <2>1, <2>2, <1>1, <1>3
<1>5. ASSUME NEW y \in Y
      PROVE  (y < a => y \in X) /\ (~(y < a) => y - n \in X /\ ~(y - n < a))
  <2>1. y \in 1 .. Len(s) /\ s[y] = Own /\ y \notin a .. a + n - 1
    BY <1>3
  <2>2. CASE y < a
    <3>1. y \in 1 .. Len(t)
      BY <2>1, <2>2, <1>1
    <3> QED BY <2>1, <2>2, <3>1, <1>1, <1>2
  <2>3. CASE ~(y < a)
    <3>1. ~(y - n < a)
      BY <2>1, <2>3
    <3>2. y - n \in 1 .. Len(t) /\ (y - n) + n = y
      BY <2>1, <3>1, <1>1
    <3> QED BY <2>1, <2>3, <3>1, <3>2, <1>1, <1>2
  <2> QED BY <2>2, <2>3
<1>6. X \subseteq Int /\ Y \subseteq Int
  BY DEF OwnSlots
<1> HIDE DEF X, Y
<1>7. f \in [X -> Y]
  BY <1>4
<1>8. \A i, j \in X : f[i] = f[j] => i = j
  <2>1. SUFFICES ASSUME NEW i \in X, NEW j \in X, f[i] = f[j] PROVE i = j
    OBVIOUS
  <2>2. i \in Int /\ j \in Int /\ f[i] = (IF i < a THEN i ELSE i + n) /\ f[j] = (IF j < a THEN j ELSE j + n)
    BY <1>6
  <2> HIDE DEF f
  <2>3. CASE i < a /\ j < a
    BY <2>1, <2>2, <2>3
  <2>4. CASE ~(i < a) /\ ~(j < a)
    <3>1. i + n = j + n
      BY <2>1, <2>2, <2>4
    <3> QED BY <3>1, <2>2
  <2>5. CASE i < a /\ ~(j < a)
    <3>1. i = j + n
      BY <2>1, <2>2, <2>5
    <3> QED BY <3>1, <2>2, <2>5
  <2>6. CASE ~(i < a) /\ j < a
    <3>1. i + n = j
      BY <2>1, <2>2, <2>6
    <3> QED BY <3>1, <2>2, <2>6
  <2> QED BY <2>3, <2>4, <2>5, <2>6
<1>9. \A y \in Y : \E i \in X : f[i] = y
  <2>1. SUFFICES ASSUME NEW y \in Y PROVE \E i \in X : f[i] = y
    OBVIOUS
  <2>2. CASE y < a
    <3>1. y \in X /\ f[y] = y
      BY <2>2, <1>5
    <3> QED BY <3>1
  <2>3. CASE ~(y < a)
    <3>1. y - n \in X /\ ~(y - n < a) /\ (y - n) + n = y
      BY <2>3, <1>5, <1>6
    <3>2. f[y - n] = y
      BY <3>1
    <3> QED BY <3>1, <3>2
  <2> QED BY <2>2, <2>3
<1> HIDE DEF f
<1>10. f \in Bijection(X, Y)
  BY <1>7, <1>8, <1>9, Fun_IsBij
<1>11. ExistsBijection(X, Y)
  BY <1>10, Fun_ExistsBij
<1>12. IsFiniteSet(X)
  BY <1>1, OwnSlotsFinite DEF X
<1> QED BY <1>11, <1>12, FS_Bijection DEF X, Y

\* The topmost owner's values go; what lay above them was the program's own.
LEMMA ResultVacated ==
    ASSUME NEW s \in Seq(Item), NEW rs \in [Objects -> Result \cup {Gone}], NEW w,
           Owned(s, Len(s), rs, w), NEW o \in Objects, Holds(rs, o),
           \A p \in Objects : Holds(rs, p) => rs[p].index <= rs[o].index,
           NEW t, Without(t, s, rs[o].index, rs[o].popcount)
    PROVE  Owned(t, Len(t), [rs EXCEPT ![o] = Gone], w)
<1> DEFINE a == rs[o].index
           k == rs[o].popcount
           n == Len(s)
           rs2 == [rs EXCEPT ![o] = Gone]
<1>1. n \in Nat
  BY LenProperties
<1>2. /\ a \in Nat \ {0} /\ k \in Nat \ {0} /\ a + k <= n + 1 /\ Slots(rs[o]) = a .. a + k - 1
      /\ \A i \in a .. a + k - 1 : s[i] # Own
  <2>1. /\ a \in Slots(rs[o]) /\ a >= 1 /\ a + k - 1 <= n
        /\ \A i \in Slots(rs[o]) : s[i] # Own
    BY <1>1, HeldFacts
  <2>2. a \in Nat /\ k \in Nat \ {0} /\ Slots(rs[o]) = a .. a + k - 1
    BY HeldType DEF Slots
  <2> HIDE DEF a, k, n
  <2> QED BY <2>1, <2>2, <1>1
<1>3. /\ rs2[o] = Gone /\ \A p \in Objects : p # o => rs2[p] = rs[p]
  OBVIOUS
<1>4. /\ Len(t) = n - k /\ Len(t) \in Nat
      /\ \A i \in 1 .. Len(t) : i < a => t[i] = s[i] /\ i \in 1 .. n
      /\ \A i \in 1 .. Len(t) : ~(i < a) => t[i] = s[i + k] /\ i + k \in 1 .. n
  <2>1. Len(t) = n - k /\ \A i \in 1 .. n - k : t[i] = IF i < a THEN s[i] ELSE s[i + k]
    BY DEF Without
  <2> HIDE DEF a, k, n
  <2>2. Len(t) \in Nat
    BY <2>1, <1>1, <1>2
  <2>3. \A i \in 1 .. Len(t) : i \in 1 .. n /\ i + k \in 1 .. n
    BY <2>1, <1>1, <1>2
  <2> QED BY <2>1, <2>2, <2>3
<1>5. Cardinality(OwnSlots(t, Len(t))) = w
  <2>1. Cardinality(OwnSlots(t, Len(t))) = Cardinality(OwnSlots(s, Len(s)))
    BY <1>1, <1>2, OwnMovesDown
  <2> QED BY <2>1 DEF Owned
<1> HIDE DEF rs2
<1>6. ASSUME NEW p \in Objects, Holds(rs2, p)
      PROVE  /\ Holds(rs, p) /\ rs2[p] = rs[p] /\ p # o
             /\ rs[p].index + rs[p].popcount <= a
             /\ \A i \in Slots(rs[p]) : i < a /\ i \in 1 .. Len(t) /\ t[i] = s[i]
  <2>1. Holds(rs, p) /\ rs2[p] = rs[p] /\ p # o
    BY <1>3, <1>6 DEF Holds
  <2>2. /\ rs[p].index \in Nat \ {0} /\ rs[p].popcount \in Nat \ {0} /\ rs[p].index <= a
        /\ \A i \in Slots(rs[p]) : i \in 1 .. n
    <3>1. /\ rs[p].index >= 1 /\ \A i \in Slots(rs[p]) : i \in 1 .. n
      BY <2>1, <1>1, HeldFacts
    <3>2. rs[p].index \in Nat /\ rs[p].popcount \in Nat \ {0}
      BY <2>1, HeldType
    <3>3. rs[p].index <= a
      BY <2>1
    <3> HIDE DEF a, n
    <3> QED BY <3>1, <3>2, <3>3
  <2>3. a \notin Slots(rs[p])
    <3>1. Apart(rs[o], rs[p])
      BY <2>1 DEF Owned
    <3>2. a \in Slots(rs[o])
      BY <1>2
    <3> QED BY <3>1, <3>2 DEF Apart
  <2>4. rs[p].index + rs[p].popcount <= a
    <3>1. a \notin rs[p].index .. rs[p].index + rs[p].popcount - 1
      BY <2>3 DEF Slots
    <3> HIDE DEF a
    <3> QED BY <2>2, <3>1, <1>2
  <2>5. ASSUME NEW i \in Slots(rs[p]) PROVE i < a /\ i \in 1 .. Len(t) /\ t[i] = s[i]
    <3>1. i \in 1 .. n /\ i \in rs[p].index .. rs[p].index + rs[p].popcount - 1
      BY <2>2 DEF Slots
    <3> HIDE DEF a, k, n
    <3>2. i < a
      BY <2>2, <2>4, <3>1, <1>2
    <3>3. i \in 1 .. Len(t)
      BY <3>1, <3>2, <1>1, <1>2, <1>4
    <3> QED BY <3>2, <3>3, <1>4
  <2> QED BY <2>1, <2>4, <2>5
<1>7. ASSUME NEW p \in Objects, Holds(rs2, p)
      PROVE  Placed(t, Len(t), rs2[p]) /\ Sees(t, rs2[p])
  <2>1. Holds(rs, p) /\ rs2[p] = rs[p] /\ rs[p].index + rs[p].popcount <= a
    BY <1>6, <1>7
  <2>2. Placed(s, n, rs[p]) /\ Sees(s, rs[p])
    BY <2>1 DEF Owned
  <2>3. rs[p].index \in Slots(rs[p]) /\ rs[p].index \in Nat /\ rs[p].popcount \in Nat
    BY <2>1, <1>1, HeldFacts, HeldType
  <2>4. \A i \in Slots(rs[p]) : t[i] = s[i]
    BY <1>6, <1>7
  <2>5. rs[p].index + rs[p].popcount - 1 <= Len(t)
    <3> HIDE DEF a, k, n
    <3> QED BY <2>1, <2>3, <1>1, <1>2, <1>4
  <2> QED BY <2>1, <2>2, <2>3, <2>4, <2>5 DEF Placed, Sees
<1>8. ASSUME NEW p \in Objects, NEW q \in Objects, Holds(rs2, p), Holds(rs2, q), p # q
      PROVE  Apart(rs2[p], rs2[q])
  <2>1. Holds(rs, p) /\ rs2[p] = rs[p] /\ Holds(rs, q) /\ rs2[q] = rs[q]
    BY <1>6, <1>8
  <2> QED BY <2>1, <1>8 DEF Owned
<1>9. ASSUME NEW i \in 1 .. Len(t)
      PROVE  t[i] = Own \/ \E p \in Objects : Holds(rs2, p) /\ i \in Slots(rs2[p])
  <2>1. ASSUME NEW j \in 1 .. n, t[i] = s[j], t[i] # Own
        PROVE  \E p \in Objects : Holds(rs, p) /\ j \in Slots(rs[p])
    BY <2>1 DEF Owned
  <2>2. CASE t[i] # Own /\ i < a
    <3>1. PICK p \in Objects : Holds(rs, p) /\ i \in Slots(rs[p])
      BY <2>1, <2>2, <1>4
    <3>2. p # o
      <4> SUFFICES ASSUME p = o PROVE FALSE
        OBVIOUS
      <4>1. i \in a .. a + k - 1
        BY <3>1, <1>2
      <4> HIDE DEF a, k
      <4> QED BY <4>1, <2>2, <1>2
    <3> QED BY <3>1, <3>2, <1>3 DEF Holds
  <2>3. CASE t[i] # Own /\ ~(i < a)
    <3>1. PICK p \in Objects : Holds(rs, p) /\ i + k \in Slots(rs[p])
      BY <2>1, <2>3, <1>4
    <3>2. CASE p = o
      <4>1. i + k \in a .. a + k - 1
        BY <3>1, <3>2, <1>2
      <4> HIDE DEF a, k
      <4> QED BY <4>1, <2>3, <1>2
    <3>3. CASE p # o
      <4>1. Holds(rs2, p)
        BY <3>1, <3>3, <1>3 DEF Holds
      <4>2. i + k < a
        BY <3>1, <4>1, <1>6
      <4> HIDE DEF a, k
      <4> QED BY <4>2, <2>3, <1>2
    <3> QED BY <3>2, <3>3
  <2> QED BY <2>2, <2>3
<1> QED BY <1>5, <1>7, <1>8, <1>9 DEF Owned, rs2

-----------------------------------------------------------------------------
(* The invariant.                                                          *)

\* How far the program's part of the stack reaches: up to the handler and the
\* function of the outermost script.
Floor == IF runs = <<>> THEN Len(stack)
         ELSE runs[1].func - (IF runs[1].how = "protected" THEN 2 ELSE 1)

\* The scripts' part, and what is known of the script the program started.
RunsSound ==
    /\ \A i \in Floor + 1 .. Len(stack) : i \in RunSlots /\ stack[i] # Own
    /\ \A i \in DOMAIN runs : runs[i].how # "require" =>
          /\ res[runs[i].into] = Gone
          /\ \A o \in Objects : Holds(res, o) => res[o].call # runs[i].call
          /\ "env_below" \notin Uses => stack[runs[i].func][3] = runs[i].asked

Partitioned == Framed /\ Owned(stack, Floor, res, own) /\ RunsSound

LEMMA RunSlotFacts ==
    \A i : i \in RunSlots <=>
       \E j \in 1 .. Len(runs) :
          i = runs[j].func \/ ((runs[j].how = "protected" \/ j > 1) /\ i = runs[j].func - 1)
BY DEF RunSlots

LEMMA StateTypes ==
    ASSUME Framed
    PROVE  /\ stack \in Seq(Item) /\ Len(stack) \in Nat
           /\ runs \in Seq(Run) /\ Len(runs) \in Nat /\ DOMAIN runs = 1 .. Len(runs)
           /\ runs = <<>> <=> Len(runs) = 0
           /\ res \in [Objects -> Result \cup {Gone}]
           /\ own \in Nat /\ own \in 0 .. MaxOwn
BY LenProperties, EmptySeq, ScriptsAssumption DEF Framed, TypeOK

LEMMA FloorFacts ==
    ASSUME Framed
    PROVE  /\ Floor \in Nat /\ Floor <= Len(stack)
           /\ runs = <<>> => Floor = Len(stack)
           /\ runs # <<>> => runs[1].func = Floor + (IF runs[1].how = "protected" THEN 2 ELSE 1)
           /\ \A i \in RunSlots : i \in Floor + 1 .. Len(stack)
<1>1. /\ Len(stack) \in Nat /\ Len(runs) \in Nat /\ DOMAIN runs = 1 .. Len(runs)
      /\ runs = <<>> <=> Len(runs) = 0
  BY StateTypes
<1>2. CASE runs = <<>>
  <2>1. RunSlots = {}
    BY <1>1, <1>2, RunSlotFacts
  <2> QED BY <2>1, <1>1, <1>2 DEF Floor
<1>3. CASE runs # <<>>
  <2>1. 1 \in DOMAIN runs
    BY <1>1, <1>3
  <2>2. runs[1].func \in 1 .. Len(stack) /\ (runs[1].how = "protected" => runs[1].func > 1)
    BY <2>1 DEF Framed, FramesSound
  <2>3. /\ Floor \in Nat /\ Floor + 1 <= runs[1].func
        /\ runs[1].func = Floor + (IF runs[1].how = "protected" THEN 2 ELSE 1)
    BY <2>2, <1>3 DEF Floor
  <2>4. ASSUME NEW i \in RunSlots PROVE i \in Floor + 1 .. Len(stack)
    <3>1. PICK j \in 1 .. Len(runs) :
            i = runs[j].func \/ ((runs[j].how = "protected" \/ j > 1) /\ i = runs[j].func - 1)
      BY RunSlotFacts
    <3>2. runs[j].func \in 1 .. Len(stack)
      BY <1>1 DEF Framed, FramesSound
    <3>3. CASE j = 1
      <4>1. i = runs[1].func \/ (runs[1].how = "protected" /\ i = runs[1].func - 1)
        BY <3>1, <3>3
      <4> QED BY <4>1, <2>2, <2>3, <1>1
    <3>4. CASE j # 1
      <4>1. 1 < j /\ runs[1].func + 2 <= runs[j].func
        BY <3>4, <1>1, <2>1 DEF Framed, FramesSound
      <4>2. i = runs[j].func \/ i = runs[j].func - 1
        BY <3>1
      <4> QED BY <4>1, <4>2, <3>2, <2>2, <2>3, <1>1
    <3> QED BY <3>3, <3>4
  <2> QED BY <2>2, <2>3, <2>4, <1>1, <1>3
<1> QED BY <1>2, <1>3

\* No script runs: all of the stack is the program's.
LEMMA IdleBefore ==
    ASSUME Partitioned, ~Running
    PROVE  /\ Owned(stack, Len(stack), res, own) /\ runs = <<>>
           /\ stack \in Seq(Item) /\ Len(stack) \in Nat /\ own \in Nat
           /\ res \in [Objects -> Result \cup {Gone}]
BY StateTypes DEF Partitioned, Running, Floor

LEMMA IdleAfter ==
    ASSUME Framed', runs' = <<>>, Owned(stack', Len(stack'), res', own')
    PROVE  Partitioned'
<1>1. Len(stack') \in Nat /\ DOMAIN runs' = {}
  BY LenProperties DEF Framed, TypeOK
<1>2. Floor' = Len(stack')
  BY DEF Floor
<1>3. RunsSound'
  BY <1>1, <1>2 DEF RunsSound
<1> QED BY <1>2, <1>3 DEF Partitioned

-----------------------------------------------------------------------------
(* The program's values, and its result objects.                           *)

LEMMA OwnPartitioned ==
    ASSUME Partitioned, PushOwn \/ PopOwn
    PROVE  Partitioned'
<1>0. /\ Owned(stack, Len(stack), res, own) /\ stack \in Seq(Item) /\ Len(stack) \in Nat
      /\ own \in Nat /\ res \in [Objects -> Result \cup {Gone}]
      /\ runs' = <<>> /\ res' = res
  BY IdleBefore DEF PushOwn, PopOwn, Running
<1>1. Framed'
  BY OwnFramed DEF Partitioned
<1>2. CASE PushOwn
  <2>1. stack' = Append(stack, Own) /\ own' = own + 1
    BY <1>2 DEF PushOwn
  <2>2. /\ Len(stack') = Len(stack) + 1 /\ stack'[Len(stack) + 1] = Own
        /\ \A i \in 1 .. Len(stack) : stack'[i] = stack[i]
    BY <2>1, <1>0, ItemFacts, AppendFacts
  <2>3. Owned(stack', Len(stack), res, own)
    BY <2>2, <1>0, SamePrefix
  <2>4. Owned(stack', Len(stack) + 1, res, own + 1)
    BY <2>2, <2>3, <1>0, OwnPushed
  <2> QED BY <2>1, <2>2, <2>4, <1>0, <1>1, IdleAfter
<1>3. CASE PopOwn
  <2>1. stack # <<>> /\ Last(stack) = Own /\ stack' = Front(stack) /\ own' = own - 1
    BY <1>3 DEF PopOwn
  <2> DEFINE n == Len(stack) - 1
  <2>2. /\ n \in Nat /\ Len(stack) = n + 1 /\ stack[n + 1] = Own
        /\ Len(stack') = n /\ \A i \in 1 .. n : stack'[i] = stack[i]
    <3>1. /\ Len(stack) \in Nat \ {0} /\ stack[Len(stack)] = Own
          /\ Len(Front(stack)) = Len(stack) - 1
          /\ \A i \in 1 .. Len(stack) - 1 : Front(stack)[i] = stack[i]
      BY <2>1, <1>0, LastFrontFacts
    <3>2. Len(stack) = n + 1
      BY <3>1
    <3> QED BY <2>1, <3>1, <3>2
  <2> HIDE DEF n
  <2>3. Owned(stack, n + 1, res, own)
    BY <2>2, <1>0
  <2>4. Owned(stack, n, res, own - 1)
    BY <2>2, <2>3, <1>0, OwnPopped
  <2>5. Owned(stack', n, res, own - 1)
    BY <2>2, <2>4, <1>0, SamePrefix
  <2> QED BY <2>1, <2>2, <2>5, <1>0, <1>1, IdleAfter
<1> QED BY <1>2, <1>3

LEMMA MovePartitioned ==
    ASSUME Partitioned, Uses \cap StackUses = {}, NEW o \in Objects, NEW p \in Objects,
           Move(p, o) \/ Copy(p, o)
    PROVE  Partitioned'
<1>0. /\ Owned(stack, Len(stack), res, own) /\ Len(stack) \in Nat
      /\ res \in [Objects -> Result \cup {Gone}]
      /\ runs' = <<>> /\ stack' = stack /\ own' = own /\ p # o /\ res[o] # Gone
  BY IdleBefore DEF Move, Copy, Running
<1>1. Framed'
  BY MoveFramed DEF Partitioned
<1>2. CASE Move(p, o)
  <2>1. ~Holds(res, p) /\ res' = [res EXCEPT ![p] = res[o], ![o] = abandoned(res[o])]
    BY <1>2 DEF Move, StackUses, Owns, Holds
  <2>2. abandoned(res[o]).popcount = 0
    BY <1>0 DEF abandoned, Result
  <2>3. Owned(stack, Len(stack), [res EXCEPT ![p] = res[o], ![o] = abandoned(res[o])], own)
    BY <2>1, <2>2, <1>0, ResultPassed
  <2> QED BY <2>1, <2>3, <1>0, <1>1, IdleAfter
<1>3. CASE Copy(p, o)
  <2>1. ~Holds(res, o) /\ ~Holds(res, p) /\ res' = [res EXCEPT ![p] = res[o]]
    BY <1>3 DEF Copy, StackUses, Owns, Holds
  <2>2. \A q \in Objects : Holds(res', q) => Holds(res, q) /\ res'[q] = res[q]
    BY <2>1, <1>0 DEF Holds
  <2>3. \A q \in Objects : Holds(res, q) => Holds(res', q)
    BY <2>1, <1>0 DEF Holds
  <2>4. Owned(stack, Len(stack), res', own)
    BY <2>2, <2>3, <1>0, SameOwners
  <2> QED BY <2>4, <1>0, <1>1, IdleAfter
<1> QED BY <1>2, <1>3

LEMMA DestroyPartitioned ==
    ASSUME Partitioned, Uses \cap StackUses = {}, NEW o \in Objects, Destroy(o)
    PROVE  Partitioned'
<1> DEFINE a == res[o].index
           k == res[o].popcount
           n == Len(stack)
<1>0. /\ Owned(stack, n, res, own) /\ stack \in Seq(Item) /\ n \in Nat
      /\ res \in [Objects -> Result \cup {Gone}]
      /\ runs' = <<>> /\ own' = own /\ res' = [res EXCEPT ![o] = Gone] /\ res[o] # Gone
  BY IdleBefore DEF Destroy, Running
<1>1. Framed'
  BY DestroyFramed DEF Partitioned
<1>2. stack' = IF res[o].kind = "unsafe" THEN Cut(stack, k) ELSE removed(stack, a, k)
  BY DEF Destroy
<1>3. CASE Holds(res, o)
  <2>1. InOrder(o)
    BY <1>3 DEF Destroy, Owns, Holds, StackUses
  <2>2. /\ a \in Nat \ {0} /\ k \in Nat \ {0} /\ a + k <= n + 1 /\ a + k - 1 <= n
        /\ Slots(res[o]) = a .. a + k - 1
    <3>1. a \in Nat /\ k \in Nat \ {0} /\ Slots(res[o]) = a .. a + k - 1
      BY <1>0, <1>3, HeldType DEF Slots
    <3>2. a >= 1 /\ a + k - 1 <= n
      BY <1>0, <1>3, HeldFacts
    <3> HIDE DEF a, k, n
    <3> QED BY <3>1, <3>2, <1>0
  <2>3. \A p \in Objects : Holds(res, p) => res[p].index <= a
    <3> SUFFICES ASSUME NEW p \in Objects, Holds(res, p) PROVE res[p].index <= a
      OBVIOUS
    <3>1. CASE res[o].kind # "unsafe"
      BY <2>1, <3>1 DEF InOrder, Owns, Holds
    <3>2. CASE res[o].kind = "unsafe"
      <4>1. a + k - 1 = n
        BY <2>1, <3>2 DEF InOrder
      <4>2. CASE p = o
        BY <2>2, <4>2
      <4>3. CASE p # o
        <5>1. Apart(res[p], res[o])
          BY <4>3, <1>0, <1>3 DEF Owned
        <5>2. res[p].index \in Slots(res[p]) /\ res[p].index \in 1 .. n
          BY <1>0, HeldFacts
        <5>3. res[p].index \notin a .. a + k - 1
          BY <5>1, <5>2, <2>2 DEF Apart
        <5> HIDE DEF a, k, n
        <5> QED BY <5>2, <5>3, <4>1, <2>2
      <4> QED BY <4>2, <4>3
    <3> QED BY <3>1, <3>2
  <2>4. Without(stack', stack, a, k)
    <3>1. CASE res[o].kind # "unsafe"
      <4>1. stack' = removed(stack, a, k)
        BY <3>1, <1>2
      <4> HIDE DEF a, k
      <4> QED BY <4>1, <2>2, <1>0, RemovedFacts
    <3>2. CASE res[o].kind = "unsafe"
      <4>1. a + k - 1 = n /\ stack' = Cut(stack, k)
        BY <2>1, <3>2, <1>2 DEF InOrder
      <4> HIDE DEF a, k
      <4>2. /\ Len(Cut(stack, k)) = IF k < n THEN n - k ELSE 0
            /\ \A i \in 1 .. n - k : Cut(stack, k)[i] = stack[i]
        BY <2>2, <1>0, CutFacts
      <4>3. Len(stack') = n - k /\ \A i \in 1 .. n - k : i < a
        <5> HIDE DEF n
        <5> QED BY <4>1, <4>2, <2>2, <1>0
      <4> QED BY <4>1, <4>2, <4>3 DEF Without
    <3> QED BY <3>1, <3>2
  <2>5. Owned(stack', Len(stack'), [res EXCEPT ![o] = Gone], own)
    BY <2>3, <2>4, <1>0, <1>3, ResultVacated
  <2> QED BY <2>5, <1>0, <1>1, IdleAfter
<1>4. CASE ~Holds(res, o)
  <2>1. res[o] \in Result /\ k = 0
    BY <1>0, <1>4 DEF Holds, Result
  <2>2. stack' = stack
    <3>1. removed(stack, a, 0) = stack
      BY DEF removed
    <3>2. Cut(stack, 0) = stack
      <4> DEFINE z == 0
      <4>1. z \in Nat
        OBVIOUS
      <4>2. /\ Cut(stack, z) \in Seq(Item) /\ Len(Cut(stack, z)) = IF z < n THEN n - z ELSE 0
            /\ \A i \in 1 .. n - z : Cut(stack, z)[i] = stack[i]
        BY <4>1, <1>0, CutFacts
      <4>3. Len(Cut(stack, z)) = n /\ \A i \in 1 .. n : Cut(stack, z)[i] = stack[i]
        BY <4>2, <1>0
      <4>4. Cut(stack, z) = stack
        BY <4>2, <4>3, <1>0, SeqEqual
      <4> QED BY <4>4
    <3> QED BY <3>1, <3>2, <2>1, <1>2
  <2>3. \A q \in Objects : Holds(res', q) => Holds(res, q) /\ res'[q] = res[q]
    BY <1>0 DEF Holds
  <2>4. \A q \in Objects : Holds(res, q) => Holds(res', q)
    BY <1>0, <1>4 DEF Holds
  <2>5. Owned(stack, Len(stack), res', own)
    BY <2>3, <2>4, <1>0, SameOwners
  <2> QED BY <2>2, <2>5, <1>0, <1>1, IdleAfter
<1> QED BY <1>3, <1>4

\* What Fresh gives: a call no owner, no chunk on the stack and no running
\* script has.
LEMMA FreshFacts ==
    ASSUME Framed, NEW c \in Fresh
    PROVE  /\ c \in Calls
           /\ \A o \in Objects : Holds(res, o) => res[o].call # c
           /\ \A i \in 1 .. Len(stack), e \in Envs : stack[i] # Chunk(c, e)
BY DEF Fresh, Holds

LEMMA LoadPartitioned ==
    ASSUME Partitioned, NEW o \in Objects, NEW c \in Fresh, NEW ok \in BOOLEAN, load(o, c, ok)
    PROVE  Partitioned'
<1> DEFINE x == IF ok THEN Chunk(c, Globals) ELSE Val(c)
           n == Len(stack)
           r == [kind |-> "load", index |-> Len(stack'), popcount |-> 1, ok |-> ok,
                 call |-> c, asked |-> Globals]
<1>0. /\ Owned(stack, n, res, own) /\ stack \in Seq(Item) /\ n \in Nat
      /\ res \in [Objects -> Result \cup {Gone}]
      /\ runs' = <<>> /\ own' = own /\ res[o] = Gone /\ res' = [res EXCEPT ![o] = r]
      /\ stack' = Append(stack, x)
  BY IdleBefore DEF load, Running
<1>1. Framed'
  BY LoadFramed DEF Partitioned
<1>2. /\ c \in Calls /\ Globals \in Envs
      /\ \A p \in Objects : Holds(res, p) => res[p].call # c
  BY FreshFacts, ScriptsAssumption DEF Partitioned
<1>3. x \in Item
  BY <1>2, ItemFacts
<1> HIDE DEF x
<1>4. Len(stack') = n + 1 /\ stack'[n + 1] = x /\ \A i \in 1 .. n : stack'[i] = stack[i]
  BY <1>0, <1>3, AppendFacts
<1>5. /\ r \in Result /\ r.popcount = 1 /\ r.index = n + 1 /\ r.kind = "load" /\ r.ok = ok
      /\ r.call = c /\ r.asked = Globals
  BY <1>0, <1>2, <1>4 DEF Result
<1> HIDE DEF r
<1>6. Content(r, x) /\ (r.ok => x = Chunk(r.call, r.asked))
  BY <1>2, <1>5 DEF Content, x
<1>7. Owned(stack', n, res, own) /\ ~Holds(res, o)
  BY <1>0, <1>4, SamePrefix DEF Holds
<1>8. \A i \in n + 1 .. n + r.popcount : Content(r, stack'[i])
  <2>1. \A i \in n + 1 .. n + r.popcount : i = n + 1
    BY <1>0, <1>5
  <2> QED BY <2>1, <1>4, <1>6
<1>9. Sees(stack', r)
  BY <1>4, <1>5, <1>6 DEF Sees
<1> HIDE DEF n
<1>10. Owned(stack', n + r.popcount, [res EXCEPT ![o] = r], own)
  BY <1>0, <1>2, <1>5, <1>7, <1>8, <1>9, ResultAdded
<1> QED BY <1>0, <1>1, <1>4, <1>5, <1>10, IdleAfter

LEMMA SetEnvironmentPartitioned ==
    ASSUME Partitioned, NEW o \in Objects, NEW pushed \in BOOLEAN, NEW e \in Envs,
           SetEnvironment(o, pushed, e)
    PROVE  Partitioned'
<1> DEFINE n == Len(stack)
           x == IF pushed THEN stack[res[o].index] ELSE stack[n]
<1>0. /\ Owned(stack, n, res, own) /\ stack \in Seq(Item) /\ n \in Nat
      /\ res \in [Objects -> Result \cup {Gone}]
      /\ runs' = <<>> /\ own' = own /\ res' = [res EXCEPT ![o].asked = e]
      /\ Holds(res, o) /\ res[o].kind = "load" /\ res[o].ok
      /\ res[o].index \in 1 .. n
      /\ ~pushed => res[o].index = n \/ "env_below" \in Uses
      /\ stack' = set_on(stack, res[o].index, pushed, e)
  BY IdleBefore DEF SetEnvironment, Running, Owns, Holds
<1>1. Framed'
  BY SetEnvironmentFramed DEF Partitioned
<1>2. Len(stack') = n /\ \A i \in 1 .. n : stack'[i] = Upvalued(stack[i], x, e)
  <2> HIDE DEF x
  <2>1. x = IF pushed THEN stack[res[o].index] ELSE stack[n]
    BY DEF x
  <2> QED BY <2>1, <1>0, SetOnFacts
<1>3. "env_below" \notin Uses => x[1] = "chunk" /\ x[2] = res[o].call
  <2> SUFFICES ASSUME "env_below" \notin Uses PROVE x[1] = "chunk" /\ x[2] = res[o].call
    OBVIOUS
  <2>1. x = stack[res[o].index]
    BY <1>0
  <2>2. Sees(stack, res[o])
    BY <1>0 DEF Owned
  <2>3. x = Chunk(res[o].call, res[o].asked)
    BY <2>1, <2>2, <1>0 DEF Sees
  <2> QED BY <2>3 DEF Chunk
<1> HIDE DEF x, n
<1>4. Owned(stack', n, [res EXCEPT ![o].asked = e], own)
  <2>1. Upvalues(stack', stack, n, x, e)
    BY <1>2 DEF Upvalues
  <2> QED BY <2>1, <1>0, <1>3, Relabeled
<1> QED BY <1>0, <1>1, <1>2, <1>4, IdleAfter

\* t is the first n values of s.
Prefix(t, s, n) == Len(t) = n /\ \A i \in 1 .. n : t[i] = s[i]

\* script_throw_on_error of a result with one value, on the top: the value
\* goes, the message takes its place and goes with the result.
LEMMA ThrownFacts ==
    ASSUME NEW s \in Seq(Item), NEW n \in Nat, Len(s) = n + 1,
           NEW r \in Result, r.index = n + 1, r.popcount = 1
    PROVE  Prefix(thrown(s, r), s, n)
<1> DEFINE first == removed(s, r.index, r.popcount)
           pushed == Append(first, Val(r.call))
<1>1. /\ r.index \in Nat \ {0} /\ r.popcount \in Nat /\ r.index + r.popcount <= Len(s) + 1
      /\ Val(r.call) \in Item
  BY ItemFacts DEF Result
<1>2. first \in Seq(Item) /\ Without(first, s, r.index, r.popcount)
  BY <1>1, RemovedType, RemovedFacts
<1> HIDE DEF first
<1>3. Len(first) = n /\ \A i \in 1 .. n : first[i] = s[i]
  BY <1>2 DEF Without
<1>4. pushed \in Seq(Item) /\ Len(pushed) = n + 1 /\ \A i \in 1 .. n : pushed[i] = first[i]
  BY <1>1, <1>2, <1>3, AppendFacts
<1>5. thrown(s, r) = removed(pushed, r.index, r.popcount)
  <2>1. ~(Len(pushed) - r.index > 0)
    BY <1>4
  <2> QED BY <2>1 DEF thrown, pushed, first
<1> HIDE DEF pushed
<1>6. Without(removed(pushed, r.index, r.popcount), pushed, r.index, r.popcount)
  <2>1. r.index + r.popcount <= Len(pushed) + 1
    BY <1>1, <1>4
  <2> QED BY <2>1, <1>1, <1>4, RemovedFacts
<1> DEFINE t == removed(pushed, r.index, r.popcount)
<1>7. Without(t, pushed, r.index, r.popcount)
  BY <1>6
<1> HIDE DEF t
<1>8. Len(t) = n /\ \A i \in 1 .. n : t[i] = pushed[i]
  BY <1>4, <1>7 DEF Without
<1>9. thrown(s, r) = t
  BY <1>5 DEF t
<1>10. \A i \in 1 .. n : t[i] = s[i]
  BY <1>3, <1>4, <1>8
<1> QED BY <1>8, <1>9, <1>10 DEF Prefix

LEMMA LoadFailsPartitioned ==
    ASSUME Partitioned, NEW o \in Objects, NEW c \in Fresh, NEW h \in {"pass", "throw"},
           LoadFails(o, c, h)
    PROVE  Partitioned'
<1> DEFINE n == Len(stack)
           st == Append(stack, Val(c))
           r == [kind |-> "protected", index |-> Len(st), popcount |-> 1,
                 ok |-> FALSE, call |-> c, asked |-> Globals]
<1>0. /\ Owned(stack, n, res, own) /\ stack \in Seq(Item) /\ n \in Nat
      /\ res \in [Objects -> Result \cup {Gone}]
      /\ runs' = <<>> /\ own' = own /\ res[o] = Gone
      /\ IF h = "pass" THEN stack' = st /\ res' = [res EXCEPT ![o] = r]
         ELSE stack' = thrown(st, r) /\ res' = res
  BY IdleBefore DEF LoadFails, Running
<1>1. Framed'
  BY LoadFailsFramed DEF Partitioned
<1>2. /\ c \in Calls /\ Globals \in Envs /\ Val(c) \in Item
      /\ \A p \in Objects : Holds(res, p) => res[p].call # c
  BY FreshFacts, ScriptsAssumption, ItemFacts DEF Partitioned
<1>4. /\ st \in Seq(Item) /\ Len(st) = n + 1 /\ st[n + 1] = Val(c)
      /\ \A i \in 1 .. n : st[i] = stack[i]
  BY <1>0, <1>2, AppendFacts
<1> HIDE DEF st
<1>5. /\ r \in Result /\ r.popcount = 1 /\ r.index = n + 1 /\ r.kind = "protected"
      /\ r.ok = FALSE /\ r.call = c
  BY <1>0, <1>2, <1>4 DEF Result
<1> HIDE DEF r
<1>6. CASE h = "pass"
  <2>1. stack' = st /\ res' = [res EXCEPT ![o] = r]
    BY <1>0, <1>6
  <2>2. Owned(st, n, res, own) /\ ~Holds(res, o)
    BY <1>0, <1>4, SamePrefix DEF Holds
  <2>3. \A i \in n + 1 .. n + r.popcount : Content(r, st[i])
    <3>1. \A i \in n + 1 .. n + r.popcount : i = n + 1
      BY <1>0, <1>5
    <3> QED BY <3>1, <1>4, <1>5 DEF Content
  <2>4. Sees(st, r)
    BY <1>5 DEF Sees
  <2> HIDE DEF n
  <2>5. Owned(st, n + r.popcount, [res EXCEPT ![o] = r], own)
    BY <1>0, <1>2, <1>5, <2>2, <2>3, <2>4, ResultAdded
  <2> QED BY <2>1, <2>5, <1>0, <1>1, <1>4, <1>5, IdleAfter
<1>7. CASE h # "pass"
  <2>1. stack' = thrown(st, r) /\ res' = res
    BY <1>0, <1>7
  <2> HIDE DEF n
  <2>2. Len(thrown(st, r)) = n /\ \A i \in 1 .. n : thrown(st, r)[i] = st[i]
    <3>1. Prefix(thrown(st, r), st, n)
      BY <1>0, <1>4, <1>5, ThrownFacts
    <3> QED BY <3>1 DEF Prefix
  <2>3. Owned(stack', n, res, own)
    BY <2>1, <2>2, <1>0, <1>4, SamePrefix
  <2> QED BY <2>1, <2>2, <2>3, <1>0, <1>1, IdleAfter
<1> QED BY <1>6, <1>7

LEMMA ThrowLatePartitioned ==
    ASSUME Partitioned, Uses \cap StackUses = {}, NEW o \in Objects, ThrowLate(o)
    PROVE  Partitioned'
<1> DEFINE n == Len(stack) - 1
           a == res[o].index
<1>0. /\ Owned(stack, Len(stack), res, own) /\ stack \in Seq(Item) /\ Len(stack) \in Nat
      /\ res \in [Objects -> Result \cup {Gone}]
      /\ runs' = <<>> /\ own' = own /\ res' = [res EXCEPT ![o] = Gone] /\ Holds(res, o)
      /\ stack' = thrown(stack, res[o])
      /\ res[o].index + res[o].popcount - 1 = Len(stack)
  BY IdleBefore DEF ThrowLate, Running, StackUses, Owns, Holds
<1>1. Framed'
  BY DestroyFramed DEF Partitioned
<1>2. res[o] \in Result /\ res[o].popcount = 1
  <2>1. Placed(stack, Len(stack), res[o]) /\ ~res[o].ok
    BY <1>0 DEF Owned, ThrowLate
  <2> QED BY <2>1, <1>0, HeldType DEF Placed
<1>3. /\ n \in Nat /\ Len(stack) = n + 1 /\ a = n + 1
  <2>1. a \in Nat /\ a = Len(stack) /\ a >= 1
    <3>1. a \in Nat /\ a >= 1
      BY <1>0, HeldType, HeldFacts
    <3> QED BY <3>1, <1>0, <1>2
  <2> HIDE DEF a
  <2> QED BY <2>1, <1>0
<1> HIDE DEF n
<1>4. Len(stack') = n /\ \A i \in 1 .. n : stack'[i] = stack[i]
  <2>1. Prefix(thrown(stack, res[o]), stack, n)
    BY <1>0, <1>2, <1>3, ThrownFacts
  <2> QED BY <2>1, <1>0 DEF Prefix
<1>5. Without(stack', stack, a, res[o].popcount)
  BY <1>2, <1>3, <1>4 DEF Without
<1>6. \A p \in Objects : Holds(res, p) => res[p].index <= a
  <2>1. \A p \in Objects : Holds(res, p) => res[p].index \in 1 .. Len(stack)
    BY <1>0, HeldFacts
  <2> HIDE DEF a
  <2> QED BY <2>1, <1>3
<1>7. Owned(stack', Len(stack'), [res EXCEPT ![o] = Gone], own)
  BY <1>0, <1>5, <1>6, ResultVacated
<1> QED BY <1>0, <1>1, <1>7, IdleAfter

-----------------------------------------------------------------------------
(* Scripts begin.                                                          *)

LEMMA StartedPartitioned ==
    ASSUME Partitioned, ~Running, Framed', NEW r \in Run, runs' = <<r>>, res' = res, own' = own,
           r.how \in {"protected", "unsafe"}, r.func = Len(stack'),
           Len(stack') = Len(stack) + (IF r.how = "protected" THEN 2 ELSE 1),
           \A i \in 1 .. Len(stack) : stack'[i] = stack[i],
           r.how = "protected" => stack'[Len(stack) + 1] = H,
           stack'[Len(stack')][1] = "chunk", res[r.into] = Gone,
           \A o \in Objects : Holds(res, o) => res[o].call # r.call,
           "env_below" \notin Uses => stack'[Len(stack')][3] = r.asked
    PROVE  Partitioned'
<1> DEFINE n == Len(stack)
<1>0. Owned(stack, n, res, own) /\ n \in Nat /\ res \in [Objects -> Result \cup {Gone}]
  BY IdleBefore
<1>1. runs' # <<>> /\ runs'[1] = r /\ DOMAIN runs' = {1} /\ Len(runs') = 1
  BY EmptySeq
<1>2. Floor' = n
  BY <1>0, <1>1 DEF Floor
<1>3. Owned(stack', Floor', res', own')
  BY <1>0, <1>2, SamePrefix
<1>4. ASSUME NEW i \in Floor' + 1 .. Len(stack') PROVE i \in RunSlots' /\ stack'[i] # Own
  <2>1. 1 \in 1 .. Len(runs')
    BY <1>1
  <2>2. r.func \in RunSlots' /\ (r.how = "protected" => r.func - 1 \in RunSlots')
    BY <2>1, <1>1 DEF RunSlots
  <2>3. i = r.func \/ (r.how = "protected" /\ i = r.func - 1 /\ i = n + 1)
    BY <1>0, <1>2
  <2>4. stack'[i] # Own
    BY <2>3 DEF Own, H
  <2> QED BY <2>2, <2>3, <2>4
<1>5. RunsSound'
  BY <1>1, <1>4 DEF RunsSound
<1> QED BY <1>3, <1>5 DEF Partitioned

\* A fresh chunk's environment is no other chunk's.
LEMMA FreshStack ==
    ASSUME Framed, NEW c \in Fresh, NEW e \in Envs
    PROVE  LET chunk == set_on(Append(stack, Chunk(c, Globals)), Len(stack) + 1, FALSE, e)
           IN  /\ chunk \in Seq(Item) /\ chunk # <<>> /\ Len(chunk) = Len(stack) + 1
               /\ Last(chunk) = Chunk(c, e)
               /\ \A i \in 1 .. Len(stack) : chunk[i] = stack[i]
<1> DEFINE chunk == set_on(Append(stack, Chunk(c, Globals)), Len(stack) + 1, FALSE, e)
<1>1. /\ stack \in Seq(Item) /\ c \in Calls
      /\ \A i \in 1 .. Len(stack), d \in Envs : stack[i] # Chunk(c, d)
  BY StateTypes, FreshFacts
<1>2. /\ chunk \in Seq(Item) /\ chunk # <<>> /\ Len(chunk) = Len(stack) + 1
      /\ Last(chunk) = Chunk(c, e)
      /\ \A i \in 1 .. Len(stack) : chunk[i] = Upvalued(stack[i], Chunk(c, Globals), e)
  BY <1>1, ScriptStack
<1> HIDE DEF chunk
<1>3. ASSUME NEW i \in 1 .. Len(stack)
      PROVE  Upvalued(stack[i], Chunk(c, Globals), e) = stack[i]
  <2>1. stack[i] \in Item
    BY <1>1, LenProperties
  <2>2. CASE stack[i][1] = "chunk"
    <3>1. PICK b \in Calls, d \in Envs : stack[i] = Chunk(b, d) /\ stack[i][2] = b
      BY <2>1, <2>2, ChunkItem
    <3>2. b # c
      BY <3>1, <1>1
    <3> QED BY <3>1, <3>2 DEF Upvalued, Chunk
  <2>3. CASE stack[i][1] # "chunk"
    BY <2>3 DEF Upvalued
  <2> QED BY <2>2, <2>3
<1> QED BY <1>2, <1>3 DEF chunk

LEMMA SafeScriptPartitioned ==
    ASSUME Partitioned, NEW o \in Objects, NEW c \in Fresh, NEW h \in {"pass", "throw"},
           NEW e \in Envs, safe_script(o, c, h, e)
    PROVE  Partitioned'
<1> DEFINE chunk == set_on(Append(stack, Chunk(c, Globals)), Len(stack) + 1, FALSE, e)
           r == [how |-> "protected", func |-> Len(stack) + 2, into |-> o,
                 call |-> c, handler |-> h, asked |-> e]
<1>0. /\ stack \in Seq(Item) /\ Len(stack) \in Nat /\ ~Running /\ res[o] = Gone
      /\ runs' = <<r>> /\ res' = res /\ own' = own
      /\ stack' = Front(chunk) \o <<H, Last(chunk)>>
  BY StateTypes DEF safe_script, Partitioned
<1>1. Framed'
  BY SafeScriptFramed DEF Partitioned
<1>2. c \in Calls /\ \A p \in Objects : Holds(res, p) => res[p].call # c
  BY FreshFacts DEF Partitioned
<1>3. /\ chunk \in Seq(Item) /\ chunk # <<>> /\ Len(chunk) = Len(stack) + 1
      /\ Last(chunk) = Chunk(c, e) /\ \A i \in 1 .. Len(stack) : chunk[i] = stack[i]
  BY FreshStack DEF Partitioned
<1> HIDE DEF chunk
<1>4. /\ Front(chunk) \in Seq(Item) /\ Len(Front(chunk)) = Len(stack)
      /\ Last(chunk) \in Item /\ \A i \in 1 .. Len(stack) : Front(chunk)[i] = stack[i]
  <2>1. /\ Front(chunk) \in Seq(Item) /\ Len(Front(chunk)) = Len(chunk) - 1
        /\ Last(chunk) \in Item /\ \A i \in 1 .. Len(chunk) - 1 : Front(chunk)[i] = chunk[i]
    BY <1>3, LastFrontFacts
  <2>2. Len(chunk) - 1 = Len(stack)
    BY <1>0, <1>3
  <2> QED BY <2>1, <2>2, <1>3
<1> DEFINE f == Front(chunk)
<1>5. f \in Seq(Item) /\ Len(f) = Len(stack) /\ stack' = f \o <<H, Chunk(c, e)>> /\ Chunk(c, e) \in Item
      /\ \A i \in 1 .. Len(stack) : f[i] = stack[i]
  BY <1>0, <1>3, <1>4
<1> HIDE DEF f
<1>6. /\ Len(stack') = Len(stack) + 2 /\ \A i \in 1 .. Len(stack) : stack'[i] = stack[i]
      /\ stack'[Len(stack) + 1] = H /\ stack'[Len(stack) + 2] = Chunk(c, e)
  BY <1>5, ItemFacts, TwoMore
<1>7. stack'[Len(stack')][1] = "chunk" /\ stack'[Len(stack')][3] = e
  BY <1>6 DEF Chunk
<1>8. /\ r \in Run /\ r.how = "protected" /\ r.func = Len(stack) + 2 /\ r.into = o /\ r.call = c
      /\ r.asked = e
  BY <1>0, <1>2 DEF Run
<1> HIDE DEF r
<1> QED BY <1>0, <1>1, <1>2, <1>6, <1>7, <1>8, StartedPartitioned

LEMMA UnsafeScriptPartitioned ==
    ASSUME Partitioned, NEW o \in Objects, NEW c \in Fresh, NEW e \in Envs,
           unsafe_script(o, c, e)
    PROVE  Partitioned'
<1> DEFINE chunk == set_on(Append(stack, Chunk(c, Globals)), Len(stack) + 1, FALSE, e)
           r == [how |-> "unsafe", func |-> Len(stack) + 1, into |-> o,
                 call |-> c, handler |-> "pass", asked |-> e]
<1>0. /\ Len(stack) \in Nat /\ ~Running /\ res[o] = Gone
      /\ runs' = <<r>> /\ res' = res /\ own' = own /\ stack' = chunk
  BY StateTypes DEF unsafe_script, Partitioned
<1>1. Framed'
  BY UnsafeScriptFramed DEF Partitioned
<1>2. c \in Calls /\ \A p \in Objects : Holds(res, p) => res[p].call # c
  BY FreshFacts DEF Partitioned
<1>3. /\ chunk \in Seq(Item) /\ chunk # <<>> /\ Len(chunk) = Len(stack) + 1
      /\ Last(chunk) = Chunk(c, e) /\ \A i \in 1 .. Len(stack) : chunk[i] = stack[i]
  BY FreshStack DEF Partitioned
<1> HIDE DEF chunk
<1>7. stack'[Len(stack')][1] = "chunk" /\ stack'[Len(stack')][3] = e
  <2>1. stack'[Len(stack')] = Chunk(c, e)
    BY <1>0, <1>3, LastFrontFacts
  <2> QED BY <2>1 DEF Chunk
<1>8. /\ r \in Run /\ r.how = "unsafe" /\ r.func = Len(stack) + 1 /\ r.into = o /\ r.call = c
      /\ r.asked = e
  BY <1>0, <1>2 DEF Run
<1> HIDE DEF r
<1> QED BY <1>0, <1>1, <1>2, <1>3, <1>7, <1>8, StartedPartitioned

LEMMA CallLoadedPartitioned ==
    ASSUME Partitioned, NEW o \in Objects, NEW p \in Objects, NEW c \in Fresh,
           CallLoaded(o, p, c)
    PROVE  Partitioned'
<1> DEFINE x == stack[res[o].index]
           r == [how |-> "protected", func |-> Len(stack) + 2, into |-> p,
                 call |-> c, handler |-> "pass", asked |-> res[o].asked]
<1>0. /\ stack \in Seq(Item) /\ Len(stack) \in Nat /\ ~Running /\ res[p] = Gone
      /\ runs' = <<r>> /\ res' = res /\ own' = own
      /\ stack' = stack \o <<H, x>>
      /\ Holds(res, o) /\ res[o].kind = "load" /\ res[o].ok /\ res[o].index \in 1 .. Len(stack)
  BY StateTypes DEF CallLoaded, Partitioned, Owns, Holds
<1>1. Framed'
  BY CallLoadedFramed DEF Partitioned
<1>2. c \in Calls /\ \A q \in Objects : Holds(res, q) => res[q].call # c
  BY FreshFacts DEF Partitioned
<1>3. /\ x \in Item /\ x[1] = "chunk" /\ ("env_below" \notin Uses => x[3] = res[o].asked)
      /\ res[o].asked \in Envs
  <2>1. x \in Item
    BY <1>0, LenProperties
  <2>2. Owned(stack, Len(stack), res, own) /\ res \in [Objects -> Result \cup {Gone}]
    BY <1>0, IdleBefore
  <2>3. Placed(stack, Len(stack), res[o]) /\ Sees(stack, res[o])
    BY <1>0, <2>2 DEF Owned
  <2>4. res[o].index \in Slots(res[o]) /\ res[o].asked \in Envs
    BY <1>0, <2>2, HeldFacts, HeldType
  <2>5. Content(res[o], x)
    BY <2>3, <2>4 DEF Placed
  <2>6. x[1] = "chunk"
    BY <2>5, <1>0 DEF Content, Chunk
  <2>7. "env_below" \notin Uses => x[3] = res[o].asked
    BY <2>3, <1>0 DEF Sees, Chunk
  <2> QED BY <2>1, <2>4, <2>6, <2>7
<1> HIDE DEF x
<1>6. /\ Len(stack') = Len(stack) + 2 /\ \A i \in 1 .. Len(stack) : stack'[i] = stack[i]
      /\ stack'[Len(stack) + 1] = H /\ stack'[Len(stack) + 2] = x
  BY <1>0, <1>3, ItemFacts, TwoMore
<1>8. /\ r \in Run /\ r.how = "protected" /\ r.func = Len(stack) + 2 /\ r.into = p /\ r.call = c
      /\ r.asked = res[o].asked
  BY <1>0, <1>2, <1>3 DEF Run
<1> HIDE DEF r
<1> QED BY <1>0, <1>1, <1>2, <1>3, <1>6, <1>8, StartedPartitioned

-----------------------------------------------------------------------------
(* Scripts end.                                                            *)

\* Values put where the function of the outermost script was, or its handler.
LEMMA PutAbove ==
    ASSUME NEW S, NEW s \in Seq(S), NEW m \in Nat, m <= Len(s), NEW values \in Seq(S)
    PROVE  LET t == SubSeq(s, 1, m) \o values IN
           /\ t \in Seq(S) /\ Len(t) = m + Len(values)
           /\ \A i \in 1 .. m : t[i] = s[i]
           /\ \A i \in 1 .. Len(values) : t[m + i] = values[i]
<1> DEFINE p == SubSeq(s, 1, m)
           t == p \o values
           k == Len(values)
<1>1. p \in Seq(S) /\ Len(p) = m /\ \A i \in 1 .. m : p[i] = s[i]
  <2>1. m \in Int /\ m <= Len(s)
    OBVIOUS
  <2>2. /\ p \in Seq(S) /\ Len(p) = (IF m > 0 THEN m ELSE 0) /\ \A i \in 1 .. m : p[i] = s[i]
    BY <2>1, PrefixFacts
  <2> HIDE DEF p
  <2> QED BY <2>2
<1> HIDE DEF p
<1>2. k \in Nat
  BY LenProperties
<1>3. /\ t \in Seq(S) /\ Len(t) = Len(p) + k
      /\ \A i \in 1 .. Len(p) + k : t[i] = IF i <= Len(p) THEN p[i] ELSE values[i - Len(p)]
  BY <1>1, ConcatProperties
<1> HIDE DEF t, k
<1>4. \A i \in 1 .. m : t[i] = s[i]
  BY <1>1, <1>2, <1>3
<1>5. ASSUME NEW i \in 1 .. k PROVE t[m + i] = values[i]
  <2>1. m + i \in 1 .. Len(p) + k /\ ~(m + i <= Len(p)) /\ (m + i) - Len(p) = i
    BY <1>1, <1>2
  <2> QED BY <2>1, <1>3
<1> QED BY <1>1, <1>3, <1>4, <1>5 DEF t, p, k

LEMMA EndProtectedKeeps ==
    ASSUME Partitioned, runs # <<>>, runs[1].how = "protected", Framed', runs' = <<>>,
           NEW values \in Seq(Item), NEW ok \in BOOLEAN, EndProtected(runs[1], values, ok),
           \A i \in 1 .. Len(values) : values[i] = Val(runs[1].call),
           ~ok => Len(values) = 1
    PROVE  Partitioned'
<1> DEFINE r == runs[1]
           st == SubSeq(stack, 1, r.func - 1) \o values
           result == protectedResult(r.call, r.asked, st, r.func, ok)
           bare == removed(st, r.func - 1, 1)
           n == Floor
           k == Len(values)
<1>0. /\ Framed /\ stack \in Seq(Item) /\ res \in [Objects -> Result \cup {Gone}]
      /\ 1 \in DOMAIN runs /\ Len(stack) \in Nat /\ k \in Nat
  <2>1. Framed
    BY DEF Partitioned
  <2>2. Len(runs) \in Nat /\ Len(runs) # 0 /\ DOMAIN runs = 1 .. Len(runs)
    BY <2>1, StateTypes
  <2> QED BY <2>1, <2>2, StateTypes, LenProperties
<1>1. n \in Nat /\ r.func = n + 2 /\ n + 2 <= Len(stack)
  <2>1. n \in Nat /\ r.func = n + 2
    BY <1>0, FloorFacts
  <2>2. r.func \in 1 .. Len(stack)
    BY <1>0, FrameType
  <2> QED BY <2>1, <2>2
<1>2. /\ r.into \in Objects /\ r.call \in Calls /\ r.asked \in Envs
  BY <1>0, FrameType
<1>3. /\ res[r.into] = Gone /\ \A o \in Objects : Holds(res, o) => res[o].call # r.call
      /\ Owned(stack, n, res, own)
  BY <1>0 DEF Partitioned, RunsSound
<1>4. /\ IF ok \/ r.handler = "pass"
         THEN stack' = bare /\ res' = [res EXCEPT ![r.into] = result]
         ELSE stack' = thrown(bare, result) /\ res' = res
      /\ own' = own
  BY DEF EndProtected
<1>5. \A i \in 1 .. k : values[i] = Val(r.call)
  OBVIOUS
<1> HIDE DEF r, n, k
<1>6. /\ st \in Seq(Item) /\ Len(st) = n + 1 + k
      /\ \A i \in 1 .. n + 1 : st[i] = stack[i]
      /\ \A i \in 1 .. k : st[n + 1 + i] = values[i]
  <2> DEFINE m == n + 1
  <2>1. r.func - 1 = m /\ m \in Nat /\ m <= Len(stack)
    BY <1>0, <1>1
  <2> HIDE DEF m
  <2>2. LET t == SubSeq(stack, 1, m) \o values IN
           /\ t \in Seq(Item) /\ Len(t) = m + Len(values)
           /\ \A i \in 1 .. m : t[i] = stack[i]
           /\ \A i \in 1 .. Len(values) : t[m + i] = values[i]
    BY <2>1, <1>0, PutAbove
  <2> QED BY <2>1, <2>2 DEF k, m
<1> HIDE DEF st
<1>7. bare \in Seq(Item) /\ Without(bare, st, n + 1, 1)
  <2>1. /\ r.func - 1 = n + 1 /\ n + 1 \in Nat \ {0} /\ n + 1 \in Nat /\ 1 \in Nat
        /\ n + 1 + 1 <= Len(st) + 1
    BY <1>0, <1>1, <1>6
  <2>2. removed(st, n + 1, 1) \in Seq(Item)
    BY <2>1, <1>6, RemovedType
  <2>3. Without(removed(st, n + 1, 1), st, n + 1, 1)
    BY <2>1, <1>6, RemovedFacts
  <2> QED BY <2>1, <2>2, <2>3
<1> HIDE DEF bare
<1>8. /\ Len(bare) = n + k /\ \A i \in 1 .. n : bare[i] = stack[i]
      /\ \A i \in n + 1 .. n + k : bare[i] = Val(r.call)
  <2>1. /\ Len(bare) = n + k
        /\ \A i \in 1 .. n + k : bare[i] = IF i < n + 1 THEN st[i] ELSE st[i + 1]
    BY <1>0, <1>1, <1>6, <1>7 DEF Without
  <2>2. ASSUME NEW i \in 1 .. n PROVE bare[i] = stack[i]
    <3>1. i \in 1 .. n + k /\ i < n + 1 /\ i \in 1 .. n + 1
      BY <1>0, <1>1
    <3> QED BY <2>1, <3>1, <1>6
  <2>3. ASSUME NEW i \in n + 1 .. n + k PROVE bare[i] = Val(r.call)
    <3>1. i \in 1 .. n + k /\ ~(i < n + 1) /\ i - n \in 1 .. k /\ i + 1 = n + 1 + (i - n)
      BY <1>0, <1>1
    <3> QED BY <2>1, <3>1, <1>5, <1>6
  <2> QED BY <2>1, <2>2, <2>3
<1>9. /\ result \in Result /\ result.index = n + 1 /\ result.popcount = k
      /\ result.kind = "protected" /\ result.ok = ok /\ result.call = r.call
  <2>1. /\ r.func - 1 = n + 1 /\ n + 1 \in Nat
        /\ (Len(st) - 1) - ((r.func - 1) - 1) = k
    <3> DEFINE x == Len(st)
    <3>1. x = n + 1 + k /\ n \in Nat /\ k \in Nat /\ r.func = n + 2
      BY <1>0, <1>1, <1>6
    <3> HIDE DEF x
    <3>2. x - 1 = n + k /\ (r.func - 1) - 1 = n /\ (n + k) - n = k
      BY <3>1
    <3> QED BY <3>1, <3>2 DEF x
  <2>2. result = [kind |-> "protected", index |-> n + 1, asked |-> r.asked,
                  popcount |-> k, ok |-> ok, call |-> r.call]
    BY <2>1 DEF protectedResult
  <2> HIDE DEF result
  <2> QED BY <2>1, <2>2, <1>0, <1>2 DEF Result
<1> HIDE DEF result
<1>10. Owned(bare, n, res, own)
  BY <1>0, <1>1, <1>3, <1>8, SamePrefix
<1>11. CASE ok \/ r.handler = "pass"
  <2>1. stack' = bare /\ res' = [res EXCEPT ![r.into] = result] /\ own' = own
    BY <1>4, <1>11
  <2>2. /\ ~Holds(res, r.into)
        /\ result.kind = "load" \/ ~result.ok => result.popcount = 1
        /\ \A i \in n + 1 .. n + result.popcount : Content(result, bare[i])
        /\ Sees(bare, result)
        /\ \A p \in Objects : Holds(res, p) => res[p].call # result.call
    <3>1. ~Holds(res, r.into)
      BY <1>3 DEF Holds
    <3>2. \A i \in n + 1 .. n + result.popcount : Content(result, bare[i])
      BY <1>8, <1>9 DEF Content
    <3>3. Sees(bare, result)
      BY <1>9 DEF Sees
    <3>4. result.kind = "load" \/ ~result.ok => result.popcount = 1
      BY <1>9 DEF k
    <3> QED BY <3>1, <3>2, <3>3, <3>4, <1>3, <1>9
  <2>3. Owned(bare, n + result.popcount, [res EXCEPT ![r.into] = result], own)
    BY <2>2, <1>0, <1>1, <1>2, <1>9, <1>10, ResultAdded
  <2> QED BY <2>1, <2>3, <1>8, <1>9, IdleAfter
<1>12. CASE ~(ok \/ r.handler = "pass")
  <2>1. stack' = thrown(bare, result) /\ res' = res /\ own' = own /\ k = 1
    BY <1>4, <1>12 DEF k
  <2>2. Prefix(thrown(bare, result), bare, n)
    BY <2>1, <1>1, <1>7, <1>8, <1>9, ThrownFacts
  <2>3. Owned(stack', n, res, own) /\ Len(stack') = n
    <3>1. Len(stack') = n /\ \A i \in 1 .. n : stack'[i] = bare[i]
      BY <2>1, <2>2 DEF Prefix
    <3> QED BY <3>1, <1>0, <1>1, <1>10, SamePrefix
  <2> QED BY <2>1, <2>3, IdleAfter
<1> QED BY <1>11, <1>12

LEMMA EndUnsafeKeeps ==
    ASSUME Partitioned, runs # <<>>, runs[1].how = "unsafe", Framed', runs' = <<>>,
           NEW values \in Seq(Item), EndUnsafe(runs[1], values),
           \A i \in 1 .. Len(values) : values[i] = Val(runs[1].call)
    PROVE  Partitioned'
<1> DEFINE r == runs[1]
           st == SubSeq(stack, 1, r.func - 1) \o values
           n == Floor
           k == Len(values)
           result == [kind |-> "unsafe", index |-> n + 1, popcount |-> k, ok |-> TRUE,
                      call |-> r.call, asked |-> r.asked]
<1>0. /\ Framed /\ stack \in Seq(Item) /\ res \in [Objects -> Result \cup {Gone}]
      /\ 1 \in DOMAIN runs /\ Len(stack) \in Nat /\ k \in Nat
  <2>1. Framed
    BY DEF Partitioned
  <2>2. Len(runs) \in Nat /\ Len(runs) # 0 /\ DOMAIN runs = 1 .. Len(runs)
    BY <2>1, StateTypes
  <2> QED BY <2>1, <2>2, StateTypes, LenProperties
<1>1. n \in Nat /\ r.func = n + 1 /\ n <= Len(stack)
  BY <1>0, FloorFacts
<1>2. r.into \in Objects /\ r.call \in Calls /\ r.asked \in Envs
  BY <1>0, FrameType
<1>3. /\ res[r.into] = Gone /\ \A o \in Objects : Holds(res, o) => res[o].call # r.call
      /\ Owned(stack, n, res, own)
  BY <1>0 DEF Partitioned, RunsSound
<1> HIDE DEF n, k, r
<1>4. /\ st \in Seq(Item) /\ Len(st) = n + k
      /\ \A i \in 1 .. n : st[i] = stack[i]
      /\ \A i \in 1 .. k : st[n + i] = values[i]
  <2>1. r.func - 1 = n
    BY <1>1
  <2>2. LET t == SubSeq(stack, 1, n) \o values IN
           /\ t \in Seq(Item) /\ Len(t) = n + Len(values)
           /\ \A i \in 1 .. n : t[i] = stack[i]
           /\ \A i \in 1 .. Len(values) : t[n + i] = values[i]
    BY <1>0, <1>1, PutAbove
  <2> QED BY <2>1, <2>2 DEF k
<1>5. stack' = st /\ res' = [res EXCEPT ![r.into] = result] /\ own' = own
  <2> DEFINE returns == returnsOf(Len(st), r.func - 1)
             at == Len(st) - (returns - 1)
  <2>1. /\ stack' = st /\ own' = own
        /\ res' = [res EXCEPT ![r.into] = [kind |-> "unsafe",
              index |-> IF at < 1 THEN 1 ELSE at, popcount |-> returns, ok |-> TRUE,
              call |-> r.call, asked |-> r.asked]]
    BY DEF EndUnsafe, r
  <2> HIDE DEF st
  <2>2. returns = k
    BY <1>0, <1>1, <1>4 DEF returnsOf
  <2> HIDE DEF returns
  <2>3. at = n + 1 /\ ~(at < 1)
    BY <2>2, <1>0, <1>1, <1>4
  <2> HIDE DEF at
  <2> QED BY <2>1, <2>2, <2>3
<1> HIDE DEF st
<1>6. /\ result \in Result /\ result.index = n + 1 /\ result.popcount = k
      /\ result.kind = "unsafe" /\ result.ok /\ result.call = r.call
  BY <1>0, <1>1, <1>2 DEF Result
<1> HIDE DEF result
<1>7. ~Holds(res, r.into) /\ Owned(st, n, res, own) /\ Sees(st, result)
  BY <1>0, <1>1, <1>3, <1>4, <1>6, SamePrefix DEF Holds, Sees
<1>8. \A i \in n + 1 .. n + result.popcount : Content(result, st[i])
  <2> SUFFICES ASSUME NEW i \in n + 1 .. n + result.popcount PROVE Content(result, st[i])
    OBVIOUS
  <2>1. i - n \in 1 .. k /\ n + (i - n) = i
    BY <1>0, <1>1, <1>6
  <2>2. st[i] = Val(r.call)
    <3>1. st[n + (i - n)] = values[i - n]
      BY <2>1, <1>4
    <3>2. values[i - n] = Val(r.call)
      BY <2>1 DEF k, r
    <3> QED BY <3>1, <3>2, <2>1
  <2> QED BY <2>2, <1>6 DEF Content
<1>9. Owned(st, n + result.popcount, [res EXCEPT ![r.into] = result], own)
  BY <1>0, <1>1, <1>2, <1>3, <1>6, <1>7, <1>8, ResultAdded
<1> QED BY <1>4, <1>5, <1>6, <1>9, IdleAfter

LEMMA FinishPartitioned ==
    ASSUME Partitioned, NEW k \in 0 .. 2, Finish(k)
    PROVE  Partitioned'
<1> DEFINE r == runs[1]
           values == [i \in 1 .. k |-> Val(r.call)]
<1>0. /\ r.how # "require" /\ runs' = <<>> /\ runs # <<>>
      /\ IF r.how = "protected" THEN EndProtected(r, values, TRUE)
         ELSE EndUnsafe(r, values)
  <2>1. Framed
    BY DEF Partitioned
  <2>2. runs = <<>> <=> Len(runs) = 0
    BY <2>1, StateTypes
  <2>3. /\ Len(runs) = 1 /\ r.how # "require" /\ runs' = <<>>
        /\ IF r.how = "protected" THEN EndProtected(r, values, TRUE)
           ELSE EndUnsafe(r, values)
    BY DEF Finish
  <2>4. runs # <<>>
    <3>1. Len(runs) = 1
      BY <2>3
    <3> QED BY <3>1, <2>2
  <2> QED BY <2>3, <2>4, Zenon
<1>1. Framed'
  BY FinishFramed DEF Partitioned
<1>2. r.call \in Calls /\ r.how \in {"protected", "unsafe"}
  <2>1. Framed /\ Len(runs) \in Nat /\ Len(runs) # 0 /\ DOMAIN runs = 1 .. Len(runs)
    BY <1>0, StateTypes DEF Partitioned
  <2>2. 1 \in DOMAIN runs
    BY <2>1
  <2> QED BY <2>1, <2>2, <1>0, FrameType
<1> DEFINE c == r.call
<1>3. /\ values \in Seq(Item) /\ \A i \in 1 .. Len(values) : values[i] = Val(c)
  <2>1. c \in Calls /\ k \in Nat
    BY <1>2
  <2> HIDE DEF c
  <2>2. /\ [i \in 1 .. k |-> Val(c)] \in Seq(Item) /\ Len([i \in 1 .. k |-> Val(c)]) = k
        /\ \A i \in 1 .. k : [j \in 1 .. k |-> Val(c)][i] = Val(c)
    BY <2>1, ValuesType
  <2>3. values = [i \in 1 .. k |-> Val(c)]
    BY DEF c
  <2> QED BY <2>2, <2>3
<1> HIDE DEF values
<1>4. CASE r.how = "protected"
  <2>1. EndProtected(runs[1], values, TRUE) /\ TRUE \in BOOLEAN
    BY <1>0, <1>4
  <2> QED BY <2>1, <1>0, <1>1, <1>3, <1>4, EndProtectedKeeps
<1>5. CASE r.how = "unsafe"
  <2>1. EndUnsafe(runs[1], values)
    BY <1>0, <1>5
  <2> QED BY <2>1, <1>0, <1>1, <1>3, <1>5, EndUnsafeKeeps
<1> QED BY <1>2, <1>4, <1>5

\* An empty stack has no owners.
LEMMA NothingOwned ==
    ASSUME NEW rs, \A o \in Objects : ~Holds(rs, o)
    PROVE  Owned(<<>>, 0, rs, 0)
<1>1. OwnSlots(<<>>, 0) = {}
  BY DEF OwnSlots
<1>2. Cardinality(OwnSlots(<<>>, 0)) = 0
  BY <1>1, FS_EmptySet
<1> QED BY <1>2 DEF Owned

LEMMA FailPartitioned ==
    ASSUME Partitioned, Uses \cap StackUses = {}, Fail
    PROVE  Partitioned'
<1>0. /\ runs # <<>> /\ runs' = <<>>
      /\ IF runs[1].how = "protected"
         THEN EndProtected(runs[1], <<Val(runs[1].call)>>, FALSE)
         ELSE Panic /\ res' = res
  BY DEF Fail, Running
<1>1. Framed'
  BY FailFramed DEF Partitioned
<1>2. CASE runs[1].how = "protected"
  <2>1. Framed /\ Len(runs) \in Nat /\ Len(runs) # 0 /\ DOMAIN runs = 1 .. Len(runs)
    BY <1>0, StateTypes DEF Partitioned
  <2>2. 1 \in DOMAIN runs
    BY <2>1
  <2>3. Val(runs[1].call) \in Item
    BY <2>1, <2>2, <1>2, FrameType, ItemFacts
  <2> DEFINE values == <<Val(runs[1].call)>>
  <2>4. values \in Seq(Item) /\ Len(values) = 1 /\ values[1] = Val(runs[1].call)
    BY <2>3
  <2>5. EndProtected(runs[1], values, FALSE) /\ FALSE \in BOOLEAN
    BY <1>0, <1>2
  <2> HIDE DEF values
  <2>6. \A i \in 1 .. Len(values) : values[i] = Val(runs[1].call)
    <3>1. \A i \in 1 .. Len(values) : i = 1
      BY <2>4
    <3> QED BY <2>4, <3>1
  <2> QED BY <2>4, <2>5, <2>6, <1>0, <1>1, <1>2, EndProtectedKeeps
<1>3. CASE runs[1].how # "protected"
  <2>1. /\ \A o \in Objects : ~Holds(res, o)
        /\ stack' = <<>> /\ own' = 0 /\ res' = res
    BY <1>0, <1>3 DEF Panic, Owns, Holds, StackUses
  <2>2. Owned(stack', 0, res', 0) /\ Len(stack') = 0
    BY <2>1, NothingOwned, EmptySeq
  <2> QED BY <2>1, <2>2, <1>0, <1>1, IdleAfter
<1> QED BY <1>2, <1>3

-----------------------------------------------------------------------------
(* Packages.                                                               *)

LEMMA TablesPartitioned ==
    ASSUME Partitioned, Framed', UNCHANGED <<stack, runs, res, own>>
    PROVE  Partitioned'
<1>1. stack' = stack /\ runs' = runs /\ res' = res /\ own' = own
  OBVIOUS
<1>2. Floor' = Floor /\ RunSlots' = RunSlots
  BY <1>1 DEF Floor, RunSlots
<1>3. Owned(stack', Floor', res', own')
  BY <1>1, <1>2 DEF Partitioned
<1>4. RunsSound'
  BY <1>1, <1>2 DEF Partitioned, RunsSound
<1> QED BY <1>3, <1>4 DEF Partitioned

\* A script that requires another: the function of the first, and the
\* argument of the bound function it called, go above what was there.
LEMMA RequireScriptPartitioned ==
    ASSUME Partitioned, NEW p \in Packages, NEW create \in BOOLEAN, require_script(p, create)
    PROVE  Partitioned'
<1> DEFINE st == IF Running THEN Append(stack, Arg) ELSE stack
           m == Len(stack)
           l == Len(runs)
           r == [how |-> "require", func |-> Len(st) + 1,
                 base |-> IF Running THEN Len(stack) ELSE 0, key |-> p,
                 create |-> create, n |-> ran[p] + 1]
<1>0. /\ Framed /\ stack \in Seq(Item) /\ m \in Nat /\ runs \in Seq(Run) /\ l \in Nat
      /\ DOMAIN runs = 1 .. l /\ (runs = <<>> <=> l = 0)
      /\ Owned(stack, Floor, res, own) /\ res \in [Objects -> Result \cup {Gone}]
      /\ Floor \in Nat /\ Floor <= m /\ (runs = <<>> => Floor = m)
      /\ \A i \in Floor + 1 .. m : i \in RunSlots /\ stack[i] # Own
  <2>1. Framed /\ Owned(stack, Floor, res, own) /\ RunsSound
    BY DEF Partitioned
  <2> QED BY <2>1, StateTypes, FloorFacts DEF RunsSound
<1>1. Framed'
  BY RequireScriptFramed DEF Partitioned
<1>2. stack' = Append(st, Script(p)) /\ runs' = Append(runs, r) /\ res' = res /\ own' = own
  BY DEF require_script
<1>3. /\ r.how = "require" /\ r.func = Len(st) + 1
  OBVIOUS
<1> HIDE DEF r
<1>4. /\ runs' # <<>> /\ Len(runs') = l + 1 /\ runs'[l + 1] = r
      /\ \A i \in 1 .. l : runs'[i] = runs[i]
      /\ DOMAIN runs' = 1 .. l + 1
  <2>1. Len(runs') = l + 1 /\ runs'[l + 1] = r /\ \A i \in 1 .. l : runs'[i] = runs[i]
    BY <1>0, <1>2
  <2>2. runs' # <<>>
    BY <2>1, <1>0, EmptySeq
  <2>3. DOMAIN runs' = 1 .. Len(runs')
    BY <1>1, LenProperties DEF Framed, TypeOK
  <2> QED BY <2>1, <2>2, <2>3
<1>5. ASSUME NEW i \in RunSlots PROVE i \in RunSlots'
  <2>1. PICK j \in 1 .. l :
          i = runs[j].func \/ ((runs[j].how = "protected" \/ j > 1) /\ i = runs[j].func - 1)
    BY RunSlotFacts
  <2>2. j \in 1 .. Len(runs') /\ runs'[j] = runs[j]
    BY <2>1, <1>0, <1>4
  <2> QED BY <2>1, <2>2 DEF RunSlots
<1>6. r.func \in RunSlots' /\ (runs # <<>> => r.func - 1 \in RunSlots')
  <2> DEFINE k == l + 1
  <2>1. k \in 1 .. Len(runs') /\ (runs # <<>> => k > 1) /\ runs'[k] = r
    BY <1>0, <1>4
  <2> HIDE DEF k
  <2>2. r.func \in RunSlots'
    BY <2>1 DEF RunSlots
  <2>3. ASSUME runs # <<>> PROVE r.func - 1 \in RunSlots'
    <3>1. k \in 1 .. Len(runs') /\ k > 1 /\ runs'[k].func = r.func
      BY <2>1, <2>3
    <3> QED BY <3>1, ZenonT(30) DEF RunSlots
  <2> QED BY <2>2, <2>3
<1>7. Script(p) \in Item /\ Arg \in Item /\ Script(p) # Own /\ Arg # Own
  BY ItemFacts DEF Script, Own, Arg
<1>8. CASE runs = <<>>
  <2>1. st = stack
    BY <1>8 DEF Running
  <2>2. /\ Len(stack') = m + 1 /\ stack'[m + 1] = Script(p)
        /\ \A i \in 1 .. m : stack'[i] = stack[i]
    BY <2>1, <1>0, <1>2, <1>7, AppendFacts
  <2>3. r.func = m + 1 /\ Floor' = m /\ Floor = m
    <3>1. runs'[1] = r
      BY <1>0, <1>4, <1>8
    <3> QED BY <2>1, <3>1, <1>0, <1>3, <1>4, <1>8 DEF Floor
  <2>4. Owned(stack', Floor', res', own')
    BY <2>2, <2>3, <1>0, <1>2, SamePrefix
  <2>5. \A i \in Floor' + 1 .. Len(stack') : i \in RunSlots' /\ stack'[i] # Own
    <3>1. \A i \in Floor' + 1 .. Len(stack') : i = m + 1
      BY <2>2, <2>3, <1>0
    <3> QED BY <3>1, <2>2, <2>3, <1>6, <1>7
  <2>6. \A i \in DOMAIN runs' : runs'[i].how = "require"
    <3>1. \A i \in DOMAIN runs' : i = l + 1
      BY <1>0, <1>4, <1>8
    <3> QED BY <3>1, <1>3, <1>4
  <2> QED BY <2>4, <2>5, <2>6, <1>1 DEF Partitioned, RunsSound
<1>9. CASE runs # <<>>
  <2>1. st = Append(stack, Arg)
    BY <1>9 DEF Running
  <2>2. /\ st \in Seq(Item) /\ Len(st) = m + 1 /\ st[m + 1] = Arg
        /\ \A i \in 1 .. m : st[i] = stack[i]
    BY <2>1, <1>0, <1>7, AppendFacts
  <2> HIDE DEF st
  <2>3. /\ Len(stack') = m + 2 /\ stack'[m + 2] = Script(p)
        /\ \A i \in 1 .. m + 1 : stack'[i] = st[i]
    <3>1. /\ Len(stack') = Len(st) + 1 /\ stack'[Len(st) + 1] = Script(p)
          /\ \A i \in 1 .. Len(st) : stack'[i] = st[i]
      BY <2>2, <1>2, <1>7, AppendFacts
    <3> QED BY <3>1, <2>2, <1>0
  <2>4. stack'[m + 1] = Arg /\ \A i \in 1 .. m : stack'[i] = stack[i]
    BY <2>2, <2>3, <1>0
  <2>5. r.func = m + 2 /\ Floor' = Floor
    <3>1. runs'[1] = runs[1]
      BY <1>0, <1>4, <1>9
    <3> QED BY <2>2, <3>1, <1>0, <1>3, <1>4, <1>9 DEF Floor
  <2>6. Owned(stack', Floor', res', own')
    <3>1. \A i \in 1 .. Floor : stack'[i] = stack[i]
      BY <2>4, <1>0
    <3> QED BY <3>1, <2>5, <1>0, <1>2, SamePrefix
  <2>7. ASSUME NEW i \in Floor' + 1 .. Len(stack') PROVE i \in RunSlots' /\ stack'[i] # Own
    <3> DEFINE n == Floor
    <3>1. i \in n + 1 .. m \/ i = m + 1 \/ i = m + 2
      <4>1. Floor' = n /\ Len(stack') = m + 2 /\ n \in Nat /\ m \in Nat
        BY <2>3, <2>5, <1>0
      <4> HIDE DEF n, m
      <4> QED BY <4>1, <2>7
    <3>2. CASE i \in Floor + 1 .. m
      <4>1. i \in 1 .. m
        BY <3>2, <1>0
      <4> QED BY <3>2, <4>1, <2>4, <1>0, <1>5
    <3>3. CASE i = m + 1
      <4>1. i = r.func - 1
        BY <3>3, <2>5, <1>0
      <4> QED BY <3>3, <4>1, <2>4, <1>6, <1>7, <1>9
    <3>4. CASE i = m + 2
      BY <3>4, <2>3, <2>5, <1>6, <1>7
    <3> QED BY <3>1, <3>2, <3>3, <3>4
  <2>8. ASSUME NEW i \in DOMAIN runs', runs'[i].how # "require"
        PROVE  /\ res'[runs'[i].into] = Gone
               /\ \A o \in Objects : Holds(res', o) => res'[o].call # runs'[i].call
               /\ "env_below" \notin Uses => stack'[runs'[i].func][3] = runs'[i].asked
    <3>1. i \in 1 .. l /\ runs'[i] = runs[i] /\ i \in DOMAIN runs
      <4>1. i \in 1 .. l \/ i = l + 1
        BY <1>0, <1>4
      <4> QED BY <4>1, <2>8, <1>0, <1>3, <1>4
    <3>2. runs[i].func \in 1 .. m
      BY <3>1, <1>0, FrameType
    <3>3. stack'[runs'[i].func] = stack[runs[i].func]
      BY <3>1, <3>2, <2>4
    <3>4. RunsSound
      BY DEF Partitioned
    <3> QED BY <3>1, <3>3, <3>4, <2>8, <1>2 DEF RunsSound
  <2>9. RunsSound'
    BY <2>7, <2>8 DEF RunsSound
  <2> QED BY <2>6, <2>9, <1>1 DEF Partitioned
<1> QED BY <1>8, <1>9

LEMMA EndRequirePartitioned ==
    ASSUME Partitioned, Uses \cap StackUses = {}, NEW k \in 0 .. 2, NEW q \in Packages,
           NEW first \in Registered(q), EndRequire(k, first)
    PROVE  Partitioned'
<1> DEFINE r == Last(runs)
           st == Returned(r, k, first)
           l == Len(runs)
           m == Len(stack)
<1>1. /\ runs # <<>> /\ r.how = "require"
      /\ stack' = IF l > 1 THEN SubSeq(st, 1, r.base) ELSE Front(st)
      /\ runs' = Front(runs) /\ res' = res /\ own' = own /\ k = 1
  <2>1. k # 1 => "many_values" \in Uses
    BY DEF EndRequire
  <2>2. k = 1
    BY <2>1 DEF StackUses
  <2> QED BY <2>2 DEF EndRequire, Running, Returned
<1>2. Framed'
  BY EndRequireFramed DEF Partitioned
<1>3. /\ r = runs[l] /\ l \in Nat \ {0} /\ DOMAIN runs = 1 .. l
      /\ r.func = m /\ m \in Nat \ {0}
      /\ r.base = IF l > 1 THEN m - 2 ELSE 0
      /\ l > 1 => runs[l - 1].func = r.base
  BY <1>1, InnermostFacts DEF Partitioned
<1>4. /\ st \in Seq(Item) /\ Len(st) = m /\ \A i \in 1 .. m - 1 : st[i] = stack[i]
  <2>1. first \in Item
    BY ItemFacts
  <2>2. LET s == Returned(Last(runs), k, first)
        IN  /\ s \in Seq(Item) /\ Len(s) = Len(stack) - 1 + k
            /\ k = 1 => s[Len(stack)] = first
            /\ \A i \in 1 .. Len(stack) - 1 : s[i] = stack[i]
    BY <2>1, <1>1, ReturnedFacts DEF Partitioned
  <2>3. m - 1 + k = m
    BY <1>1, <1>3
  <2> QED BY <2>2, <2>3
<1> HIDE DEF st
<1>5. /\ Framed /\ Owned(stack, Floor, res, own) /\ RunsSound
      /\ runs \in Seq(Run) /\ res \in [Objects -> Result \cup {Gone}]
      /\ Floor \in Nat /\ Floor <= m
      /\ runs[1].func = Floor + (IF runs[1].how = "protected" THEN 2 ELSE 1)
  <2>1. Framed /\ Owned(stack, Floor, res, own) /\ RunsSound
    BY DEF Partitioned
  <2> QED BY <2>1, <1>1, StateTypes, FloorFacts
<1>6. /\ runs' \in Seq(Run) /\ Len(runs') = l - 1
      /\ \A i \in 1 .. l - 1 : runs'[i] = runs[i]
  BY <1>1, <1>5, LastFrontFacts, SMTT(30)
<1> HIDE DEF r
<1>7. CASE l = 1
  <2>1. runs' = <<>>
    BY <1>6, <1>7, EmptySeq
  <2>2. Floor = m - 1
    BY <1>1, <1>3, <1>5, <1>7
  <2>3. stack' = Front(st) /\ st # <<>>
    BY <1>1, <1>3, <1>4, <1>7, EmptySeq
  <2>4. Len(stack') = m - 1 /\ \A i \in 1 .. m - 1 : stack'[i] = stack[i]
    <3>1. /\ Len(Front(st)) = Len(st) - 1
          /\ \A i \in 1 .. Len(st) - 1 : Front(st)[i] = st[i]
      BY <2>3, <1>4, LastFrontFacts, SMTT(30)
    <3>2. Len(st) - 1 = m - 1 /\ stack' = Front(st)
      BY <2>3, <1>4
    <3> QED BY <3>1, <3>2, <1>4
  <2>5. Owned(stack', Floor, res, own)
    BY <2>2, <2>4, <1>5, SamePrefix
  <2> QED BY <2>1, <2>2, <2>4, <2>5, <1>1, <1>2, IdleAfter
<1>8. CASE l # 1
  <2>1. /\ l > 1 /\ r.base = m - 2 /\ 1 \in 1 .. l - 1 /\ l - 1 \in 1 .. l /\ 1 \in 1 .. l /\ l \in 1 .. l
        /\ stack' = SubSeq(st, 1, r.base)
    BY <1>1, <1>3, <1>8
  <2>2. runs[1].func + 2 <= m /\ Floor + 1 <= runs[1].func /\ runs[1].func \in Nat
    <3>1. runs[1].func + 2 <= runs[l].func /\ runs[1].func \in 1 .. m
      BY <2>1, <1>3, <1>5 DEF Framed, FramesSound
    <3> QED BY <3>1, <1>3, <1>5
  <2>3. /\ Len(stack') = m - 2 /\ Floor <= m - 2
        /\ \A i \in 1 .. m - 2 : stack'[i] = stack[i]
    <3> DEFINE b == r.base
    <3>1. b \in Int /\ b <= Len(st) /\ b > 0 /\ b = m - 2 /\ Floor <= m - 2
      BY <2>1, <2>2, <1>3, <1>4, <1>5, SMTT(30)
    <3> HIDE DEF b
    <3>2. /\ Len(SubSeq(st, 1, b)) = IF b > 0 THEN b ELSE 0
          /\ \A i \in 1 .. b : SubSeq(st, 1, b)[i] = st[i]
      BY <3>1, <1>4, PrefixFacts
    <3>3. \A i \in 1 .. m - 2 : i \in 1 .. m - 1
      BY <1>3
    <3> QED BY <2>1, <3>1, <3>2, <3>3, <1>4 DEF b
  <2>4. runs' # <<>> /\ runs'[1] = runs[1] /\ DOMAIN runs' = 1 .. l - 1
    BY <2>1, <1>3, <1>6, EmptySeq, LenProperties
  <2>5. Floor' = Floor
    BY <2>4, <1>1 DEF Floor
  <2>6. Owned(stack', Floor', res', own')
    <3>1. \A i \in 1 .. Floor : stack'[i] = stack[i]
      BY <2>3, <1>3, <1>5
    <3> QED BY <3>1, <2>5, <1>1, <1>5, SamePrefix, ZenonT(30)
  <2>7. ASSUME NEW i \in Floor' + 1 .. Len(stack') PROVE i \in RunSlots' /\ stack'[i] # Own
    <3>1. i \in Floor + 1 .. m /\ i \in 1 .. m - 2 /\ i < m - 1
      BY <2>3, <2>5, <1>3, <1>5
    <3>2. i \in RunSlots /\ stack[i] # Own
      BY <3>1, <1>5 DEF RunsSound
    <3>3. PICK j \in 1 .. l :
            i = runs[j].func \/ ((runs[j].how = "protected" \/ j > 1) /\ i = runs[j].func - 1)
      BY <3>2, RunSlotFacts
    <3>4. j # l
      <4> SUFFICES ASSUME j = l PROVE FALSE
        OBVIOUS
      <4>1. i = m \/ i = m - 1
        <5>1. runs[j].func = m
          BY <1>3
        <5> QED BY <5>1, <3>3
      <4>2. i < m - 1 /\ m \in Nat /\ i \in Int
        BY <3>1, <1>3
      <4> HIDE DEF m
      <4> QED BY <4>1, <4>2
    <3>5. j \in 1 .. Len(runs') /\ runs'[j] = runs[j]
      <4>1. j \in 1 .. l - 1
        <5>1. l \in Nat /\ j \in 1 .. l
          BY <3>3, <1>3
        <5> HIDE DEF l
        <5> QED BY <5>1, <3>4
      <4>2. Len(runs') = l - 1
        BY <1>6
      <4> QED BY <4>1, <4>2, <1>6
    <3>6. i \in RunSlots'
      BY <3>3, <3>5 DEF RunSlots
    <3> QED BY <3>1, <3>2, <3>6, <2>3
  <2>8. ASSUME NEW i \in DOMAIN runs', runs'[i].how # "require"
        PROVE  /\ res'[runs'[i].into] = Gone
               /\ \A o \in Objects : Holds(res', o) => res'[o].call # runs'[i].call
               /\ "env_below" \notin Uses => stack'[runs'[i].func][3] = runs'[i].asked
    <3>1. i \in 1 .. l - 1 /\ runs'[i] = runs[i] /\ i \in DOMAIN runs /\ l \in DOMAIN runs /\ i < l
      BY <2>4, <1>3, <1>6, SMTT(40)
    <3>2. runs[i].func \in 1 .. m - 2
      <4>1. runs[i].func + 2 <= runs[l].func /\ runs[i].func \in 1 .. m
        BY <3>1, <1>5 DEF Framed, FramesSound
      <4> QED BY <4>1, <1>3
    <3>3. stack'[runs'[i].func] = stack[runs[i].func]
      BY <3>1, <3>2, <2>3
    <3> QED BY <3>1, <3>3, <2>8, <1>1, <1>5 DEF RunsSound
  <2>9. RunsSound'
    BY <2>7, <2>8 DEF RunsSound
  <2> QED BY <2>6, <2>9, <1>2 DEF Partitioned
<1> QED BY <1>7, <1>8

-----------------------------------------------------------------------------
(* The theorems.                                                           *)

LEMMA InitPartitioned == Init => Partitioned
<1> SUFFICES ASSUME Init PROVE Partitioned
  OBVIOUS
<1>1. /\ stack = <<>> /\ runs = <<>> /\ own = 0 /\ res = [o \in Objects |-> Gone]
      /\ Len(stack) = 0 /\ DOMAIN runs = {}
  BY EmptySeq DEF Init
<1>2. Floor = 0
  BY <1>1 DEF Floor
<1>3. \A o \in Objects : ~Holds(res, o)
  BY <1>1 DEF Holds
<1>4. Owned(stack, Floor, res, own)
  BY <1>1, <1>2, <1>3, NothingOwned
<1>5. RunsSound
  BY <1>1, <1>2 DEF RunsSound
<1> QED BY <1>4, <1>5, InitFramed DEF Partitioned

LEMMA NextPartitioned ==
    ASSUME Uses \cap StackUses = {}, Partitioned, [Next]_vars
    PROVE  Partitioned'
<1>0. Framed'
  BY NextFramed DEF Partitioned
<1>1. CASE PushOwn \/ PopOwn
  BY <1>1, OwnPartitioned
<1>2. CASE Fail
  BY <1>2, FailPartitioned
<1>3. CASE \E o \in Objects : Destroy(o) \/ ThrowLate(o)
  BY <1>3, DestroyPartitioned, ThrowLatePartitioned
<1>4. CASE \E o, p \in Objects : Move(p, o) \/ Copy(p, o)
  BY <1>4, MovePartitioned
<1>5. CASE \E o \in Objects, pushed \in BOOLEAN, e \in Envs : SetEnvironment(o, pushed, e)
  BY <1>5, SetEnvironmentPartitioned
<1>6. CASE \E c \in Fresh, o \in Objects :
             \/ \E ok \in BOOLEAN : load(o, c, ok)
             \/ \E e \in Envs, h \in {"pass", "throw"} : safe_script(o, c, h, e)
             \/ \E e \in Envs : unsafe_script(o, c, e)
             \/ \E h \in {"pass", "throw"} : LoadFails(o, c, h)
             \/ \E p \in Objects : CallLoaded(o, p, c)
  BY <1>6, LoadPartitioned, SafeScriptPartitioned, UnsafeScriptPartitioned,
     LoadFailsPartitioned, CallLoadedPartitioned
<1>7. CASE \E k \in 0 .. 2 : Finish(k)
  BY <1>7, FinishPartitioned
<1>8. CASE \/ \E p \in Packages : open_libraries(p)
           \/ \E p \in Packages, create \in BOOLEAN :
                 require_loaded(p, create) \/ require(p, create)
  <2>1. UNCHANGED <<stack, runs, res, own>>
    BY <1>8 DEF open_libraries, require, requiref, require_loaded
  <2> QED BY <2>1, <1>0, TablesPartitioned
<1>9. CASE \E p \in Packages, create \in BOOLEAN : require_script(p, create)
  BY <1>9, RequireScriptPartitioned
<1>10. CASE \E k \in 0 .. 2, p \in Packages : \E first \in Registered(p) : EndRequire(k, first)
  BY <1>10, EndRequirePartitioned
<1>11. CASE UNCHANGED vars
  <2>1. UNCHANGED <<stack, runs, res, own>>
    BY <1>11 DEF vars
  <2> QED BY <2>1, <1>0, TablesPartitioned
<1> QED BY <1>1, <1>2, <1>3, <1>4, <1>5, <1>6, <1>7, <1>8, <1>9, <1>10, <1>11 DEF Next

(***************************************************************************)
(* Partitioned is an invariant of every program that makes none of the     *)
(* uses that lose or take values: results and the program's values share   *)
(* the stack up to Floor, the running scripts have what is above.          *)
(***************************************************************************)
THEOREM PartitionHolds == ASSUME Uses \cap StackUses = {} PROVE Spec => []Partitioned
<1>1. Init => Partitioned
  BY InitPartitioned
<1>2. Partitioned /\ [Next]_vars => Partitioned'
  BY NextPartitioned
<1> QED BY <1>1, <1>2, PTL DEF Spec

LEMMA PartitionedStack == Partitioned => StackPartitioned
<1> SUFFICES ASSUME Partitioned PROVE StackPartitioned
  OBVIOUS
<1> DEFINE n == Floor
           m == Len(stack)
<1>1. /\ Framed /\ TypeOK /\ Owned(stack, n, res, own) /\ RunsSound
      /\ res \in [Objects -> Result \cup {Gone}] /\ m \in Nat /\ n \in Nat /\ n <= m
      /\ \A i \in RunSlots : i \in n + 1 .. m
  <2>1. Framed /\ Owned(stack, n, res, own) /\ RunsSound
    BY DEF Partitioned
  <2> QED BY <2>1, StateTypes, FloorFacts DEF Framed
<1>2. \A i \in n + 1 .. m : i \in RunSlots /\ stack[i] # Own
  BY <1>1 DEF RunsSound
<1> HIDE DEF n
<1>3. ASSUME NEW o \in Objects, Owns(o)
      PROVE  /\ Holds(res, o) /\ Span(o) = Slots(res[o])
             /\ \A i \in Span(o) : i \in 1 .. n /\ i \in 1 .. m /\ i \notin RunSlots /\ stack[i] # Own
             /\ \A i \in Span(o) :
                   stack[i] \in {Val(res[o].call)} \cup {Chunk(res[o].call, e) : e \in Envs}
  <2>1. Holds(res, o) /\ Span(o) = Slots(res[o])
    BY <1>3 DEF Owns, Holds, Span, Slots
  <2>2. ASSUME NEW i \in Slots(res[o])
        PROVE  /\ i \in 1 .. n /\ stack[i] # Own
               /\ stack[i] \in {Val(res[o].call)} \cup {Chunk(res[o].call, e) : e \in Envs}
    <3>1. i \in 1 .. n /\ stack[i] # Own
      BY <2>1, <1>1, HeldFacts
    <3>2. Content(res[o], stack[i])
      BY <2>1, <1>1 DEF Owned, Placed
    <3> QED BY <3>1, <3>2, ContentFacts
  <2>3. \A i \in 1 .. n : i \in 1 .. m /\ i \notin n + 1 .. m
    BY <1>1
  <2> QED BY <2>1, <2>2, <2>3, <1>1
<1>4. ASSUME NEW o \in Objects, NEW p \in Objects, Owns(o), Owns(p), o # p
      PROVE  Span(o) \cap Span(p) = {}
  <2>1. Apart(res[o], res[p])
    BY <1>1, <1>3, <1>4 DEF Owned
  <2> QED BY <2>1, <1>3, <1>4 DEF Apart
<1>5. {i \in 1 .. m : stack[i] # Own} = OfObjects \cup RunSlots
  <2>1. ASSUME NEW i \in 1 .. m, stack[i] # Own PROVE i \in OfObjects \cup RunSlots
    <3>1. i \in 1 .. n \/ i \in n + 1 .. m
      BY <1>1
    <3>2. CASE i \in 1 .. n
      <4>1. PICK o \in Objects : Holds(res, o) /\ i \in Slots(res[o])
        BY <2>1, <3>2, <1>1 DEF Owned
      <4>2. Owns(o) /\ i \in Span(o)
        BY <4>1 DEF Owns, Holds, Span, Slots
      <4> QED BY <4>2 DEF OfObjects
    <3> QED BY <3>1, <3>2, <1>2
  <2>2. ASSUME NEW i \in OfObjects PROVE i \in 1 .. m /\ stack[i] # Own
    <3>1. PICK o \in Objects : Owns(o) /\ i \in Span(o)
      BY DEF OfObjects
    <3> QED BY <3>1, <1>3
  <2>3. ASSUME NEW i \in RunSlots PROVE i \in 1 .. m /\ stack[i] # Own
    <3>1. i \in n + 1 .. m
      BY <1>1
    <3>2. i \in 1 .. m
      BY <3>1, <1>1
    <3> QED BY <3>1, <3>2, <1>2
  <2> QED BY <2>1, <2>2, <2>3
<1>6. Cardinality({i \in 1 .. m : stack[i] = Own}) = own
  <2>1. \A i \in 1 .. m : stack[i] = Own => i \in 1 .. n
    <3>1. \A i \in 1 .. m : i \in 1 .. n \/ i \in n + 1 .. m
      BY <1>1
    <3> QED BY <3>1, <1>2
  <2>2. \A i \in 1 .. n : i \in 1 .. m
    BY <1>1
  <2>3. {i \in 1 .. m : stack[i] = Own} = OwnSlots(stack, n)
    BY <2>1, <2>2 DEF OwnSlots
  <2> QED BY <2>3, <1>1 DEF Owned
<1>7. \A o \in Objects : Owns(o) =>
         /\ Span(o) \subseteq (1 .. m) \ RunSlots
         /\ \A i \in Span(o) :
               stack[i] \in {Val(res[o].call)} \cup {Chunk(res[o].call, e) : e \in Envs}
         /\ \A p \in Objects \ {o} : Owns(p) => Span(o) \cap Span(p) = {}
  BY <1>3, <1>4
<1> QED BY <1>1, <1>5, <1>6, <1>7 DEF StackPartitioned

(***************************************************************************)
(* However many scripts the program loads and runs, and however they end,  *)
(* every slot of the stack belongs to exactly one owner.  It needs that    *)
(* the program destroys results in order, assigns over none that still     *)
(* owns values, copies none that does, throws for a result only when it is *)
(* on the top, does not panic while results are alive, and requires only   *)
(* scripts that return one value; each of the others breaks it.            *)
(***************************************************************************)
THEOREM EverySlotHasItsOwner ==
    ASSUME Uses \cap StackUses = {}
    PROVE  Spec => []StackPartitioned
<1>1. Spec => []Partitioned
  BY PartitionHolds
<1> QED BY <1>1, PartitionedStack, PTL

(***************************************************************************)
(* And then every chunk sees the environment that was set on it, if        *)
(* environments are set on references or on what is on the top.            *)
(***************************************************************************)
THEOREM EnvironmentsStay ==
    ASSUME Uses \cap (StackUses \cup {"env_below"}) = {}
    PROVE  Spec => []ChunksSeeTheirEnvironment
<1>1. Uses \cap StackUses = {} /\ "env_below" \notin Uses
  OBVIOUS
<1>2. Spec => []Partitioned
  BY <1>1, PartitionHolds
<1>3. Partitioned => ChunksSeeTheirEnvironment
  <2> SUFFICES ASSUME Partitioned PROVE ChunksSeeTheirEnvironment
    OBVIOUS
  <2>1. \A o \in Objects : Owns(o) /\ res[o].kind = "load" /\ res[o].ok =>
           stack[res[o].index] = Chunk(res[o].call, res[o].asked)
    BY <1>1 DEF Partitioned, Owned, Sees, Owns, Holds
  <2>2. \A i \in 1 .. Len(runs) : runs[i].how # "require" =>
           stack[runs[i].func][3] = runs[i].asked
    <3>1. DOMAIN runs = 1 .. Len(runs)
      BY StateTypes DEF Partitioned
    <3> QED BY <3>1, <1>1 DEF Partitioned, RunsSound
  <2> QED BY <2>1, <2>2 DEF ChunksSeeTheirEnvironment
<1> QED BY <1>2, <1>3, PTL
===============================================================================

------------------------- MODULE UserdataProof -------------------------
(***************************************************************************)
(* What the modules of userdata promise: ObjectLifecycle for any number of *)
(* objects and registrations, each of its three promises in the absence of *)
(* one of the Uses, and UserdataLayout for every alignment, size and address. *)
(***************************************************************************)
EXTENDS ObjectLifecycle, UserdataLayout, SequenceTheorems, TLAPS

-----------------------------------------------------------------------------
(* The inductive invariant.                                                *)

\* What is marked for finalisation is there, is marked once, and is held in a
\* way that has a __gc; lua_close leaves nothing marked.
Marked ==
    /\ \A i \in DOMAIN finalise :
          /\ finalise[i] \in Objects =>
                /\ finalise[i] \in table /\ held[finalise[i]] \in Owning
                /\ content[finalise[i]] \in {"bytes", "failed", "object"}
          /\ finalise[i] \in Storages => storage[finalise[i]] \in {"live", "cleared"}
    /\ \A i, j \in DOMAIN finalise : finalise[i] = finalise[j] => i = j
    /\ phase = "closed" => finalise = <<>>

\* A userdata under construction is kept alive by the call that makes it, and
\* only what is owned becomes an object.
HalfMade ==
    \A o \in Objects :
        /\ content[o] = "bytes" => o \in reachable /\ phase = "open"
        /\ content[o] = "none" => o \notin table
        /\ content[o] = "object" => held[o] \in Owning

\* A registration is kept alive by the global that names it, and marked.
StoragesSound ==
    \A s \in Storages : storage[s] = "live" =>
        /\ phase = "open" => s \in reachable
        /\ \E i \in DOMAIN finalise : finalise[i] = s

\* Only values have a custom __gc, and a pointer none.
TablesSound == gc["unique"] \in {None, Default} /\ gc["reference"] = None

\* Without failing constructors there is an object in what is finalised.
ConstructedOnly ==
    "fail" \notin Uses => \A o \in Objects : content[o] \notin {"failed", "ruined"}

\* The registration that owns the custom __gc is older than all objects that
\* are still to be finalised; or it has gone, and so have they.
Before(s) ==
    \E j \in DOMAIN finalise :
        /\ finalise[j] = s
        /\ \A i \in DOMAIN finalise : finalise[i] \in Objects => j <= i

BoundBefore(s) == storage[s] = "live" /\ Before(s)

BindingsSound ==
    "bind_late" \notin Uses =>
        /\ ~stale
        /\ gc["value"] \in Storages =>
              \/ BoundBefore(gc["value"])
              \/ phase # "open" /\ \A i \in DOMAIN finalise : finalise[i] \notin Objects

\* An object that Lua owns is marked, and its metatable has a __gc.
OwnedSound ==
    "unregister" \notin Uses =>
        \A o \in Objects :
            /\ content[o] # "lost"
            /\ held[o] \in Owning /\ content[o] \in {"bytes", "failed", "object"} =>
                  /\ held[o] \in exists => gc[held[o]] # None
                  /\ content[o] = "object" => o \in table
                  /\ o \in table => held[o] \in exists /\ \E i \in DOMAIN finalise : finalise[i] = o

IInv ==
    /\ TypeOK /\ Marked /\ HalfMade /\ StoragesSound /\ TablesSound
    /\ ConstructedOnly /\ BindingsSound /\ OwnedSound

-----------------------------------------------------------------------------
(* Sequences.                                                              *)

\* RemoveAt takes one element out and keeps the others in their order.
LEMMA RemoveAtFacts ==
    ASSUME NEW S, NEW s \in Seq(S), NEW i \in 1 .. Len(s)
    PROVE  /\ RemoveAt(s, i) \in Seq(S)
           /\ Len(RemoveAt(s, i)) = Len(s) - 1
           /\ \A j \in 1 .. i - 1 : RemoveAt(s, i)[j] = s[j]
           /\ \A j \in i .. Len(s) - 1 : RemoveAt(s, i)[j] = s[j + 1]
<1> DEFINE n == Len(s)
           a == SubSeq(s, 1, i - 1)
           b == SubSeq(s, i + 1, n)
<1>1. n \in Nat /\ i \in 1 .. n /\ \A j \in 1 .. n : s[j] \in S
  BY LenProperties
<1>2. RemoveAt(s, i) = a \o b
  BY DEF RemoveAt
<1> HIDE DEF n
<1>3. /\ a \in Seq(S)
      /\ Len(a) = i - 1
      /\ \A j \in 1 .. i - 1 : a[j] = s[j]
  <2>1. i - 1 \in Int /\ 1 \in Int /\ \A j \in 1 .. i - 1 : s[j] \in S
    BY <1>1
  <2>2. /\ a \in Seq(S)
        /\ Len(a) = IF 1 <= i - 1 THEN (i - 1) - 1 + 1 ELSE 0
        /\ \A j \in 1 .. (i - 1) - 1 + 1 : a[j] = s[1 + j - 1]
    BY <2>1, SubSeqProperties
  <2> HIDE DEF a
  <2>3. Len(a) = i - 1
    BY <1>1, <2>2
  <2>4. ASSUME NEW j \in 1 .. i - 1 PROVE a[j] = s[j]
    <3>1. j \in 1 .. (i - 1) - 1 + 1 /\ 1 + j - 1 = j
      BY <1>1
    <3> QED BY <3>1, <2>2
  <2> QED BY <2>2, <2>3, <2>4
<1>4. /\ b \in Seq(S)
      /\ Len(b) = n - i
      /\ \A j \in 1 .. n - i : b[j] = s[i + j]
  <2>1. i + 1 \in Int /\ n \in Int /\ \A j \in i + 1 .. n : s[j] \in S
    BY <1>1
  <2>2. /\ b \in Seq(S)
        /\ Len(b) = IF i + 1 <= n THEN n - (i + 1) + 1 ELSE 0
        /\ \A j \in 1 .. n - (i + 1) + 1 : b[j] = s[i + 1 + j - 1]
    BY <2>1, SubSeqProperties
  <2> HIDE DEF b
  <2>3. Len(b) = n - i
    BY <1>1, <2>2
  <2>4. ASSUME NEW j \in 1 .. n - i PROVE b[j] = s[i + j]
    <3>1. j \in 1 .. n - (i + 1) + 1 /\ i + 1 + j - 1 = i + j
      BY <1>1
    <3> QED BY <3>1, <2>2
  <2> QED BY <2>2, <2>3, <2>4
<1> HIDE DEF a, b
<1>5. /\ a \o b \in Seq(S)
      /\ Len(a \o b) = Len(a) + Len(b)
      /\ \A j \in 1 .. Len(a) + Len(b) : (a \o b)[j] =
             IF j <= Len(a) THEN a[j] ELSE b[j - Len(a)]
  BY <1>3, <1>4, ConcatProperties
<1>6. Len(a) + Len(b) = n - 1
  BY <1>1, <1>3, <1>4
<1>7. ASSUME NEW j \in 1 .. i - 1 PROVE (a \o b)[j] = s[j]
  <2>1. j \in 1 .. Len(a) + Len(b) /\ j <= Len(a)
    BY <1>1, <1>3, <1>6
  <2> QED BY <2>1, <1>3, <1>5
<1>8. ASSUME NEW j \in i .. n - 1 PROVE (a \o b)[j] = s[j + 1]
  <2>1. j \in 1 .. Len(a) + Len(b) /\ ~(j <= Len(a))
    BY <1>1, <1>3, <1>6
  <2>2. j - Len(a) \in 1 .. n - i /\ i + (j - Len(a)) = j + 1
    BY <1>1, <1>3
  <2>3. (a \o b)[j] = b[j - Len(a)]
    BY <2>1, <1>5
  <2>4. b[j - Len(a)] = s[i + (j - Len(a))]
    BY <2>2, <1>4
  <2> QED BY <2>2, <2>3, <2>4
<1> QED BY <1>2, <1>5, <1>6, <1>7, <1>8 DEF n

\* The same, said by where each of the elements was.
LEMMA RemoveAtWas ==
    ASSUME NEW S, NEW s \in Seq(S), NEW i \in DOMAIN s
    PROVE  /\ RemoveAt(s, i) \in Seq(S)
           /\ \A j \in DOMAIN RemoveAt(s, i) :
                  \E k \in DOMAIN s : /\ k # i /\ RemoveAt(s, i)[j] = s[k]
                                      /\ j \in Nat /\ k = (IF j < i THEN j ELSE j + 1)
           /\ \A k \in DOMAIN s : k # i =>
                  \E j \in DOMAIN RemoveAt(s, i) :
                      /\ RemoveAt(s, i)[j] = s[k]
                      /\ j \in Nat /\ k = (IF j < i THEN j ELSE j + 1)
<1> DEFINE t == RemoveAt(s, i)
           n == Len(s)
<1>1. n \in Nat /\ DOMAIN s = 1 .. n
  BY LenProperties
<1>2. i \in 1 .. n
  BY <1>1
<1>3. /\ t \in Seq(S) /\ Len(t) = n - 1
      /\ \A j \in 1 .. i - 1 : t[j] = s[j]
      /\ \A j \in i .. n - 1 : t[j] = s[j + 1]
  BY <1>2, RemoveAtFacts
<1>4. DOMAIN t = 1 .. n - 1
  <2> HIDE DEF t
  <2> QED BY <1>3, LenProperties
<1> HIDE DEF t, n
<1>5. ASSUME NEW j \in 1 .. n - 1
      PROVE  \E k \in 1 .. n : /\ k # i /\ t[j] = s[k]
                               /\ j \in Nat /\ k = (IF j < i THEN j ELSE j + 1)
  <2>1. CASE j < i
    BY <1>1, <1>2, <1>3, <2>1
  <2>2. CASE ~(j < i)
    <3>1. j + 1 \in 1 .. n /\ j \in i .. n - 1 /\ j + 1 # i
      BY <1>1, <1>2, <2>2
    <3> QED BY <1>3, <2>2, <3>1
  <2> QED BY <2>1, <2>2
<1>6. ASSUME NEW k \in 1 .. n, k # i
      PROVE  \E j \in 1 .. n - 1 : /\ t[j] = s[k]
                                   /\ j \in Nat /\ k = (IF j < i THEN j ELSE j + 1)
  <2>1. CASE k < i
    <3>1. k \in 1 .. n - 1 /\ k \in 1 .. i - 1
      BY <1>1, <1>2, <2>1
    <3> QED BY <1>3, <2>1, <3>1
  <2>2. CASE ~(k < i)
    <3>1. k - 1 \in 1 .. n - 1 /\ k - 1 \in i .. n - 1 /\ (k - 1) + 1 = k
          /\ k - 1 \in Nat /\ ~(k - 1 < i)
      BY <1>1, <1>2, <1>6, <2>2
    <3>2. t[k - 1] = s[k]
      BY <1>3, <3>1
    <3> QED BY <3>1, <3>2
  <2> QED BY <2>1, <2>2
<1> QED BY <1>1, <1>3, <1>4, <1>5, <1>6 DEF t

-----------------------------------------------------------------------------
(* Every action keeps the invariant.                                       *)

\* What is put at the end is there, and all else is where it was.
LEMMA AppendFacts ==
    ASSUME NEW S, NEW s \in Seq(S), NEW e \in S
    PROVE  /\ Append(s, e) \in Seq(S)
           /\ \E n \in Nat : /\ DOMAIN s = 1 .. n /\ DOMAIN Append(s, e) = 1 .. n + 1
                            /\ Append(s, e)[n + 1] = e
                            /\ \A i \in 1 .. n : Append(s, e)[i] = s[i]
<1>1. /\ Append(s, e) \in Seq(S) /\ Len(Append(s, e)) = Len(s) + 1
      /\ Append(s, e)[Len(s) + 1] = e
      /\ \A i \in 1 .. Len(s) : Append(s, e)[i] = s[i]
  BY AppendProperties
<1>2. Len(s) \in Nat /\ DOMAIN s = 1 .. Len(s)
  BY LenProperties
<1>3. DOMAIN Append(s, e) = 1 .. Len(Append(s, e))
  BY <1>1, LenProperties
<1> QED BY <1>1, <1>2, <1>3

LEMMA InitSound == Init => IInv
<1> SUFFICES ASSUME Init PROVE IInv
  OBVIOUS
<1> USE DEF Init
<1>1. TypeOK
  <2>1. held \in [Objects -> Holdings] /\ content \in [Objects -> Contents]
    BY DEF Holdings, Owning, Contents
  <2>2. gc \in [Holdings -> {None, Default} \cup Storages]
    OBVIOUS
  <2>3. finalise \in Seq(Objects \cup Storages)
    BY EmptySeq
  <2>4. storage \in [Storages -> {"unused", "live", "cleared", "gone"}]
    OBVIOUS
  <2> QED BY <2>1, <2>2, <2>3, <2>4 DEF TypeOK
<1>2. Marked /\ HalfMade /\ StoragesSound
  BY DEF Marked, HalfMade, StoragesSound
<1>3. TablesSound
  BY DEF TablesSound, Holdings, Owning
<1>4. ConstructedOnly
  BY DEF ConstructedOnly
<1>5. BindingsSound
  BY LifecycleAssumption DEF BindingsSound, Holdings, Owning
<1>6. OwnedSound
  BY DEF OwnedSound
<1> QED BY <1>1, <1>2, <1>3, <1>4, <1>5, <1>6 DEF IInv

LEMMA AllocateStep ==
    ASSUME IInv, NEW o \in Objects, NEW h \in Holdings, Allocate(o, h)
    PROVE  IInv'
<1> USE LifecycleAssumption DEF IInv, Allocate, tables
<1>1. TypeOK'
  BY DEF TypeOK, Holdings, Owning, Contents
<1>2. Marked'
  BY DEF TypeOK, Marked, Holdings, Owning
<1>3. HalfMade'
  BY DEF TypeOK, HalfMade, Holdings, Owning
<1>4. StoragesSound'
  BY DEF TypeOK, StoragesSound
<1>5. TablesSound'
  BY DEF TypeOK, TablesSound, Holdings, Owning
<1>6. ConstructedOnly'
  BY DEF TypeOK, ConstructedOnly
<1>7. BindingsSound'
  BY DEF TypeOK, BindingsSound, BoundBefore, Before, Holdings, Owning
<1>8. OwnedSound'
  <2> SUFFICES ASSUME "unregister" \notin Uses, NEW p \in Objects
               PROVE  /\ content'[p] # "lost"
                      /\ held'[p] \in Owning /\ content'[p] \in {"bytes", "failed", "object"} =>
                            /\ held'[p] \in exists' => gc'[held'[p]] # None
                            /\ content'[p] = "object" => p \in table'
                            /\ p \in table' =>
                                  /\ held'[p] \in exists'
                                  /\ \E i \in DOMAIN finalise' : finalise'[i] = p
    BY DEF OwnedSound
  <2>1. CASE p = o
    <3>1. content'[o] = "bytes" /\ held'[o] = h
      BY DEF TypeOK
    <3>2. o \notin table /\ (h \in Owning /\ h \in exists => gc[h] # None)
      BY DEF HalfMade, Finalisable
    <3> QED BY <2>1, <3>1, <3>2
  <2>2. CASE p # o
    <3>1. content'[p] = content[p] /\ held'[p] = held[p]
      BY <2>2 DEF TypeOK
    <3> QED BY <3>1 DEF OwnedSound
  <2> QED BY <2>1, <2>2
<1> QED BY <1>1, <1>2, <1>3, <1>4, <1>5, <1>6, <1>7, <1>8

LEMMA SetMetatableStep ==
    ASSUME IInv, NEW o \in Objects, SetMetatable(o)
    PROVE  IInv'
<1> USE LifecycleAssumption DEF IInv, SetMetatable, tables
<1> DEFINE h == held[o]
           found == IF h \in exists THEN gc[h] ELSE set_undefined_methods_on(h)
<1>a. /\ phase = "open" /\ content[o] = "bytes" /\ o \notin table
      /\ table' = table \cup {o} /\ exists' = exists \cup {h}
      /\ gc' = [gc EXCEPT ![h] = found]
      /\ finalise' = IF found = None THEN finalise ELSE Append(finalise, o)
      /\ UNCHANGED <<held, content, reachable, storage, stale, phase>>
  OBVIOUS
<1>b. /\ h \in Holdings
      /\ found \in {None, Default} \cup Storages
      /\ h = "reference" => found = None
      /\ h = "unique" => found \in {None, Default}
      /\ h \in exists => found = gc[h]
      /\ h \notin exists => found \notin Storages
      /\ h \in Owning /\ h \notin exists => found # None
  <2>1. h \in Holdings /\ (h \in exists => gc[h] \in {None, Default} \cup Storages)
    BY DEF TypeOK
  <2>2. h = "reference" \/ h = "unique" \/ h = "value"
    BY <2>1 DEF Holdings, Owning
  <2>3. /\ set_undefined_methods_on(h) = IF h \in Owning THEN Default ELSE None
        /\ "reference" \notin Owning
    BY DEF set_undefined_methods_on, Owning
  <2> QED BY <2>1, <2>2, <2>3 DEF TablesSound, None, Default
<1> HIDE DEF h, found, SetMetatable
<1>c. /\ gc' \in [Holdings -> {None, Default} \cup Storages]
      /\ \A g \in Holdings : gc'[g] = IF g = h THEN found ELSE gc[g]
  BY <1>a, <1>b DEF TypeOK
<1>d. finalise' \in Seq(Objects \cup Storages)
  BY <1>a, AppendFacts DEF TypeOK
<1>e. PICK n \in Nat :
          /\ DOMAIN finalise = 1 .. n
          /\ \A i \in 1 .. n : finalise'[i] = finalise[i]
          /\ found = None => DOMAIN finalise' = 1 .. n
          /\ found # None => DOMAIN finalise' = 1 .. n + 1 /\ finalise'[n + 1] = o
  <2>1. finalise \in Seq(Objects \cup Storages) /\ o \in Objects \cup Storages
    BY DEF TypeOK
  <2>2. PICK n \in Nat : DOMAIN finalise = 1 .. n
    BY <2>1, LenProperties
  <2>3. CASE found = None
    BY <1>a, <2>2, <2>3
  <2>4. CASE found # None
    <3>1. finalise' = Append(finalise, o)
      BY <1>a, <2>4
    <3> QED BY <2>1, <2>4, <3>1, AppendFacts
  <2> QED BY <2>3, <2>4
<1>1. TypeOK'
  BY <1>a, <1>b, <1>c, <1>d DEF TypeOK
<1>2. Marked'
  <2>1. \A i \in 1 .. n : finalise[i] # o
    BY <1>a, <1>e DEF Marked
  <2>2. found # None => h \in Owning
    BY <1>b DEF Holdings
  <2>3. CASE found = None
    BY <1>a, <1>e, <2>3 DEF Marked
  <2>4. CASE found # None
    <3>1. \A i \in DOMAIN finalise' : i = n + 1 \/ i \in 1 .. n
      BY <1>e, <2>4
    <3>2. o \notin Storages
      OBVIOUS
    <3> QED BY <1>a, <1>e, <2>1, <2>2, <2>4, <3>1, <3>2 DEF Marked, h
  <2> QED BY <2>3, <2>4
<1>3. HalfMade'
  BY <1>a DEF HalfMade
<1>4. StoragesSound'
  <2>1. DOMAIN finalise \subseteq DOMAIN finalise'
    BY <1>e
  <2> QED BY <1>a, <1>e, <2>1 DEF StoragesSound
<1>5. TablesSound'
  <2>1. "unique" \in Holdings /\ "reference" \in Holdings
    BY DEF Holdings, Owning
  <2> QED BY <1>b, <1>c, <2>1 DEF TablesSound
<1>6. ConstructedOnly'
  BY <1>a DEF ConstructedOnly
<1>7. BindingsSound'
  <2> SUFFICES ASSUME "bind_late" \notin Uses
               PROVE  ~stale' /\ (gc'["value"] \in Storages => BoundBefore(gc["value"])' /\ gc'["value"] = gc["value"])
    BY DEF BindingsSound
  <2>1. "value" \in Holdings
    BY DEF Holdings, Owning
  <2>2. gc'["value"] \in Storages => gc'["value"] = gc["value"]
    BY <1>b, <1>c, <2>1
  <2>3. ASSUME gc'["value"] \in Storages PROVE BoundBefore(gc["value"])'
    <3>1. BoundBefore(gc["value"])
      BY <1>a, <2>2, <2>3 DEF BindingsSound
    <3>2. PICK j \in 1 .. n : /\ finalise[j] = gc["value"]
                              /\ \A i \in 1 .. n : finalise[i] \in Objects => j <= i
      BY <3>1, <1>e DEF BoundBefore, Before
    <3>3. j \in DOMAIN finalise' /\ \A i \in DOMAIN finalise' : i \in 1 .. n \/ j <= i
      <4>1. CASE found = None
        BY <1>e, <4>1
      <4>2. CASE found # None
        BY <1>e, <4>2
      <4> QED BY <4>1, <4>2
    <3> QED BY <1>a, <1>e, <2>2, <2>3, <3>1, <3>2, <3>3 DEF BoundBefore, Before
  <2> QED BY <1>a, <2>2, <2>3 DEF BindingsSound
<1>8. OwnedSound'
  <2> SUFFICES ASSUME "unregister" \notin Uses, NEW p \in Objects
               PROVE  /\ content'[p] # "lost"
                      /\ held'[p] \in Owning /\ content'[p] \in {"bytes", "failed", "object"} =>
                            /\ held'[p] \in exists' => gc'[held'[p]] # None
                            /\ content'[p] = "object" => p \in table'
                            /\ p \in table' =>
                                  /\ held'[p] \in exists'
                                  /\ \E i \in DOMAIN finalise' : finalise'[i] = p
    BY DEF OwnedSound
  <2>1. content'[p] # "lost"
    BY <1>a DEF OwnedSound
  <2>2. ASSUME held[p] \in Owning, content[p] \in {"bytes", "failed", "object"}
        PROVE  /\ held[p] \in exists' => gc'[held[p]] # None
               /\ content[p] = "object" => p \in table'
               /\ p \in table' =>
                     /\ held[p] \in exists'
                     /\ \E i \in DOMAIN finalise' : finalise'[i] = p
    <3>1. held[p] \in Holdings
      BY DEF TypeOK
    <3>2. h \in Owning => found # None
      <4>1. h \in exists /\ h \in Owning => gc[h] # None
        BY <1>a DEF OwnedSound, h
      <4> QED BY <4>1, <1>b
    <3>3. held[p] \in exists' => gc'[held[p]] # None
      BY <1>a, <1>c, <2>2, <3>1, <3>2 DEF OwnedSound
    <3>4. content[p] = "object" => p \in table'
      BY <1>a, <2>2 DEF OwnedSound
    <3>5. p = o => held[p] \in exists' /\ \E i \in DOMAIN finalise' : finalise'[i] = p
      <4>1. n + 1 \in 1 .. n + 1
        OBVIOUS
      <4> QED BY <1>a, <1>e, <2>2, <3>2, <4>1 DEF h
    <3>6. p # o /\ p \in table' =>
              held[p] \in exists' /\ \E i \in DOMAIN finalise' : finalise'[i] = p
      <4>1. DOMAIN finalise \subseteq DOMAIN finalise'
        BY <1>e
      <4> QED BY <1>a, <1>e, <2>2, <4>1 DEF OwnedSound
    <3> QED BY <3>3, <3>4, <3>5, <3>6
  <2> QED BY <1>a, <2>1, <2>2
<1> QED BY <1>1, <1>2, <1>3, <1>4, <1>5, <1>6, <1>7, <1>8

LEMMA ConstructStep ==
    ASSUME IInv, NEW o \in Objects, Construct(o)
    PROVE  IInv'
<1> USE LifecycleAssumption DEF IInv, Construct, tables
<1>1. TypeOK'
  BY DEF TypeOK, Holdings, Owning, Contents
<1>2. Marked'
  BY DEF TypeOK, Marked, Holdings, Owning
<1>3. HalfMade'
  BY DEF TypeOK, HalfMade, Holdings, Owning
<1>4. StoragesSound'
  BY DEF TypeOK, StoragesSound
<1>5. TablesSound'
  BY DEF TypeOK, TablesSound, Holdings, Owning
<1>6. ConstructedOnly'
  BY DEF TypeOK, ConstructedOnly
<1>7. BindingsSound'
  BY DEF TypeOK, BindingsSound, BoundBefore, Before, Holdings, Owning
<1>8. OwnedSound'
  BY DEF TypeOK, OwnedSound, HalfMade, Holdings, Owning
<1> QED BY <1>1, <1>2, <1>3, <1>4, <1>5, <1>6, <1>7, <1>8

LEMMA DropStep ==
    ASSUME IInv, NEW o \in Objects, Drop(o)
    PROVE  IInv'
<1> USE LifecycleAssumption DEF IInv, Drop, tables
<1>1. TypeOK'
  BY DEF TypeOK, Holdings, Owning, Contents
<1>2. Marked'
  BY DEF TypeOK, Marked, Holdings, Owning
<1>3. HalfMade'
  BY DEF TypeOK, HalfMade, Holdings, Owning
<1>4. StoragesSound'
  BY DEF TypeOK, StoragesSound
<1>5. TablesSound'
  BY DEF TypeOK, TablesSound, Holdings, Owning
<1>6. ConstructedOnly'
  BY DEF TypeOK, ConstructedOnly
<1>7. BindingsSound'
  BY DEF TypeOK, BindingsSound, BoundBefore, Before, Holdings, Owning
<1>8. OwnedSound'
  BY DEF TypeOK, OwnedSound, HalfMade, Holdings, Owning
<1> QED BY <1>1, <1>2, <1>3, <1>4, <1>5, <1>6, <1>7, <1>8

LEMMA FreeStep ==
    ASSUME IInv, NEW o \in Objects, Free(o)
    PROVE  IInv'
<1> USE LifecycleAssumption DEF IInv, Free, tables
<1>1. TypeOK'
  BY DEF TypeOK, Holdings, Owning, Contents
<1>2. Marked'
  BY DEF TypeOK, Marked, Holdings, Owning
<1>3. HalfMade'
  BY DEF TypeOK, HalfMade, Holdings, Owning
<1>4. StoragesSound'
  BY DEF TypeOK, StoragesSound
<1>5. TablesSound'
  BY DEF TypeOK, TablesSound, Holdings, Owning
<1>6. ConstructedOnly'
  BY DEF TypeOK, ConstructedOnly
<1>7. BindingsSound'
  BY DEF TypeOK, BindingsSound, BoundBefore, Before, Holdings, Owning
<1>8. OwnedSound'
  BY DEF TypeOK, OwnedSound, HalfMade, Holdings, Owning
<1> QED BY <1>1, <1>2, <1>3, <1>4, <1>5, <1>6, <1>7, <1>8

LEMMA ConstructFailsStep ==
    ASSUME IInv, NEW o \in Failing, ConstructFails(o)
    PROVE  IInv'
<1> USE LifecycleAssumption DEF IInv, ConstructFails, tables
<1>1. TypeOK'
  BY DEF TypeOK, Holdings, Owning, Contents
<1>2. Marked'
  BY DEF TypeOK, Marked, Holdings, Owning
<1>3. HalfMade'
  BY DEF TypeOK, HalfMade, Holdings, Owning
<1>4. StoragesSound'
  BY DEF TypeOK, StoragesSound
<1>5. TablesSound'
  BY DEF TypeOK, TablesSound, Holdings, Owning
<1>6. ConstructedOnly'
  BY DEF TypeOK, ConstructedOnly, Failing
<1>7. BindingsSound'
  BY DEF TypeOK, BindingsSound, BoundBefore, Before, Holdings, Owning
<1>8. OwnedSound'
  BY DEF TypeOK, OwnedSound, HalfMade, Holdings, Owning
<1> QED BY <1>1, <1>2, <1>3, <1>4, <1>5, <1>6, <1>7, <1>8

LEMMA BindDestructorStep ==
    ASSUME IInv, NEW s \in Storages, BindDestructor(s)
    PROVE  IInv'
<1> USE LifecycleAssumption DEF IInv, BindDestructor, tables
<1>1. TypeOK'
  BY DEF TypeOK, Holdings, Owning, Contents
<1>2. Marked'
  BY DEF TypeOK, Marked, Holdings, Owning
<1>3. HalfMade'
  BY DEF TypeOK, HalfMade, Holdings, Owning
<1>4. StoragesSound'
  BY DEF TypeOK, StoragesSound
<1>5. TablesSound'
  BY DEF TypeOK, TablesSound, Holdings, Owning
<1>6. ConstructedOnly'
  BY DEF TypeOK, ConstructedOnly
<1>7. BindingsSound'
  <2> SUFFICES ASSUME "bind_late" \notin Uses
               PROVE  ~stale' /\ gc'["value"] = s /\ BoundBefore(s)'
    BY DEF BindingsSound
  <2>1. gc'["value"] = s
    BY DEF TypeOK, Holdings, Owning
  <2>2. PICK j \in DOMAIN finalise : finalise[j] = s
    BY DEF StoragesSound
  <2>3. ASSUME NEW i \in DOMAIN finalise, finalise[i] \in Objects PROVE j <= i
    <3>1. PICK k \in 1 .. i : finalise[k] = s
      BY <2>3
    <3>2. k \in DOMAIN finalise /\ k <= i
      <4>1. PICK n \in Nat : DOMAIN finalise = 1 .. n
        BY LenProperties DEF TypeOK
      <4> QED BY <4>1
    <3>3. k = j
      BY <2>2, <3>1, <3>2 DEF Marked
    <3> QED BY <3>2, <3>3
  <2> QED BY <2>1, <2>2, <2>3 DEF BindingsSound, BoundBefore, Before
<1>8. OwnedSound'
  BY DEF TypeOK, OwnedSound, HalfMade, Holdings, Owning
<1> QED BY <1>1, <1>2, <1>3, <1>4, <1>5, <1>6, <1>7, <1>8

LEMMA UnregisterStep ==
    ASSUME IInv, NEW s \in Storages, Unregister(s)
    PROVE  IInv'
<1> USE LifecycleAssumption DEF IInv, Unregister, tables
<1>a. /\ phase = "open" /\ storage[s] = "live" /\ Unneeded
      /\ storage' = Cleared /\ gc' = [h \in Holdings |-> None]
      /\ reachable' = reachable \ {s}
      /\ UNCHANGED <<held, content, table, finalise, exists, stale, phase>>
  OBVIOUS
<1>b. \A x \in Storages : storage'[x] = IF storage[x] = "live" THEN "cleared" ELSE storage[x]
  BY <1>a DEF Cleared, Live
<1>c. storage' \in [Storages -> {"unused", "live", "cleared", "gone"}]
  BY <1>a DEF Cleared, Live, TypeOK
<1> HIDE DEF Unregister
<1>1. TypeOK'
  BY <1>a, <1>c DEF TypeOK, Holdings, Owning
<1>2. Marked'
  BY <1>a, <1>b DEF Marked
<1>3. HalfMade'
  BY <1>a DEF HalfMade
<1>4. StoragesSound'
  BY <1>a, <1>b DEF StoragesSound
<1>5. TablesSound'
  BY <1>a DEF TablesSound, Holdings, Owning
<1>6. ConstructedOnly'
  BY <1>a DEF ConstructedOnly
<1>7. BindingsSound'
  <2>1. gc'["value"] = None
    BY <1>a DEF Holdings, Owning
  <2> QED BY <1>a, <2>1 DEF BindingsSound
<1>8. OwnedSound'
  <2> SUFFICES ASSUME "unregister" \notin Uses PROVE OwnedSound'
    BY DEF OwnedSound
  <2>1. \A o \in Objects : held[o] \in Owning => content[o] \in {"none", "destroyed"}
    BY <1>a DEF Unneeded
  <2> QED BY <1>a, <2>1 DEF OwnedSound
<1> QED BY <1>1, <1>2, <1>3, <1>4, <1>5, <1>6, <1>7, <1>8

LEMMA RegisterStep ==
    ASSUME IInv, NEW s \in Storages, Register(s)
    PROVE  IInv'
<1> USE LifecycleAssumption DEF IInv, Register, tables
<1>a. /\ phase = "open" /\ storage[s] = "unused"
      /\ storage' = [Cleared EXCEPT ![s] = "live"]
      /\ exists' = Holdings
      /\ gc' = [h \in Holdings |-> IF h \in Owning THEN Default ELSE None]
      /\ reachable' = (reachable \ Live) \cup {s}
      /\ finalise' = Append(finalise, s)
      /\ UNCHANGED <<held, content, table, stale, phase>>
  BY DEF pinned
<1>b. /\ storage' \in [Storages -> {"unused", "live", "cleared", "gone"}]
      /\ \A x \in Storages : storage'[x] =
             IF x = s THEN "live" ELSE IF storage[x] = "live" THEN "cleared" ELSE storage[x]
  <2>1. Cleared \in [Storages -> {"unused", "live", "cleared", "gone"}]
    BY DEF Cleared, Live, TypeOK
  <2>2. \A x \in Storages : Cleared[x] = IF storage[x] = "live" THEN "cleared" ELSE storage[x]
    BY DEF Cleared, Live
  <2> QED BY <1>a, <2>1, <2>2
<1>c. finalise' \in Seq(Objects \cup Storages)
  BY <1>a, AppendFacts DEF TypeOK
<1>d. PICK n \in Nat :
          /\ DOMAIN finalise = 1 .. n /\ DOMAIN finalise' = 1 .. n + 1
          /\ finalise'[n + 1] = s
          /\ \A i \in 1 .. n : finalise'[i] = finalise[i]
  <2>1. finalise \in Seq(Objects \cup Storages) /\ s \in Objects \cup Storages
    BY DEF TypeOK
  <2> QED BY <1>a, <2>1, AppendFacts
<1>e. \A i \in DOMAIN finalise' : i = n + 1 \/ i \in 1 .. n
  BY <1>d
<1>f. DOMAIN finalise \subseteq DOMAIN finalise' /\ n + 1 \in DOMAIN finalise'
  BY <1>d
<1>g. Live \subseteq Storages /\ s \notin Objects
  BY DEF Live
<1> HIDE DEF Register
<1>1. TypeOK'
  BY <1>a, <1>b, <1>c, <1>g DEF TypeOK, Holdings, Owning
<1>2. Marked'
  <2>1. \A i \in 1 .. n : finalise[i] # s
    BY <1>a, <1>d DEF Marked
  <2>2. ASSUME NEW i \in DOMAIN finalise'
        PROVE  /\ finalise'[i] \in Objects =>
                      /\ finalise'[i] \in table' /\ held'[finalise'[i]] \in Owning
                      /\ content'[finalise'[i]] \in {"bytes", "failed", "object"}
               /\ finalise'[i] \in Storages => storage'[finalise'[i]] \in {"live", "cleared"}
    BY <1>a, <1>b, <1>d, <1>e, <1>g DEF Marked
  <2>3. ASSUME NEW i \in DOMAIN finalise', NEW j \in DOMAIN finalise',
               finalise'[i] = finalise'[j]
        PROVE  i = j
    <3>1. (i = n + 1 \/ i \in 1 .. n) /\ (j = n + 1 \/ j \in 1 .. n)
      BY <1>e
    <3>2. CASE i \in 1 .. n /\ j \in 1 .. n
      <4>1. finalise[i] = finalise[j] /\ i \in DOMAIN finalise /\ j \in DOMAIN finalise
        BY <1>d, <2>3, <3>2
      <4> QED BY <4>1 DEF Marked
    <3>3. CASE i = n + 1 /\ j \in 1 .. n
      BY <1>d, <2>1, <2>3, <3>3
    <3>4. CASE j = n + 1 /\ i \in 1 .. n
      BY <1>d, <2>1, <2>3, <3>4
    <3> QED BY <3>1, <3>2, <3>3, <3>4
  <2> QED BY <1>a, <2>2, <2>3 DEF Marked
<1>3. HalfMade'
  BY <1>a, <1>g DEF HalfMade
<1>4. StoragesSound'
  <2>1. ASSUME NEW x \in Storages, storage'[x] = "live" PROVE x = s
    BY <1>b, <2>1
  <2> QED BY <1>a, <1>d, <1>f, <2>1 DEF StoragesSound
<1>5. TablesSound'
  BY <1>a DEF TablesSound, Holdings, Owning
<1>6. ConstructedOnly'
  BY <1>a DEF ConstructedOnly
<1>7. BindingsSound'
  <2>1. gc'["value"] = Default
    BY <1>a DEF Holdings, Owning
  <2> QED BY <1>a, <2>1 DEF BindingsSound
<1>8. OwnedSound'
  <2>1. \A h \in Owning : h \in Holdings /\ gc'[h] # None
    BY <1>a DEF Holdings, None, Default
  <2> QED BY <1>a, <1>d, <1>f, <2>1 DEF OwnedSound, TypeOK, Holdings
<1> QED BY <1>1, <1>2, <1>3, <1>4, <1>5, <1>6, <1>7, <1>8

\* What taking the youngest userdata does to the others.
LEMMA TakeFacts ==
    ASSUME IInv, NEW u, TakeYoungest(u)
    PROVE  /\ Unreached(u) /\ phase # "closed"
           /\ finalise' \in Seq(Objects \cup Storages)
           /\ \E i \in DOMAIN finalise : finalise[i] = u
           /\ \A j \in DOMAIN finalise' :
                  /\ finalise'[j] # u
                  /\ \E k \in DOMAIN finalise : finalise'[j] = finalise[k]
           /\ \A i, j \in DOMAIN finalise' : finalise'[i] = finalise'[j] => i = j
           /\ \A k \in DOMAIN finalise : finalise[k] # u =>
                  \E j \in DOMAIN finalise' : finalise'[j] = finalise[k]
           /\ \A s : s # u /\ Before(s) => Before(s)'
           /\ phase = "closing" /\ u \in Storages /\ Before(u) =>
                  \A j \in DOMAIN finalise' : finalise'[j] \notin Objects
<1>1. PICK i \in DOMAIN finalise :
          /\ finalise[i] = u /\ Unreached(u)
          /\ \A j \in i + 1 .. Len(finalise) : ~Unreached(finalise[j])
          /\ finalise' = RemoveAt(finalise, i)
  BY DEF TakeYoungest
<1>2. finalise \in Seq(Objects \cup Storages)
  BY DEF IInv, TypeOK
<1>3. PICK n \in Nat : DOMAIN finalise = 1 .. n /\ n = Len(finalise)
  BY <1>2, LenProperties
<1>4. \A k, l \in DOMAIN finalise : finalise[k] = finalise[l] => k = l
  BY DEF IInv, Marked
<1>5. /\ finalise' \in Seq(Objects \cup Storages)
      /\ \A j \in DOMAIN finalise' :
             \E k \in DOMAIN finalise : /\ k # i /\ finalise'[j] = finalise[k]
                                        /\ j \in Nat /\ k = (IF j < i THEN j ELSE j + 1)
      /\ \A k \in DOMAIN finalise : k # i =>
             \E j \in DOMAIN finalise' : /\ finalise'[j] = finalise[k]
                                         /\ j \in Nat /\ k = (IF j < i THEN j ELSE j + 1)
  BY <1>1, <1>2, RemoveAtWas
<1>6. i \in 1 .. n
  BY <1>3
<1>7. phase # "closed"
  BY <1>3, <1>6, <1>2, EmptySeq DEF IInv, Marked
<1>8. ASSUME NEW j \in DOMAIN finalise'
      PROVE  /\ finalise'[j] # u
             /\ \E k \in DOMAIN finalise : finalise'[j] = finalise[k]
  BY <1>1, <1>4, <1>5
<1>9. ASSUME NEW j \in DOMAIN finalise', NEW l \in DOMAIN finalise',
             finalise'[j] = finalise'[l]
      PROVE  j = l
  <2>1. PICK jj \in 1 .. n : /\ finalise'[j] = finalise[jj] /\ jj # i
                             /\ j \in Nat /\ jj = (IF j < i THEN j ELSE j + 1)
    BY <1>3, <1>5
  <2>2. PICK ll \in 1 .. n : /\ finalise'[l] = finalise[ll] /\ ll # i
                             /\ l \in Nat /\ ll = (IF l < i THEN l ELSE l + 1)
    BY <1>3, <1>5
  <2>3. jj = ll
    BY <1>3, <1>4, <1>9, <2>1, <2>2
  <2> QED BY <1>6, <2>1, <2>2, <2>3
<1>10. ASSUME NEW k \in DOMAIN finalise, finalise[k] # u
       PROVE  \E j \in DOMAIN finalise' : finalise'[j] = finalise[k]
  BY <1>1, <1>5, <1>10
<1>11. ASSUME NEW s, s # u, Before(s)
       PROVE  Before(s)'
  <2>1. PICK k \in 1 .. n : /\ finalise[k] = s
                            /\ \A l \in 1 .. n : finalise[l] \in Objects => k <= l
    BY <1>3, <1>11 DEF Before
  <2>2. PICK j \in DOMAIN finalise' : /\ finalise'[j] = s
                                      /\ j \in Nat /\ k = (IF j < i THEN j ELSE j + 1)
    <3>1. k \in DOMAIN finalise /\ k # i
      BY <1>1, <1>3, <1>11, <2>1
    <3> QED BY <1>5, <2>1, <3>1
  <2>3. ASSUME NEW l \in DOMAIN finalise', finalise'[l] \in Objects PROVE j <= l
    <3>1. PICK ll \in 1 .. n : /\ finalise'[l] = finalise[ll]
                               /\ l \in Nat /\ ll = (IF l < i THEN l ELSE l + 1)
      BY <1>3, <1>5
    <3>2. k <= ll
      BY <2>1, <2>3, <3>1
    <3> QED BY <1>6, <2>1, <2>2, <3>1, <3>2
  <2> QED BY <2>2, <2>3 DEF Before
<1>12. ASSUME phase = "closing", u \in Storages, Before(u),
              NEW j \in DOMAIN finalise'
       PROVE  finalise'[j] \notin Objects
  <2>1. i = n
    <3>1. i + 1 \in i + 1 .. n => FALSE
      BY <1>1, <1>3, <1>12 DEF Unreached
    <3> QED BY <1>6, <3>1
  <2>2. PICK k \in 1 .. n : /\ finalise[k] = u
                            /\ \A l \in 1 .. n : finalise[l] \in Objects => k <= l
    BY <1>3, <1>12 DEF Before
  <2>3. k = n
    BY <1>1, <1>3, <1>4, <2>1, <2>2
  <2>4. PICK l \in 1 .. n : finalise'[j] = finalise[l] /\ l # n
    BY <1>3, <1>5, <2>1
  <2> QED BY <2>2, <2>3, <2>4
<1> QED BY <1>1, <1>5, <1>7, <1>8, <1>9, <1>10, <1>11, <1>12

\* What is finalised was an object, or bytes whose constructor failed.
LEMMA FinalisedIs ==
    ASSUME IInv, NEW o \in Objects, TakeYoungest(o)
    PROVE  /\ o \in table /\ held[o] \in Owning /\ content[o] \in {"failed", "object"}
           /\ "fail" \notin Uses => content[o] = "object"
           /\ "unregister" \notin Uses => gc[held[o]] # None
<1>1. /\ Unreached(o) /\ phase # "closed"
      /\ \E i \in DOMAIN finalise : finalise[i] = o
  BY TakeFacts
<1>2. o \in table /\ held[o] \in Owning /\ content[o] \in {"bytes", "failed", "object"}
  BY <1>1 DEF IInv, Marked
<1>3. content[o] # "bytes"
  BY <1>1 DEF IInv, HalfMade, Unreached
<1>4. "fail" \notin Uses => content[o] = "object"
  BY <1>2, <1>3 DEF IInv, ConstructedOnly
<1>5. "unregister" \notin Uses => gc[held[o]] # None
  BY <1>2 DEF IInv, OwnedSound
<1> QED BY <1>2, <1>3, <1>4, <1>5

LEMMA FinaliseStep ==
    ASSUME IInv, NEW o \in Objects, Finalise(o)
    PROVE  IInv'
<1> USE LifecycleAssumption DEF IInv, Finalise, tables
<1> DEFINE call == gc[held[o]]
<1>a. /\ TakeYoungest(o)
      /\ content' = [content EXCEPT ![o] =
             IF call = None THEN IF @ = "object" THEN "lost" ELSE @
             ELSE IF @ = "object" THEN "destroyed" ELSE "ruined"]
      /\ stale' = (stale \/ (call \in Storages /\ storage[call] # "live"))
      /\ table' = table \ {o} /\ reachable' = reachable \ {o}
      /\ UNCHANGED <<held, gc, exists, storage, phase>>
  OBVIOUS
<1> HIDE DEF call, Finalise
<1>b. /\ content'[o] \in {"failed", "lost", "destroyed", "ruined"}
      /\ "fail" \notin Uses => content'[o] \notin {"failed", "ruined"}
      /\ "unregister" \notin Uses => content'[o] # "lost"
      /\ \A p \in Objects : p # o => content'[p] = content[p]
      /\ content' \in [Objects -> Contents]
  <2>1. /\ content[o] \in {"failed", "object"}
        /\ "fail" \notin Uses => content[o] = "object"
        /\ "unregister" \notin Uses => call # None
    BY <1>a, FinalisedIs DEF call
  <2> DEFINE c == IF call = None THEN IF content[o] = "object" THEN "lost" ELSE content[o]
                  ELSE IF content[o] = "object" THEN "destroyed" ELSE "ruined"
  <2>2. c \in {"failed", "lost", "destroyed", "ruined"}
        /\ ("fail" \notin Uses => c \notin {"failed", "ruined"})
        /\ ("unregister" \notin Uses => c # "lost")
    BY <2>1
  <2>3. content' = [content EXCEPT ![o] = c]
    BY <1>a
  <2> HIDE DEF c
  <2> QED BY <2>2, <2>3 DEF TypeOK, Contents
<1>c. /\ finalise' \in Seq(Objects \cup Storages)
      /\ \A j \in DOMAIN finalise' :
             /\ finalise'[j] # o
             /\ \E k \in DOMAIN finalise : finalise'[j] = finalise[k]
      /\ \A i, j \in DOMAIN finalise' : finalise'[i] = finalise'[j] => i = j
      /\ \A k \in DOMAIN finalise : finalise[k] # o =>
             \E j \in DOMAIN finalise' : finalise'[j] = finalise[k]
  BY <1>a, TakeFacts
<1>d. o \notin Storages /\ phase # "closed"
  BY <1>a, TakeFacts
<1>1. TypeOK'
  BY <1>a, <1>b, <1>c DEF TypeOK
<1>2. Marked'
  <2>1. ASSUME NEW i \in DOMAIN finalise'
        PROVE  /\ finalise'[i] \in Objects =>
                      /\ finalise'[i] \in table' /\ held'[finalise'[i]] \in Owning
                      /\ content'[finalise'[i]] \in {"bytes", "failed", "object"}
               /\ finalise'[i] \in Storages => storage'[finalise'[i]] \in {"live", "cleared"}
    BY <1>a, <1>b, <1>c DEF Marked
  <2> QED BY <1>a, <1>c, <1>d, <2>1 DEF Marked
<1>3. HalfMade'
  BY <1>a, <1>b DEF HalfMade
<1>4. StoragesSound'
  BY <1>a, <1>c, <1>d DEF StoragesSound
<1>5. TablesSound'
  BY <1>a DEF TablesSound
<1>6. ConstructedOnly'
  BY <1>b DEF ConstructedOnly
<1>7. BindingsSound'
  <2> SUFFICES ASSUME "bind_late" \notin Uses
               PROVE  /\ ~stale'
                      /\ gc["value"] \in Storages =>
                             \/ BoundBefore(gc["value"])'
                             \/ phase # "open" /\ \A i \in DOMAIN finalise' : finalise'[i] \notin Objects
    BY <1>a DEF BindingsSound
  <2>1. gc["value"] \in Storages => BoundBefore(gc["value"])
    <3>1. \E i \in DOMAIN finalise : finalise[i] = o
      BY <1>a, TakeFacts
    <3> QED BY <3>1 DEF BindingsSound
  <2>2. held[o] = "value" \/ held[o] = "unique"
    BY <1>a, FinalisedIs DEF Owning
  <2>3. call \in Storages => call = gc["value"]
    BY <2>2 DEF TablesSound, call
  <2>4. ~stale'
    BY <1>a, <2>1, <2>3 DEF BindingsSound, BoundBefore
  <2>5. ASSUME gc["value"] \in Storages PROVE BoundBefore(gc["value"])'
    <3>1. Before(gc["value"]) /\ gc["value"] # o /\ storage[gc["value"]] = "live"
      BY <1>d, <2>1, <2>5 DEF BoundBefore
    <3>2. (Before(gc["value"]))'
      <4>1. \A s : s # o /\ Before(s) => Before(s)'
        BY <1>a, TakeFacts
      <4>2. \A s : Before(s)' <=> \E j \in DOMAIN finalise' :
                /\ finalise'[j] = s
                /\ \A i \in DOMAIN finalise' : finalise'[i] \in Objects => j <= i
        BY DEF Before
      <4> QED BY <1>a, <3>1, <4>1, <4>2 DEF Before
    <3> QED BY <1>a, <3>1, <3>2 DEF BoundBefore
  <2> QED BY <2>4, <2>5
<1>8. OwnedSound'
  BY <1>a, <1>b, <1>c DEF OwnedSound
<1> QED BY <1>1, <1>2, <1>3, <1>4, <1>5, <1>6, <1>7, <1>8

LEMMA FinaliseStorageStep ==
    ASSUME IInv, NEW s \in Storages, FinaliseStorage(s)
    PROVE  IInv'
<1> USE LifecycleAssumption DEF IInv, FinaliseStorage, tables
<1>a. /\ TakeYoungest(s)
      /\ storage' = [storage EXCEPT ![s] = "gone"]
      /\ reachable' = reachable \ {s}
      /\ UNCHANGED <<held, content, table, gc, exists, stale, phase>>
  OBVIOUS
<1> HIDE DEF FinaliseStorage
<1>b. /\ finalise' \in Seq(Objects \cup Storages)
      /\ \A j \in DOMAIN finalise' :
             /\ finalise'[j] # s
             /\ \E k \in DOMAIN finalise : finalise'[j] = finalise[k]
      /\ \A i, j \in DOMAIN finalise' : finalise'[i] = finalise'[j] => i = j
      /\ \A k \in DOMAIN finalise : finalise[k] # s =>
             \E j \in DOMAIN finalise' : finalise'[j] = finalise[k]
  BY <1>a, TakeFacts
<1>c. s \notin Objects /\ phase # "closed" /\ Unreached(s)
  BY <1>a, TakeFacts
<1>d. /\ storage' \in [Storages -> {"unused", "live", "cleared", "gone"}]
      /\ storage'[s] = "gone"
      /\ \A x \in Storages : x # s => storage'[x] = storage[x]
  BY <1>a DEF TypeOK
<1>1. TypeOK'
  BY <1>a, <1>b, <1>d DEF TypeOK
<1>2. Marked'
  <2>1. ASSUME NEW i \in DOMAIN finalise'
        PROVE  /\ finalise'[i] \in Objects =>
                      /\ finalise'[i] \in table' /\ held'[finalise'[i]] \in Owning
                      /\ content'[finalise'[i]] \in {"bytes", "failed", "object"}
               /\ finalise'[i] \in Storages => storage'[finalise'[i]] \in {"live", "cleared"}
    BY <1>a, <1>b, <1>d DEF Marked
  <2> QED BY <1>a, <1>b, <1>c, <2>1 DEF Marked
<1>3. HalfMade'
  BY <1>a, <1>c DEF HalfMade
<1>4. StoragesSound'
  BY <1>a, <1>b, <1>d DEF StoragesSound
<1>5. TablesSound'
  BY <1>a DEF TablesSound
<1>6. ConstructedOnly'
  BY <1>a DEF ConstructedOnly
<1>7. BindingsSound'
  <2> SUFFICES ASSUME "bind_late" \notin Uses, gc["value"] \in Storages
               PROVE  \/ BoundBefore(gc["value"])'
                      \/ phase # "open" /\ \A i \in DOMAIN finalise' : finalise'[i] \notin Objects
    BY <1>a DEF BindingsSound
  <2>1. CASE phase # "open" /\ \A i \in DOMAIN finalise : finalise[i] \notin Objects
    BY <1>b, <2>1
  <2>2. CASE BoundBefore(gc["value"]) /\ gc["value"] = s
    <3>1. phase = "closing"
      BY <1>c, <2>2 DEF StoragesSound, BoundBefore, Unreached, TypeOK
    <3>2. Before(s)
      BY <2>2 DEF BoundBefore
    <3>3. \A j \in DOMAIN finalise' : finalise'[j] \notin Objects
      BY <1>a, <3>1, <3>2, TakeFacts
    <3> QED BY <3>1, <3>3
  <2>3. CASE BoundBefore(gc["value"]) /\ gc["value"] # s
    <3>1. Before(gc["value"]) /\ storage'[gc["value"]] = "live"
      BY <1>d, <2>3 DEF BoundBefore
    <3>2. (Before(gc["value"]))'
      <4>1. \A x : x # s /\ Before(x) => Before(x)'
        BY <1>a, TakeFacts
      <4> QED BY <1>a, <2>3, <3>1, <4>1 DEF Before
    <3> QED BY <1>a, <3>1, <3>2 DEF BoundBefore
  <2> QED BY <2>1, <2>2, <2>3 DEF BindingsSound
<1>8. OwnedSound'
  BY <1>a, <1>b, <1>c DEF OwnedSound
<1> QED BY <1>1, <1>2, <1>3, <1>4, <1>5, <1>6, <1>7, <1>8

LEMMA CloseStep ==
    ASSUME IInv, Close
    PROVE  IInv'
<1> USE LifecycleAssumption DEF IInv, Close, tables
<1>1. TypeOK'
  BY DEF TypeOK, Holdings, Owning, Contents
<1>2. Marked'
  BY DEF TypeOK, Marked, Holdings, Owning
<1>3. HalfMade'
  BY DEF TypeOK, HalfMade, Holdings, Owning
<1>4. StoragesSound'
  BY DEF TypeOK, StoragesSound
<1>5. TablesSound'
  BY DEF TypeOK, TablesSound, Holdings, Owning
<1>6. ConstructedOnly'
  BY DEF TypeOK, ConstructedOnly
<1>7. BindingsSound'
  <2>1. \A x : BoundBefore(x)' <=> BoundBefore(x)
    BY DEF BoundBefore, Before
  <2> QED BY <2>1 DEF BindingsSound
<1>8. OwnedSound'
  BY DEF TypeOK, OwnedSound, HalfMade, Holdings, Owning
<1> QED BY <1>1, <1>2, <1>3, <1>4, <1>5, <1>6, <1>7, <1>8

LEMMA ClosedStep ==
    ASSUME IInv, Closed
    PROVE  IInv'
<1> USE LifecycleAssumption DEF IInv, Closed, tables
<1>1. TypeOK'
  BY DEF TypeOK, Holdings, Owning, Contents
<1>2. Marked'
  BY DEF TypeOK, Marked, Holdings, Owning
<1>3. HalfMade'
  BY DEF TypeOK, HalfMade, Holdings, Owning
<1>4. StoragesSound'
  BY DEF TypeOK, StoragesSound
<1>5. TablesSound'
  BY DEF TypeOK, TablesSound, Holdings, Owning
<1>6. ConstructedOnly'
  BY DEF TypeOK, ConstructedOnly
<1>7. BindingsSound'
  BY DEF TypeOK, BindingsSound, BoundBefore, Holdings, Owning
<1>8. OwnedSound'
  BY DEF TypeOK, OwnedSound, HalfMade, Holdings, Owning
<1> QED BY <1>1, <1>2, <1>3, <1>4, <1>5, <1>6, <1>7, <1>8

LEMMA NextSound == IInv /\ [Next]_vars => IInv'
<1> SUFFICES ASSUME IInv, [Next]_vars PROVE IInv'
  OBVIOUS
<1>1. CASE Next
  BY <1>1, AllocateStep, SetMetatableStep, ConstructStep, DropStep, FinaliseStep,
     FreeStep, ConstructFailsStep, RegisterStep, BindDestructorStep,
     UnregisterStep, FinaliseStorageStep, CloseStep, ClosedStep
     DEF Next
<1>2. CASE UNCHANGED vars
  BY <1>2 DEF vars, IInv, TypeOK, Marked, HalfMade, StoragesSound, TablesSound,
     ConstructedOnly, BindingsSound, BoundBefore, Before, OwnedSound
<1> QED BY <1>1, <1>2

LEMMA Invariance == Spec => []IInv
BY InitSound, NextSound, PTL DEF Spec

-----------------------------------------------------------------------------
(* What follows.                                                           *)

(***************************************************************************)
(* ~T, run by __gc, meets a constructed object that was not destroyed      *)
(* before, however many objects, registrations and collections there are,  *)
(* as long as no constructor fails once the metatable is set.              *)
(***************************************************************************)
THEOREM OnlyObjectsAreDestroyed ==
    ASSUME "fail" \notin Uses
    PROVE  Spec => []OnlyObjectsDestroyed
<1>1. IInv => OnlyObjectsDestroyed
  BY DEF IInv, ConstructedOnly, OnlyObjectsDestroyed
<1> QED BY <1>1, Invariance, PTL

(***************************************************************************)
(* A custom __gc is called while the storage that holds its function is    *)
(* there, also during lua_close and after unregister(), as long as the     *)
(* storage is older than the objects.                                      *)
(***************************************************************************)
THEOREM BindingsOutliveObjects ==
    ASSUME "bind_late" \notin Uses
    PROVE  Spec => []FinalisersHaveTheirBindings
<1>1. IInv => FinalisersHaveTheirBindings
  BY DEF IInv, BindingsSound, FinalisersHaveTheirBindings
<1> QED BY <1>1, Invariance, PTL

(***************************************************************************)
(* Lua frees no object without its destructor, whether the class was       *)
(* registered before, after or never, as long as no unregister() takes     *)
(* __gc from objects that exist.                                           *)
(***************************************************************************)
THEOREM NoneIsLost ==
    ASSUME "unregister" \notin Uses
    PROVE  Spec => []NoObjectLost
<1>1. IInv => NoObjectLost
  BY DEF IInv, OwnedSound, NoObjectLost
<1> QED BY <1>1, Invariance, PTL

-----------------------------------------------------------------------------
(* Where the parts of a userdata lie.                                     *)

Rooms == [align : Nat \ {0}, size : Nat \ {0}]

(***************************************************************************)
(* Arithmetic.                                                             *)
(***************************************************************************)

\* The padding of align is never negative.
LEMMA PaddingType ==
    ASSUME NEW a \in Nat \ {0}, NEW p \in Nat
    PROVE  Padding(a, p) \in Nat /\ Padding(a, p) < a
BY DEF Padding

\* The padding of align leads to a multiple of the alignment.
LEMMA PaddingAligns ==
    ASSUME NEW a \in Nat \ {0}, NEW p \in Nat
    PROVE  (p + Padding(a, p)) % a = 0
<1> DEFINE r == p % a
<1>1. r \in 0 .. a - 1
  OBVIOUS
<1>2. PICK q \in Nat : p = a * q + r
  <2>1. p = a * (p \div a) + r
    OBVIOUS
  <2>2. p \div a \in Nat
    OBVIOUS
  <2> QED BY <2>1, <2>2
<1>3. CASE r = 0
  <2>1. a % a = 0
    OBVIOUS
  <2>2. Padding(a, p) = 0
    BY <1>3, <2>1 DEF Padding
  <2> QED BY <1>3, <2>2
<1>4. CASE r # 0
  <2>1. a - r \in 1 .. a - 1
    BY <1>1, <1>4
  <2>2. (a - r) % a = a - r
    BY <2>1
  <2>3. Padding(a, p) = a - r
    BY <2>2 DEF Padding
  <2>4. p + Padding(a, p) = a * (q + 1)
    <3>1. a * (q + 1) = a * q + a
      OBVIOUS
    <3> QED BY <3>1, <2>3, <1>2, <1>1
  <2>5. (a * (q + 1)) % a = 0
    OBVIOUS
  <2> QED BY <2>4, <2>5
<1> QED BY <1>3, <1>4

\* align leads on, and align_one beyond.
LEMMA AlignType ==
    ASSUME NEW part \in Rooms, NEW p \in Nat
    PROVE  /\ align(part, p) \in Nat
           /\ align(part, p) >= p
           /\ align(part, p) % part.align = 0
           /\ align_one(part, p) \in Nat
           /\ align_one(part, p) > p
<1>1. Padding(part.align, p) \in Nat /\ (p + Padding(part.align, p)) % part.align = 0
  BY PaddingType, PaddingAligns DEF Rooms
<1> QED BY <1>1 DEF align, align_one, Rooms

(***************************************************************************)
(* The parts of a block and the room they need.                            *)
(***************************************************************************)
LEMMA PartsType ==
    ASSUME kind \in Kinds, type \in Types
    PROVE  /\ Parts \in Seq(Rooms)
           /\ Len(Parts) \in 1 .. 4
<1>1. type \in Rooms /\ Pointer \in Rooms
  BY LayoutAssumption DEF Rooms
<1>2. CASE kind = "value"
  <2>1. Parts = <<Pointer, type>>
    BY <1>2 DEF Parts
  <2> QED BY <2>1, <1>1
<1>3. CASE kind = "pointer"
  <2>1. Parts = <<Pointer>>
    BY <1>3 DEF Parts
  <2> QED BY <2>1, <1>1
<1>4. CASE kind = "unique"
  <2>1. Parts = <<Pointer, Pointer, Pointer, type>>
    BY <1>4 DEF Parts
  <2> QED BY <2>1, <1>1
<1>5. CASE kind = "user"
  <2>1. Parts = <<type>>
    BY <1>5 DEF Parts
  <2> QED BY <2>1, <1>1
<1> QED BY <1>2, <1>3, <1>4, <1>5 DEF Kinds

LEMMA SpaceType ==
    ASSUME kind \in Kinds, type \in Types, NEW start \in Nat
    PROVE  aligned_space_for(start) \in Nat
<1>1. type \in Rooms /\ Pointer \in Rooms
  BY LayoutAssumption DEF Rooms
<1> DEFINE p1 == align_one(Pointer, start)
           p2 == align_one(Pointer, p1)
           p3 == align_one(Pointer, p2)
<1>2. p1 \in Nat /\ p1 > start
  BY <1>1, AlignType
<1>3. p2 \in Nat /\ p2 > p1
  BY <1>1, <1>2, AlignType
<1>4. p3 \in Nat /\ p3 > p2
  BY <1>1, <1>3, AlignType
<1> HIDE DEF p1, p2, p3
<1>5. \A p \in Nat : align_one(type, p) \in Nat /\ align_one(type, p) > p
  BY <1>1, AlignType
<1>6. CASE kind = "value"
  <2>1. aligned_space_for(start) = align_one(type, p1) - start
    BY <1>6 DEF aligned_space_for, p1
  <2> QED BY <2>1, <1>2, <1>5
<1>7. CASE kind = "pointer"
  <2>1. aligned_space_for(start) = p1 - start
    BY <1>7 DEF aligned_space_for, p1
  <2> QED BY <2>1, <1>2
<1>8. CASE kind = "unique"
  <2>1. aligned_space_for(start) = align_one(type, p3) - start
    BY <1>8 DEF aligned_space_for, p1, p2, p3
  <2> QED BY <2>1, <1>2, <1>3, <1>4, <1>5
<1>9. CASE kind = "user"
  <2>1. aligned_space_for(start) = align_one(type, start) - start
    BY <1>9 DEF aligned_space_for
  <2> QED BY <2>1, <1>5
<1> QED BY <1>6, <1>7, <1>8, <1>9 DEF Kinds

LEMMA SizeType ==
    ASSUME kind \in Kinds, type \in Types, NEW n
    PROVE  size_for(n) \in Nat
<1>1. aligned_space_for(0) \in Nat /\ aligned_space_for(1) \in Nat
  BY SpaceType
<1>2. unaligned_space \in Nat
  <2>1. type.size \in Nat /\ Pointer.size \in Nat
    BY LayoutAssumption
  <2> QED BY <2>1 DEF unaligned_space, Kinds
<1> QED BY <1>1, <1>2 DEF size_for

(***************************************************************************)
(* The inductive invariant: where in its two attempts the allocator is,    *)
(* that each part lies where align leads from the end of the part before,  *)
(* and that space is what the block still has behind the last part.        *)
(***************************************************************************)
Progress ==
    /\ pc = "new" => attempt = 0 /\ stack = 0
    /\ pc = "retry" => attempt = 1 /\ stack = 0
    /\ pc \in {"placing", "made"} => attempt \in 1 .. 2 /\ stack = 1
    /\ pc = "error" => stack = 0
    /\ pc = "made" => Len(placed) = Len(Parts)
    /\ Len(placed) <= Len(Parts)

EndOf(i) == IF i = 0 THEN block.at ELSE placed[i] + Parts[i].size

Chain ==
    \A i \in 1 .. Len(placed) :
        /\ placed[i] = EndOf(i - 1) +
               (IF UseAlignment THEN Padding(Parts[i].align, EndOf(i - 1)) ELSE 0)
        /\ block.at <= EndOf(i) /\ EndOf(i) <= block.at + block.size

Room ==
    pc \in {"placing", "made"} =>
        space = block.at + block.size - EndOf(Len(placed))

LayoutInv == LayoutTypeOK /\ Progress /\ Chain /\ Room

LEMMA InitLayout == LayoutInit => LayoutInv
<1> SUFFICES ASSUME LayoutInit PROVE LayoutInv
  OBVIOUS
<1>1. LayoutTypeOK
  BY DEF LayoutInit, LayoutTypeOK
<1>2. Len(Parts) \in 1 .. 4
  BY PartsType DEF LayoutInit
<1>3. Progress
  BY <1>2 DEF LayoutInit, Progress
<1> QED BY <1>1, <1>3 DEF LayoutInit, LayoutInv, Chain, Room

\* The position after the last part placed, and the next part.
LEMMA CursorType ==
    ASSUME LayoutInv, pc = "placing"
    PROVE  /\ Cursor = EndOf(Len(placed))
           /\ Cursor \in Nat
           /\ Len(placed) < Len(Parts) => Part \in Rooms /\ Waste \in Nat
<1> USE DEF LayoutInv
<1>1. Parts \in Seq(Rooms) /\ Len(Parts) \in 1 .. 4
  BY PartsType DEF LayoutTypeOK
<1>2. placed \in Seq(Nat) /\ Len(placed) \in 0 .. Len(Parts)
  BY <1>1 DEF LayoutTypeOK, Progress
<1>3. Cursor = EndOf(Len(placed))
  BY <1>2 DEF Cursor, EndOf
<1>4. Cursor \in Nat
  <2>1. CASE placed = <<>>
    BY <2>1 DEF Cursor, LayoutTypeOK
  <2>2. CASE placed # <<>>
    <3>1. Len(placed) \in 1 .. Len(placed) /\ Len(placed) \in 1 .. Len(Parts)
      BY <2>2, <1>2
    <3>2. placed[Len(placed)] \in Nat
      BY <3>1, <1>2
    <3>3. Parts[Len(placed)] \in Rooms
      BY <3>1, <1>1
    <3>4. Parts[Len(placed)].size \in Nat
      BY <3>3 DEF Rooms
    <3> QED BY <3>2, <3>4, <2>2 DEF Cursor
  <2> QED BY <2>1, <2>2
<1>5. ASSUME Len(placed) < Len(Parts) PROVE Part \in Rooms /\ Waste \in Nat
  <2>1. Part \in Rooms
    BY <1>5, <1>1, <1>2 DEF Part
  <2> QED BY <2>1, <1>4, PaddingType DEF Waste, Rooms
<1> QED BY <1>3, <1>4, <1>5

LEMMA NextLayout == LayoutInv /\ [LayoutNext]_layout => LayoutInv'
<1> SUFFICES ASSUME LayoutInv, [LayoutNext]_layout PROVE LayoutInv'
  OBVIOUS
<1> USE DEF LayoutInv
<1>0. kind \in Kinds /\ type \in Types
  BY DEF LayoutTypeOK
<1>1. Parts \in Seq(Rooms) /\ Len(Parts) \in 1 .. 4
  BY <1>0, PartsType
<1>2. kind' = kind /\ type' = type
  BY DEF LayoutNext, lua_newuserdata, Place, DoesNotFit, Finish, layout
<1>3. Parts' = Parts
  BY <1>2 DEF Parts
<1>4. placed \in Seq(Nat) /\ Len(placed) \in 0 .. Len(Parts)
  BY <1>1 DEF LayoutTypeOK, Progress
<1>5. CASE lua_newuserdata
  <2>1. PICK b \in Blocks : block' = [at |-> b, size |-> size_for(attempt')]
    BY <1>5 DEF lua_newuserdata
  <2>2. b \in Nat
    BY LayoutAssumption
  <2>3. size_for(attempt') \in Nat
    BY <1>0, SizeType
  <2>4. attempt' \in 1 .. 2 /\ stack' = 1
    BY <1>5 DEF lua_newuserdata, LayoutTypeOK, Progress
  <2>5. placed' = <<>> /\ space' = block'.size /\ pc' = "placing"
    BY <1>5 DEF lua_newuserdata
  <2>6. LayoutTypeOK'
    BY <1>0, <1>2, <2>1, <2>2, <2>3, <2>4, <2>5 DEF LayoutTypeOK
  <2>7. Progress'
    BY <1>1, <1>3, <2>4, <2>5 DEF Progress
  <2>8. Chain'
    BY <2>5 DEF Chain
  <2>9. Room'
    <3>1. EndOf(Len(placed))' = b
      BY <2>1, <2>5 DEF EndOf
    <3> QED BY <3>1, <2>1, <2>2, <2>3, <2>5 DEF Room
  <2> QED BY <2>6, <2>7, <2>8, <2>9
<1>6. CASE Place
  <2>n. PICK n \in Nat : n = Len(placed)
    BY <1>4
  <2> DEFINE q == Cursor + Waste
  <2>0. pc = "placing" /\ n < Len(Parts) /\ space >= Need
    BY <1>6, <2>n DEF Place
  <2>1. /\ Cursor = EndOf(n) /\ Cursor \in Nat
        /\ Part \in Rooms /\ Waste \in Nat
    BY <2>0, <2>n, CursorType
  <2>2. /\ placed' = Append(placed, q) /\ space' = space - Need
        /\ block' = block /\ attempt' = attempt /\ stack' = stack /\ pc' = pc
    BY <1>6 DEF Place, Left
  <2>3. q \in Nat /\ n \in Nat /\ n + 1 \in 1 .. Len(Parts)
    BY <2>0, <2>1, <1>1, <1>4
  <2>4. Part = Parts[n + 1] /\ Part.size \in Nat /\ Need = Part.size + Waste
    BY <2>1, <2>n DEF Part, Need, Rooms
  <2>5. /\ placed' \in Seq(Nat) /\ Len(placed') = n + 1
        /\ placed'[n + 1] = q
        /\ \A i \in 1 .. n : placed'[i] = placed[i]
    BY <2>2, <2>3, <2>n, <1>4
  <2>6. space = block.at + block.size - Cursor
    BY <2>0, <2>1, <2>n DEF Room
  <2>7. block.at \in Nat /\ block.size \in Nat /\ space \in Nat
    BY DEF LayoutTypeOK
  <2> HIDE DEF q
  <2>8. /\ EndOf(n + 1)' = q + Part.size
        /\ \A i \in 0 .. n : EndOf(i)' = EndOf(i)
    BY <2>2, <2>3, <2>4, <2>5, <1>3 DEF EndOf
  <2>9. q + Part.size = Cursor + Need
    BY <2>1, <2>4 DEF q
  <2>a. Need \in Nat
    BY <2>1, <2>4
  <2>b. /\ space' = (block.at + block.size) - (q + Part.size)
        /\ q + Part.size <= block.at + block.size
        /\ space' \in Nat
    <3>1. space' = space - Need
      BY <2>2
    <3>2. space - Need \in Nat
      BY <2>0, <2>7, <2>a
    <3>3. block.at + block.size = space + Cursor
      BY <2>1, <2>6, <2>7
    <3>4. (space + Cursor) - (Cursor + Need) = space - Need
      BY <2>1, <2>7, <2>a
    <3>5. Cursor + Need <= space + Cursor
      BY <2>0, <2>1, <2>7, <2>a
    <3> QED BY <3>1, <3>2, <3>3, <3>4, <3>5, <2>9
  <2>10. LayoutTypeOK'
    <3>1. space' \in Nat
      BY <2>b
    <3> QED BY <3>1, <1>2, <2>2, <2>5 DEF LayoutTypeOK
  <2>11. Progress'
    BY <1>1, <1>3, <2>0, <2>2, <2>3, <2>5 DEF Progress
  <2>12. Room'
    <3>1. EndOf(Len(placed))' = q + Part.size
      BY <2>5, <2>8
    <3>2. q + Part.size \in Nat
      BY <2>1, <2>9, <2>a
    <3> QED BY <3>1, <3>2, <2>b, <2>2, <2>7 DEF Room
  <2>13. Chain'
    <3> SUFFICES ASSUME NEW i \in 1 .. n + 1
                 PROVE  /\ placed'[i] = EndOf(i - 1)' +
                            (IF UseAlignment
                             THEN Padding(Parts[i].align, EndOf(i - 1)') ELSE 0)
                        /\ block.at <= EndOf(i)'
                        /\ EndOf(i)' <= block.at + block.size
      BY <2>2, <2>5, <1>3 DEF Chain
    <3>1. CASE i = n + 1
      <4>1. i - 1 = n
        BY <3>1, <2>3
      <4>2. EndOf(i - 1)' = Cursor
        BY <4>1, <2>1, <2>8, <2>3
      <4>3. q = Cursor + (IF UseAlignment
                          THEN Padding(Parts[i].align, Cursor) ELSE 0)
        BY <3>1, <2>4 DEF q, Waste
      <4>4. EndOf(i)' <= block.at + block.size
        BY <3>1, <2>8, <2>b
      <4>5. block.at <= EndOf(i)'
        <5>1. block.at <= EndOf(n)
          <6>1. CASE n = 0
            BY <6>1, <2>7 DEF EndOf
          <6>2. CASE n # 0
            BY <6>2, <2>n DEF Chain
          <6> QED BY <6>1, <6>2
        <5>2. EndOf(i)' = Cursor + Need
          BY <3>1, <2>8, <2>9
        <5> QED BY <5>1, <5>2, <2>1, <2>7, <2>a
      <4> QED BY <3>1, <4>2, <4>3, <4>4, <4>5, <2>5
    <3>2. CASE i \in 1 .. n
      <4>1. EndOf(i - 1)' = EndOf(i - 1) /\ EndOf(i)' = EndOf(i)
        BY <3>2, <2>8, <2>3
      <4>2. placed'[i] = placed[i]
        BY <3>2, <2>5
      <4> QED BY <3>2, <4>1, <4>2, <2>n DEF Chain
    <3> QED BY <3>1, <3>2, <2>3
  <2> QED BY <2>10, <2>11, <2>12, <2>13
<1>7. CASE DoesNotFit
  <2>1. /\ UNCHANGED <<kind, type, attempt, block, space, placed>>
        /\ pc = "placing" /\ stack' = stack - 1
        /\ pc' = IF attempt = 1 THEN "retry" ELSE "error"
    BY <1>7 DEF DoesNotFit
  <2>2. LayoutTypeOK'
    BY <2>1 DEF LayoutTypeOK, Progress
  <2>3. Progress'
    BY <2>1, <1>3 DEF LayoutTypeOK, Progress
  <2>4. Chain'
    BY <2>1, <1>3 DEF Chain, EndOf
  <2>5. Room'
    BY <2>1 DEF Room
  <2> QED BY <2>2, <2>3, <2>4, <2>5
<1>8. CASE Finish
  <2>1. /\ UNCHANGED <<kind, type, attempt, block, space, placed, stack>>
        /\ pc = "placing" /\ pc' = "made" /\ Len(placed) = Len(Parts)
    BY <1>8 DEF Finish
  <2>2. LayoutTypeOK'
    BY <2>1 DEF LayoutTypeOK
  <2>3. Progress'
    BY <2>1, <1>3 DEF Progress
  <2>4. Chain' /\ Room'
    BY <2>1, <1>3 DEF Chain, Room, EndOf
  <2> QED BY <2>2, <2>3, <2>4
<1>9. CASE UNCHANGED layout
  <2>1. UNCHANGED <<kind, type, attempt, block, space, placed, stack, pc>>
    BY <1>9 DEF layout
  <2>2. LayoutTypeOK' /\ Progress'
    BY <2>1, <1>3 DEF LayoutTypeOK, Progress
  <2>3. Chain' /\ Room'
    BY <2>1, <1>3 DEF Chain, Room, EndOf
  <2> QED BY <2>2, <2>3
<1> QED BY <1>5, <1>6, <1>7, <1>8, <1>9 DEF LayoutNext

LEMMA LayoutInductive == LayoutSpec => []LayoutInv
BY InitLayout, NextLayout, PTL DEF LayoutSpec

(***************************************************************************)
(* What follows.                                                           *)
(***************************************************************************)

\* The allocator's variables keep their types: in particular it makes at
\* most two attempts, and the space left in a block is never negative.
THEOREM TypeCorrect == LayoutSpec => []LayoutTypeOK
<1>1. LayoutInv => LayoutTypeOK
  BY DEF LayoutInv
<1> QED BY <1>1, LayoutInductive, PTL

\* A block that is given up is popped, also before luaL_error.
THEOREM OneUserdataLeft == LayoutSpec => []OneUserdata
<1>1. LayoutInv => OneUserdata
  BY DEF LayoutInv, Progress, OneUserdata
<1> QED BY <1>1, LayoutInductive, PTL

\* Every part is aligned, inside the block, and behind the part before it,
\* whatever lua_newuserdata returns.
THEOREM PartsSound == LayoutSpec => []PartsAreSound
<1>1. LayoutInv => PartsAreSound
  <2> SUFFICES ASSUME LayoutInv, NEW i \in DOMAIN placed
               PROVE  /\ UseAlignment => placed[i] % Parts[i].align = 0
                      /\ placed[i] >= block.at
                      /\ placed[i] + Parts[i].size <= block.at + block.size
                      /\ i > 1 => placed[i] >= placed[i - 1] + Parts[i - 1].size
    BY DEF PartsAreSound
  <2> USE DEF LayoutInv
  <2>1. Parts \in Seq(Rooms) /\ placed \in Seq(Nat) /\ block.at \in Nat
    BY PartsType DEF LayoutTypeOK
  <2>2. i \in 1 .. Len(placed) /\ i \in 1 .. Len(Parts)
    BY <2>1, PartsType DEF LayoutTypeOK, Progress
  <2>3. EndOf(i) = placed[i] + Parts[i].size
    BY <2>2 DEF EndOf
  <2>4. EndOf(i - 1) \in Nat /\ block.at <= EndOf(i - 1)
    <3>1. CASE i = 1
      BY <3>1, <2>1 DEF EndOf
    <3>2. CASE i # 1
      <4>1. i - 1 \in 1 .. Len(placed) /\ i - 1 \in 1 .. Len(Parts)
        BY <3>2, <2>1, <2>2
      <4>2. block.at <= EndOf(i - 1)
        BY <4>1 DEF Chain
      <4>3. placed[i - 1] \in Nat /\ Parts[i - 1] \in Rooms
        BY <4>1, <2>1
      <4>4. placed[i - 1] \in Nat /\ Parts[i - 1].size \in Nat
        BY <4>3 DEF Rooms
      <4>5. EndOf(i - 1) = placed[i - 1] + Parts[i - 1].size
        BY <4>1 DEF EndOf
      <4> QED BY <4>2, <4>4, <4>5
    <3> QED BY <3>1, <3>2
  <2>5. Parts[i] \in Rooms
    BY <2>1, <2>2
  <2>6. placed[i] = EndOf(i - 1) +
            (IF UseAlignment THEN Padding(Parts[i].align, EndOf(i - 1)) ELSE 0)
    BY <2>2 DEF Chain
  <2>7. /\ Padding(Parts[i].align, EndOf(i - 1)) \in Nat
        /\ (EndOf(i - 1) + Padding(Parts[i].align, EndOf(i - 1))) % Parts[i].align = 0
    BY <2>4, <2>5, PaddingType, PaddingAligns DEF Rooms
  <2>8. placed[i] >= EndOf(i - 1) /\ placed[i] \in Nat
    BY <2>4, <2>6, <2>7
  <2>9. UseAlignment => placed[i] % Parts[i].align = 0
    BY <2>6, <2>7
  <2>10. placed[i] >= block.at
    BY <2>1, <2>4, <2>8
  <2>11. placed[i] + Parts[i].size <= block.at + block.size
    BY <2>2, <2>3 DEF Chain
  <2>12. i > 1 => placed[i] >= placed[i - 1] + Parts[i - 1].size
    BY <2>2, <2>8 DEF EndOf
  <2> QED BY <2>9, <2>10, <2>11, <2>12
<1> QED BY <1>1, LayoutInductive, PTL

\* The readers of a block find what the allocator placed, unless alignment
\* is turned off (where they do not: the run layout_unaligned).
THEOREM ReadersAgree == UseAlignment => (LayoutSpec => []ReadersFindParts)
<1> SUFFICES ASSUME UseAlignment PROVE LayoutSpec => []ReadersFindParts
  OBVIOUS
<1>1. LayoutInv => ReadersFindParts
  <2> SUFFICES ASSUME LayoutInv, pc = "made", NEW i \in DOMAIN Found(block.at)
               PROVE  Found(block.at)[i] = placed[i]
    BY DEF ReadersFindParts
  <2> USE DEF LayoutInv
  <2> DEFINE p == block.at
  <2>1. kind \in Kinds /\ Len(placed) = Len(Parts)
    BY DEF LayoutTypeOK, Progress
  <2>2. \A j \in 1 .. Len(Parts) :
            placed[j] = EndOf(j - 1) + Padding(Parts[j].align, EndOf(j - 1))
    BY <2>1 DEF Chain
  <2>3. CASE kind = "value"
    <3>1. Parts = <<Pointer, type>>
      BY <2>3 DEF Parts
    <3>2. placed[1] = align(Pointer, p)
      BY <3>1, <2>2 DEF EndOf, align
    <3>3. Found(p) = <<align(Pointer, p)>>
      BY <2>3 DEF Found, align_usertype_pointer, Realign
    <3> QED BY <3>2, <3>3
  <2>4. CASE kind = "pointer"
    <3>1. Parts = <<Pointer>>
      BY <2>4 DEF Parts
    <3>2. placed[1] = align(Pointer, p)
      BY <3>1, <2>2 DEF EndOf, align
    <3>3. Found(p) = <<align(Pointer, p)>>
      BY <2>4 DEF Found, align_usertype_pointer, Realign
    <3> QED BY <3>2, <3>3
  <2>5. CASE kind = "user"
    <3>1. Parts = <<type>>
      BY <2>5 DEF Parts
    <3>2. placed[1] = align(type, p)
      BY <3>1, <2>2 DEF EndOf, align
    <3>3. Found(p) = <<align(type, p)>>
      BY <2>5 DEF Found, align_user, Realign
    <3> QED BY <3>2, <3>3
  <2>6. CASE kind = "unique"
    <3>1. Parts = <<Pointer, Pointer, Pointer, type>>
      BY <2>6 DEF Parts
    <3>2. placed[1] = align(Pointer, p)
      BY <3>1, <2>2 DEF EndOf, align
    <3>3. placed[2] = align(Pointer, placed[1] + Pointer.size)
      BY <3>1, <2>2 DEF EndOf, align
    <3>4. placed[3] = align(Pointer, placed[2] + Pointer.size)
      BY <3>1, <2>2 DEF EndOf, align
    <3>5. placed[4] = align(type, placed[3] + Pointer.size)
      BY <3>1, <2>2 DEF EndOf, align
    <3>6. placed[1] = align_usertype_pointer(p)
      BY <3>2 DEF align_usertype_pointer, Realign
    <3>7. placed[2] = align_usertype_unique_destructor(p)
      BY <3>3, <3>6 DEF align_usertype_unique_destructor
    <3>8. placed[3] = align_usertype_unique_tag(p)
      BY <3>4, <3>7 DEF align_usertype_unique_tag, Realign
    <3>9. placed[4] = align_usertype_unique(p)
      BY <3>5, <3>8 DEF align_usertype_unique, Realign
    <3>10. Found(p) =
             <<align_usertype_pointer(p), align_usertype_unique_destructor(p),
               align_usertype_unique_tag(p), align_usertype_unique(p)>>
      BY <2>6 DEF Found
    <3> QED BY <3>6, <3>7, <3>8, <3>9, <3>10
  <2> QED BY <2>1, <2>3, <2>4, <2>5, <2>6 DEF Kinds
<1> QED BY <1>1, LayoutInductive, PTL

(***************************************************************************)
(* A block that is aligned for all its parts: the parts lie where they     *)
(* would from address 0 on, for which the first size was computed.         *)
(***************************************************************************)

LEMMA ModUnique ==
    ASSUME NEW a \in Nat \ {0}, NEW k \in Nat, NEW r \in 0 .. a - 1
    PROVE  (a * k + r) % a = r
<1> DEFINE x == a * k + r
           m == x \div a
           d == k - m
<1>0. a * k \in Nat
  OBVIOUS
<1>1. x \in Nat
  BY <1>0
<1>2. x = a * m + (x % a) /\ m \in Int /\ x % a \in 0 .. a - 1
  <2> HIDE DEF x
  <2> QED BY <1>1
<1>3. a * d = (x % a) - r
  <2>1. a * (k - m) = a * k - a * m
    BY <1>2
  <2>2. a * k \in Int /\ a * m \in Int
    BY <1>2
  <2> QED BY <2>1, <2>2, <1>2
<1>4. d \in Int
  BY <1>2
<1>5. ~(d >= 1)
  <2> SUFFICES ASSUME d >= 1 PROVE FALSE
    OBVIOUS
  <2>1. a * d >= a
    <3> HIDE DEF d
    <3> QED BY <1>4
  <2> QED BY <2>1, <1>2, <1>3
<1>6. ~(d <= -1)
  <2> SUFFICES ASSUME d <= -1 PROVE FALSE
    OBVIOUS
  <2>1. a * d <= -a
    <3> HIDE DEF d
    <3> QED BY <1>4
  <2> QED BY <2>1, <1>2, <1>3
<1>7. d = 0
  BY <1>4, <1>5, <1>6
<1> QED BY <1>2, <1>3, <1>7

\* A multiple of the alignment does not change the padding.
LEMMA PaddingShift ==
    ASSUME NEW a \in Nat \ {0}, NEW at \in Nat, NEW p \in Nat, at % a = 0
    PROVE  Padding(a, at + p) = Padding(a, p)
<1> DEFINE q == at \div a
           k == p \div a
           r == p % a
<1>1. at = a * q /\ q \in Nat
  <2>1. at = a * (at \div a) + (at % a)
    OBVIOUS
  <2>2. at \div a \in Nat
    OBVIOUS
  <2> QED BY <2>1, <2>2
<1>2. p = a * k + r /\ k \in Nat /\ r \in 0 .. a - 1
  <2>1. p = a * (p \div a) + (p % a)
    OBVIOUS
  <2>2. p \div a \in Nat
    OBVIOUS
  <2> QED BY <2>1, <2>2
<1> HIDE DEF q, k, r
<1>3. at + p = a * (q + k) + r
  <2>1. a * (q + k) = a * q + a * k
    BY <1>1, <1>2
  <2>2. a * q \in Nat /\ a * k \in Nat
    BY <1>1, <1>2
  <2> QED BY <2>1, <2>2, <1>1, <1>2
<1>4. (at + p) % a = r
  <2>1. q + k \in Nat
    BY <1>1, <1>2
  <2> QED BY <2>1, <1>2, <1>3, ModUnique
<1> QED BY <1>4 DEF Padding, r

\* The second size is computed from address 1, the worst there is.
LEMMA PaddingOne ==
    ASSUME NEW a \in Nat \ {0}, NEW p \in Nat
    PROVE  Padding(a, p) <= Padding(a, 1)
<1>1. Padding(a, 1) = a - 1
  <2>1. CASE a = 1
    BY <2>1 DEF Padding
  <2>2. CASE a # 1
    <3>1. 1 % a = 1 /\ (a - 1) % a = a - 1
      BY <2>2
    <3> QED BY <3>1 DEF Padding
  <2> QED BY <2>1, <2>2
<1> QED BY <1>1, PaddingType

\* Where a part that starts at p or after it ends, with alignment or without.
Beyond(part, p) == IF UseAlignment THEN align_one(part, p) ELSE p + part.size

LEMMA BeyondType ==
    ASSUME NEW part \in Rooms, NEW p \in Nat
    PROVE  Beyond(part, p) \in Nat /\ Beyond(part, p) > p
BY AlignType DEF Beyond, Rooms

LEMMA BeyondShift ==
    ASSUME NEW part \in Rooms, NEW at \in Nat, NEW p \in Nat,
           UseAlignment => at % part.align = 0
    PROVE  Beyond(part, at + p) = at + Beyond(part, p)
<1>1. part.align \in Nat \ {0} /\ part.size \in Nat
  BY DEF Rooms
<1>2. CASE UseAlignment
  <2>1. Padding(part.align, at + p) = Padding(part.align, p) /\ Padding(part.align, p) \in Nat
    BY <1>1, <1>2, PaddingShift, PaddingType
  <2> QED BY <1>1, <1>2, <2>1 DEF Beyond, align_one, align
<1>3. CASE ~UseAlignment
  BY <1>1, <1>3 DEF Beyond
<1> QED BY <1>2, <1>3

\* Where the parts end in a block at address 0.
End1 == Beyond(Parts[1], 0)
End2 == Beyond(Parts[2], End1)
End3 == Beyond(Parts[3], End2)
End4 == Beyond(Parts[4], End3)
EndAt(i) == IF i = 0 THEN 0 ELSE IF i = 1 THEN End1 ELSE IF i = 2 THEN End2
            ELSE IF i = 3 THEN End3 ELSE End4

LEMMA EndAtType ==
    ASSUME kind \in Kinds, type \in Types
    PROVE  /\ EndAt(0) = 0
           /\ \A i \in 1 .. Len(Parts) :
                 /\ EndAt(i) = Beyond(Parts[i], EndAt(i - 1))
                 /\ EndAt(i) \in Nat /\ EndAt(i - 1) \in Nat
                 /\ EndAt(i) <= EndAt(Len(Parts))
<1>1. Parts \in Seq(Rooms)
  BY PartsType
<1>2. PICK n \in 1 .. 4 : n = Len(Parts)
  BY PartsType
<1>3. \A i \in 1 .. n : Parts[i] \in Rooms
  BY <1>1, <1>2
<1>4. End1 \in Nat
  <2>1. Parts[1] \in Rooms
    BY <1>3
  <2> QED BY <2>1, BeyondType DEF End1
<1>5. n >= 2 => End2 \in Nat /\ End1 <= End2
  <2>1. n >= 2 => Parts[2] \in Rooms
    BY <1>3
  <2> QED BY <2>1, <1>4, BeyondType DEF End2
<1>6. n >= 3 => End3 \in Nat /\ End2 <= End3
  <2>1. n >= 3 => Parts[3] \in Rooms
    BY <1>3
  <2> QED BY <2>1, <1>5, BeyondType DEF End3
<1>7. n >= 4 => End4 \in Nat /\ End3 <= End4
  <2>1. n >= 4 => Parts[4] \in Rooms
    BY <1>3
  <2> QED BY <2>1, <1>6, BeyondType DEF End4
<1>8. /\ EndAt(0) = 0 /\ EndAt(1) = End1 /\ EndAt(2) = End2
      /\ EndAt(3) = End3 /\ EndAt(4) = End4
  BY DEF EndAt
<1>9. ASSUME NEW i \in 1 .. n
      PROVE  /\ EndAt(i) = Beyond(Parts[i], EndAt(i - 1))
             /\ EndAt(i) \in Nat /\ EndAt(i - 1) \in Nat
             /\ EndAt(i) <= EndAt(n)
  <2>1. CASE i = 1
    <3>1. EndAt(i - 1) = 0 /\ EndAt(i) = End1 /\ End1 = Beyond(Parts[i], 0)
      BY <2>1, <1>8 DEF End1
    <3>2. End1 <= EndAt(n)
      BY <1>4, <1>5, <1>6, <1>7, <1>8
    <3> QED BY <3>1, <3>2, <1>4
  <2>2. CASE i = 2
    <3>1. EndAt(i - 1) = End1 /\ EndAt(i) = End2 /\ End2 = Beyond(Parts[i], End1)
      BY <2>2, <1>8 DEF End2
    <3>2. End2 <= EndAt(n)
      BY <2>2, <1>5, <1>6, <1>7, <1>8
    <3> QED BY <2>2, <3>1, <3>2, <1>4, <1>5
  <2>3. CASE i = 3
    <3>1. EndAt(i - 1) = End2 /\ EndAt(i) = End3 /\ End3 = Beyond(Parts[i], End2)
      BY <2>3, <1>8 DEF End3
    <3>2. End3 <= EndAt(n)
      BY <2>3, <1>6, <1>7, <1>8
    <3> QED BY <2>3, <3>1, <3>2, <1>5, <1>6
  <2>4. CASE i = 4
    <3>1. EndAt(i - 1) = End3 /\ EndAt(i) = End4 /\ End4 = Beyond(Parts[i], End3)
      BY <2>4, <1>8 DEF End4
    <3>2. End4 <= EndAt(n)
      BY <2>4, <1>7, <1>8
    <3> QED BY <2>4, <3>1, <3>2, <1>6, <1>7
  <2>5. i \in {1, 2, 3, 4}
    OBVIOUS
  <2> QED BY <2>1, <2>2, <2>3, <2>4, <2>5
<1> QED BY <1>2, <1>8, <1>9

\* initial_size is where the last part ends.
LEMMA FirstSize ==
    ASSUME kind \in Kinds, type \in Types
    PROVE  size_for(1) = EndAt(Len(Parts))
<1>1. type \in Rooms /\ Pointer \in Rooms
  BY LayoutAssumption DEF Rooms
<1>2. type.size \in Nat /\ Pointer.size \in Nat
  BY <1>1 DEF Rooms
<1>3. \A part \in Rooms, p \in Nat : align_one(part, p) \in Nat
  BY AlignType
<1>4. size_for(1) = IF UseAlignment THEN aligned_space_for(0) ELSE unaligned_space
  BY DEF size_for
<1>5. CASE kind = "value"
  <2>1. Parts = <<Pointer, type>>
    BY <1>5 DEF Parts
  <2>2. EndAt(Len(Parts)) = Beyond(type, Beyond(Pointer, 0))
    BY <2>1 DEF EndAt, End1, End2
  <2>3. aligned_space_for(0) = align_one(type, align_one(Pointer, 0))
    BY <1>1, <1>3, <1>5 DEF aligned_space_for
  <2> QED BY <1>2, <1>4, <1>5, <2>2, <2>3 DEF Beyond, unaligned_space
<1>6. CASE kind = "pointer"
  <2>1. Parts = <<Pointer>>
    BY <1>6 DEF Parts
  <2>2. EndAt(Len(Parts)) = Beyond(Pointer, 0)
    BY <2>1 DEF EndAt, End1
  <2>3. aligned_space_for(0) = align_one(Pointer, 0)
    BY <1>1, <1>3, <1>6 DEF aligned_space_for
  <2> QED BY <1>2, <1>4, <1>6, <2>2, <2>3 DEF Beyond, unaligned_space
<1>7. CASE kind = "unique"
  <2>1. Parts = <<Pointer, Pointer, Pointer, type>>
    BY <1>7 DEF Parts
  <2>2. EndAt(Len(Parts)) = Beyond(type, Beyond(Pointer, Beyond(Pointer, Beyond(Pointer, 0))))
    BY <2>1 DEF EndAt, End1, End2, End3, End4
  <2>3. aligned_space_for(0) =
            align_one(type, align_one(Pointer, align_one(Pointer, align_one(Pointer, 0))))
    BY <1>1, <1>3, <1>7 DEF aligned_space_for
  <2> QED BY <1>2, <1>4, <1>7, <2>2, <2>3 DEF Beyond, unaligned_space
<1>8. CASE kind = "user"
  <2>1. Parts = <<type>>
    BY <1>8 DEF Parts
  <2>2. EndAt(Len(Parts)) = Beyond(type, 0)
    BY <2>1 DEF EndAt, End1
  <2>3. aligned_space_for(0) = align_one(type, 0)
    BY <1>1, <1>3, <1>8 DEF aligned_space_for
  <2> QED BY <1>2, <1>4, <1>8, <2>2, <2>3 DEF Beyond, unaligned_space
<1> QED BY <1>5, <1>6, <1>7, <1>8 DEF Kinds

\* misaligned_size of a userdata of one part, at any address.
LEMMA SecondSize ==
    ASSUME kind \in Kinds, type \in Types, Len(Parts) = 1, NEW p \in Nat
    PROVE  Beyond(Parts[1], p) <= p + size_for(2)
<1>0. Parts \in Seq(Rooms) /\ 1 \in 1 .. Len(Parts)
  BY PartsType
<1>1. Parts[1] \in Rooms
  BY <1>0
<1>2. (kind = "pointer" /\ Parts[1] = Pointer) \/ (kind = "user" /\ Parts[1] = type)
  <2>1. kind = "value" => Len(Parts) = 2
    BY DEF Parts
  <2>2. kind = "unique" => Len(Parts) = 4
    BY DEF Parts
  <2>3. kind = "pointer" => Parts[1] = Pointer
    BY DEF Parts
  <2>4. kind = "user" => Parts[1] = type
    BY DEF Parts
  <2>5. kind # "value" /\ kind # "unique"
    BY <2>1, <2>2
  <2> QED BY <2>3, <2>4, <2>5 DEF Kinds
<1>3. /\ Parts[1].size \in Nat /\ Padding(Parts[1].align, 1) \in Nat
      /\ Padding(Parts[1].align, p) \in Nat
      /\ Padding(Parts[1].align, p) <= Padding(Parts[1].align, 1)
  BY <1>1, PaddingType, PaddingOne DEF Rooms
<1>4. aligned_space_for(1) = align_one(Parts[1], 1) - 1
  BY <1>2 DEF aligned_space_for
<1>5. unaligned_space = Parts[1].size
  BY <1>2 DEF unaligned_space
<1>6. CASE UseAlignment
  <2>0. size_for(2) = aligned_space_for(1)
    BY <1>6 DEF size_for
  <2>1. size_for(2) = 1 + Padding(Parts[1].align, 1) + Parts[1].size - 1
    BY <1>4, <2>0, <1>3 DEF align_one, align
  <2>2. Beyond(Parts[1], p) = p + Padding(Parts[1].align, p) + Parts[1].size
    BY <1>6 DEF Beyond, align_one, align
  <2> QED BY <1>3, <2>1, <2>2
<1>7. CASE ~UseAlignment
  BY <1>3, <1>5, <1>7 DEF Beyond, size_for
<1> QED BY <1>6, <1>7

\* The block was asked for with the size of the attempt.
BlockSized == pc \in {"placing", "retry", "made", "error"} =>
                  block.size = size_for(attempt)

\* The first block was given up for an address that is wrong for some part, the
\* second for a userdata of several.
GivenUpWithReason ==
    /\ pc = "retry" => UseAlignment /\ \E i \in DOMAIN Parts : block.at % Parts[i].align # 0
    /\ pc = "error" => Len(Parts) > 1

\* In a block that is right for each part, a part ends where it would from 0 on.
LEMMA EndShift ==
    ASSUME LayoutInv, \A i \in DOMAIN Parts : UseAlignment => block.at % Parts[i].align = 0
    PROVE  \A i \in 0 .. Len(placed) : EndOf(i) = block.at + EndAt(i)
<1> USE DEF LayoutInv
<1>0. kind \in Kinds /\ type \in Types /\ block.at \in Nat
  BY DEF LayoutTypeOK
<1>1. PICK n \in 0 .. 4 : n = Len(placed) /\ n <= Len(Parts)
  <2>1. PICK m \in 1 .. 4 : m = Len(Parts)
    BY <1>0, PartsType
  <2>2. PICK k \in Nat : k = Len(placed)
    BY DEF LayoutTypeOK
  <2>3. k <= m
    BY <2>1, <2>2 DEF Progress
  <2>4. k \in 0 .. 4
    BY <2>1, <2>2, <2>3
  <2> QED BY <2>1, <2>2, <2>3, <2>4
<1>2. EndOf(0) = block.at + EndAt(0)
  BY <1>0 DEF EndOf, EndAt
<1>3. ASSUME NEW i \in 1 .. n, EndOf(i - 1) = block.at + EndAt(i - 1)
      PROVE  EndOf(i) = block.at + EndAt(i)
  <2>1. Parts \in Seq(Rooms) /\ i \in 1 .. Len(Parts)
    BY <1>0, <1>1, PartsType
  <2>2. Parts[i] \in Rooms /\ i \in DOMAIN Parts
    BY <2>1
  <2>3. EndAt(i - 1) \in Nat /\ EndAt(i) = Beyond(Parts[i], EndAt(i - 1))
    BY <2>1, <1>0, EndAtType
  <2>4. placed[i] = EndOf(i - 1) +
            (IF UseAlignment THEN Padding(Parts[i].align, EndOf(i - 1)) ELSE 0)
    BY <1>1 DEF Chain
  <2>5. EndOf(i) = placed[i] + Parts[i].size
    BY DEF EndOf
  <2>6. EndOf(i) = Beyond(Parts[i], EndOf(i - 1))
    <3>1. EndOf(i - 1) \in Nat
      BY <1>0, <1>3, <2>3
    <3> QED BY <3>1, <2>4, <2>5 DEF Beyond, align_one, align
  <2>7. Beyond(Parts[i], block.at + EndAt(i - 1)) = block.at + Beyond(Parts[i], EndAt(i - 1))
    BY <1>0, <2>2, <2>3, BeyondShift
  <2> QED BY <1>3, <2>3, <2>6, <2>7
<1>4. n >= 1 => EndOf(1) = block.at + EndAt(1)
  <2>1. n >= 1 => 1 \in 1 .. n /\ 1 - 1 = 0
    OBVIOUS
  <2> QED BY <2>1, <1>2, <1>3
<1>5. n >= 2 => EndOf(2) = block.at + EndAt(2)
  <2>1. n >= 2 => 2 \in 1 .. n /\ 2 - 1 = 1
    OBVIOUS
  <2> QED BY <2>1, <1>3, <1>4
<1>6. n >= 3 => EndOf(3) = block.at + EndAt(3)
  <2>1. n >= 3 => 3 \in 1 .. n /\ 3 - 1 = 2
    OBVIOUS
  <2> QED BY <2>1, <1>3, <1>5
<1>7. n >= 4 => EndOf(4) = block.at + EndAt(4)
  <2>1. n >= 4 => 4 \in 1 .. n /\ 4 - 1 = 3
    OBVIOUS
  <2> QED BY <2>1, <1>3, <1>6
<1>8. \A i \in 0 .. n : i \in {0, 1, 2, 3, 4}
  OBVIOUS
<1> QED BY <1>1, <1>2, <1>4, <1>5, <1>6, <1>7, <1>8

\* What the next part needs, counted from where the last one ends.
LEMMA NeedIs ==
    ASSUME LayoutInv, pc = "placing", Len(placed) < Len(Parts)
    PROVE  /\ Part \in Rooms /\ Need \in Nat
           /\ EndOf(Len(placed)) \in Nat
           /\ EndOf(Len(placed)) + Need = Beyond(Part, EndOf(Len(placed)))
<1>1. /\ Cursor = EndOf(Len(placed)) /\ Cursor \in Nat
      /\ Part \in Rooms /\ Waste \in Nat
  BY CursorType
<1>2. Part.size \in Nat
  BY <1>1 DEF Rooms
<1>3. CASE UseAlignment
  BY <1>1, <1>2, <1>3 DEF Need, Waste, Beyond, align_one, align
<1>4. CASE ~UseAlignment
  BY <1>1, <1>2, <1>4 DEF Need, Waste, Beyond
<1> QED BY <1>1, <1>2, <1>3, <1>4 DEF Need

\* The first block is given up only for its address.
LEMMA FirstFits ==
    ASSUME LayoutInv, BlockSized, DoesNotFit, attempt = 1
    PROVE  UseAlignment /\ \E i \in DOMAIN Parts : block.at % Parts[i].align # 0
<1> SUFFICES ASSUME \A i \in DOMAIN Parts : UseAlignment => block.at % Parts[i].align = 0
             PROVE  FALSE
  <2>1. CASE UseAlignment
    BY <2>1
  <2>2. CASE ~UseAlignment
    BY <2>2
  <2> QED BY <2>1, <2>2
<1>0. /\ kind \in Kinds /\ type \in Types /\ block.at \in Nat
      /\ space \in Nat /\ Len(placed) \in Nat
  BY DEF LayoutInv, LayoutTypeOK
<1>1. pc = "placing" /\ Len(placed) < Len(Parts) /\ space < Need
  BY DEF DoesNotFit
<1>2. PICK n \in 1 .. 4 : n = Len(Parts)
  BY <1>0, PartsType
<1>3. PICK k \in 0 .. 3 : k = Len(placed)
  <2>1. PICK j \in Nat : j = Len(placed)
    BY <1>0
  <2>2. j < n
    BY <1>1, <1>2, <2>1
  <2>3. j \in 0 .. 3
    BY <2>1, <2>2
  <2> QED BY <2>1, <2>3
<1>4. k + 1 \in 1 .. n /\ (k + 1) - 1 = k
  BY <1>1, <1>2, <1>3
<1>5. /\ EndAt(k) \in Nat /\ EndAt(k + 1) \in Nat /\ EndAt(n) \in Nat
      /\ EndAt(k + 1) = Beyond(Parts[k + 1], EndAt(k))
      /\ EndAt(k + 1) <= EndAt(n)
  BY <1>0, <1>2, <1>4, EndAtType, SMTT(40)
<1>6. EndOf(k) = block.at + EndAt(k)
  BY <1>3, EndShift
<1>7. Part = Parts[k + 1] /\ k + 1 \in DOMAIN Parts
  <2>1. Parts \in Seq(Rooms)
    BY <1>0, PartsType
  <2> QED BY <2>1, <1>2, <1>3, <1>4 DEF Part
<1>8. Part \in Rooms /\ Need \in Nat /\ EndOf(k) + Need = Beyond(Part, EndOf(k))
  BY <1>1, <1>3, NeedIs
<1>9. EndOf(k) + Need = block.at + EndAt(k + 1)
  BY <1>0, <1>5, <1>6, <1>7, <1>8, BeyondShift
<1>10. block.size = EndAt(n)
  <2>1. size_for(1) = EndAt(n)
    BY <1>0, <1>2, FirstSize
  <2> QED BY <2>1, <1>1 DEF BlockSized
<1>11. space = block.at + block.size - EndOf(k)
  BY <1>1, <1>3 DEF LayoutInv, Room
<1>12. EndOf(k) \in Nat
  BY <1>0, <1>5, <1>6
<1> QED BY <1>0, <1>1, <1>5, <1>8, <1>9, <1>10, <1>11, <1>12, SMTT(40)

\* A userdata of one part fits in the second block wherever that lies.
LEMMA SecondFits ==
    ASSUME LayoutInv, BlockSized, DoesNotFit, attempt = 2
    PROVE  Len(Parts) > 1
<1> SUFFICES ASSUME Len(Parts) = 1 PROVE FALSE
  <2>1. Len(Parts) \in 1 .. 4
    BY PartsType DEF LayoutInv, LayoutTypeOK
  <2> QED BY <2>1
<1>0. /\ kind \in Kinds /\ type \in Types /\ block.at \in Nat
      /\ space \in Nat /\ Len(placed) \in Nat
  BY DEF LayoutInv, LayoutTypeOK
<1>1. pc = "placing" /\ Len(placed) = 0 /\ space < Need
  BY <1>0 DEF DoesNotFit
<1>2. Part = Parts[1]
  BY <1>1 DEF Part
<1>3. EndOf(Len(placed)) = block.at
  BY <1>1 DEF EndOf
<1>4. Need \in Nat /\ block.at + Need = Beyond(Parts[1], block.at)
  BY <1>1, <1>2, <1>3, NeedIs
<1>5. Beyond(Parts[1], block.at) <= block.at + size_for(2)
  BY <1>0, SecondSize
<1>6. space = block.at + size_for(2) - block.at
  BY <1>1, <1>3 DEF LayoutInv, Room, BlockSized
<1>7. size_for(2) \in Nat
  BY <1>0, SizeType
<1> QED BY <1>0, <1>1, <1>4, <1>5, <1>6, <1>7

LEMMA ReasonsInductive == LayoutSpec => [](BlockSized /\ GivenUpWithReason)
<1>1. LayoutInit => BlockSized /\ GivenUpWithReason
  BY DEF LayoutInit, BlockSized, GivenUpWithReason
<1>2. /\ LayoutInv /\ BlockSized /\ GivenUpWithReason /\ [LayoutNext]_layout
      => BlockSized' /\ GivenUpWithReason'
  <2> SUFFICES ASSUME LayoutInv, BlockSized, GivenUpWithReason, [LayoutNext]_layout
               PROVE  BlockSized' /\ GivenUpWithReason'
    OBVIOUS
  <2>1. kind' = kind /\ type' = type
    BY DEF LayoutNext, lua_newuserdata, Place, DoesNotFit, Finish, layout
  <2>2. Parts' = Parts /\ \A n : size_for(n)' = size_for(n)
    BY <2>1 DEF Parts, size_for, aligned_space_for, unaligned_space
  <2>3. CASE lua_newuserdata
    <3>1. pc' = "placing" /\ block'.size = size_for(attempt')
      BY <2>3 DEF lua_newuserdata
    <3> QED BY <3>1, <2>2 DEF BlockSized, GivenUpWithReason, size_for,
                              aligned_space_for, unaligned_space
  <2>4. CASE Place \/ Finish
    BY <2>2, <2>4 DEF Place, Finish, BlockSized, GivenUpWithReason
  <2>5. CASE DoesNotFit
    <3>1. /\ pc = "placing" /\ UNCHANGED <<attempt, block>>
          /\ pc' = IF attempt = 1 THEN "retry" ELSE "error"
      BY <2>5 DEF DoesNotFit
    <3>2. attempt \in 1 .. 2
      BY <3>1 DEF LayoutInv, Progress
    <3>3. BlockSized'
      BY <3>1, <2>2 DEF BlockSized
    <3>4. CASE attempt = 1
      <4>1. UseAlignment /\ \E i \in DOMAIN Parts : block.at % Parts[i].align # 0
        BY <3>4, <2>5, FirstFits
      <4>2. pc' = "retry" /\ block' = block /\ Parts' = Parts
        BY <3>1, <3>4, <2>2
      <4> QED BY <3>3, <4>1, <4>2 DEF GivenUpWithReason
    <3>5. CASE attempt = 2
      <4>1. Len(Parts) > 1
        BY <3>5, <2>5, SecondFits
      <4>2. pc' = "error" /\ block' = block /\ Parts' = Parts
        BY <3>1, <3>5, <2>2
      <4> QED BY <3>3, <4>1, <4>2 DEF GivenUpWithReason
    <3> QED BY <3>2, <3>3, <3>4, <3>5
  <2>6. CASE UNCHANGED layout
    BY <2>2, <2>6 DEF layout, BlockSized, GivenUpWithReason
  <2> QED BY <2>3, <2>4, <2>5, <2>6 DEF LayoutNext
<1> QED BY <1>1, <1>2, LayoutInductive, PTL DEF LayoutSpec

\* A first block that is aligned for each part is never given up, without
\* alignment no block is, and a userdata of a single part is always made:
\* initial_size and misaligned_size are what the walk through the block needs.
THEOREM AlignedBlocksAreEnough == LayoutSpec => []AlignedBlocksSuffice
<1>1. GivenUpWithReason => AlignedBlocksSuffice
  BY DEF GivenUpWithReason, AlignedBlocksSuffice
<1> QED BY <1>1, ReasonsInductive, PTL
=============================================================================

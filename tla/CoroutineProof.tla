---------------------------- MODULE CoroutineProof ----------------------------
(***************************************************************************)
(* What Coroutine promises for any number of objects, results, runs, calls *)
(* and values, as long as the program destroys the results of a call       *)
(* before it makes the next one, and asks typed calls for as many values   *)
(* as come.                                                                *)
(***************************************************************************)
EXTENDS Coroutine, SequenceTheorems, TLAPS

Statuses == {"yielded", "ok", "runtime"}
AllForeign(s) == \A i \in DOMAIN s : s[i] = Foreign

-----------------------------------------------------------------------------
(* The inductive invariant.                                                *)

\* What lies below a frame that yielded is what lay there when its run began,
\* and no call left any of it.
ThreadSound ==
    /\ mode = "suspended" => Len(hidden) = base /\ AllForeign(hidden)
    /\ mode = "idle" /\ LiveResults = {} => AllForeign(stack)

\* The object that made the last call knows how it ended.
ObjectsSound ==
    \A c \in LiveObjects :
        /\ object[c].called <= calls
        /\ object[c].called # 0 /\ object[c].called = calls =>
              (object[c].stats = "yielded" <=> mode = "suspended" /\ run = object[c].joined)

\* The mode that goes with the status of the last call.
ModeOf(status) ==
    IF status = "yielded" THEN "suspended" ELSE IF status = "ok" THEN "idle" ELSE "dead"

\* A result pops all of the stack, or nothing where there was nothing, or,
\* after a failure, as much as lay there before the handler's message.
ResultSound(r) ==
    LET res == result[r] IN
    /\ mode = ModeOf(res.status)
    /\ res.status # "runtime" =>
          /\ res.index = 1 /\ res.returncount = res.popcount
          /\ res.popcount = Len(stack) \/ (res.popcount = 0 /\ AllForeign(stack))
    /\ res.status = "runtime" =>
          /\ res.index = Len(stack) /\ res.returncount = 1
          /\ res.popcount \in 1 .. res.index
    /\ \A i \in res.index .. res.index + res.returncount - 1 :
          /\ i \in DOMAIN stack
          /\ stack[i] = res.call \/ (res.status = "ok" /\ i <= base)

ResultsSound ==
    /\ \A r, s \in LiveResults : r = s
    /\ \A r \in LiveResults : ResultSound(r)

IInv ==
    /\ TypeOK /\ ~corrupt
    /\ ThreadSound /\ ObjectsSound /\ ResultsSound

-----------------------------------------------------------------------------
(* Sequences.                                                              *)

LEMMA ConstantSeq ==
    ASSUME NEW S, NEW e \in S, NEW k \in Nat
    PROVE  /\ [i \in 1 .. k |-> e] \in Seq(S)
           /\ Len([i \in 1 .. k |-> e]) = k
           /\ \A j \in 1 .. k : [i \in 1 .. k |-> e][j] = e
<1>1. [i \in 1 .. k |-> e] \in Seq(S)
  BY SeqDef
<1> QED BY <1>1, LenProperties

LEMMA LastOfConcat ==
    ASSUME NEW S, NEW s \in Seq(S), NEW e \in S
    PROVE  /\ s \o <<e>> \in Seq(S)
           /\ Len(s \o <<e>>) = Len(s) + 1
           /\ Last(s \o <<e>>) = e
<1>1. <<e>> \in Seq(S) /\ Len(<<e>>) = 1 /\ <<e>>[1] = e
  OBVIOUS
<1> QED BY <1>1, ConcatProperties DEF Last

LEMMA PoppedProperties ==
    ASSUME NEW S, NEW s \in Seq(S), NEW n \in 0 .. Len(s)
    PROVE  /\ popped(s, n) \in Seq(S)
           /\ Len(popped(s, n)) = Len(s) - n
           /\ \A i \in 1 .. Len(s) - n : popped(s, n)[i] = s[i]
<1> DEFINE m == Len(s) - n
<1>1. m \in Nat /\ 1 \in Int /\ \A i \in 1 .. m : s[i] \in S
  BY LenProperties
<1> HIDE DEF m
<1>2. /\ SubSeq(s, 1, m) \in Seq(S)
      /\ Len(SubSeq(s, 1, m)) = IF 1 <= m THEN m - 1 + 1 ELSE 0
      /\ \A i \in 1 .. m - 1 + 1 : SubSeq(s, 1, m)[i] = s[1 + i - 1]
  BY <1>1, SubSeqProperties
<1>3. popped(s, n) = SubSeq(s, 1, m)
  BY DEF popped, m
<1>4. ASSUME NEW i \in 1 .. m PROVE popped(s, n)[i] = s[i]
  <2>1. i \in 1 .. m - 1 + 1 /\ 1 + i - 1 = i
    BY <1>1
  <2> QED BY <2>1, <1>2, <1>3
<1>5. popped(s, n) \in Seq(S) /\ Len(popped(s, n)) = m
  BY <1>1, <1>2, <1>3
<1> QED BY <1>4, <1>5 DEF m

\* A result that pops all of the stack leaves nothing.
LEMMA RemoveAll ==
    ASSUME NEW S, NEW s \in Seq(S), Len(s) > 0
    PROVE  remove(s, 1, Len(s)) = <<>>
<1>1. Len(s) \in Nat
  BY LenProperties
<1>2. SubSeq(s, 1, 0) = <<>> /\ SubSeq(s, 1 + Len(s), Len(s)) = <<>>
  BY <1>1, SubSeqEmpty
<1>3. <<>> \o <<>> = <<>>
  BY ConcatEmptySeq, EmptySeq
<1> QED BY <1>1, <1>2, <1>3 DEF remove

\* What is removed from the top leaves the rest as it was.
LEMMA RemoveType ==
    ASSUME NEW S, NEW s \in Seq(S), NEW n \in 0 .. Len(s)
    PROVE  remove(s, Len(s), n) \in Seq(S)
<1>1. Len(s) \in Nat /\ \A i \in 1 .. Len(s) - n : s[i] \in S
  BY LenProperties
<1> QED BY <1>1, SubSeqProperties DEF remove

-----------------------------------------------------------------------------
(* What lua_resume leaves.                                                 *)

\* base of the thread once it is resumed with this outcome.
BaseOf(out) == IF out.run = run THEN base ELSE Len(stack)

OutcomeSound(out) ==
    /\ out.stack \in Seq(Item) /\ out.hidden \in Seq(Item)
    /\ out.run \in 0 .. MaxRuns
    /\ out.status \in Statuses /\ out.mode = ModeOf(out.status)
    /\ out.status = "yielded" => Len(out.hidden) = BaseOf(out) /\ AllForeign(out.hidden)
    /\ out.status = "runtime" =>
          out.stack # <<>> /\ Last(out.stack) = calls + 1
    /\ out.status # "runtime" =>
          \A i \in DOMAIN out.stack :
              \/ out.stack[i] = calls + 1
              \/ out.status = "ok" /\ i <= BaseOf(out) /\ out.stack[i] = Foreign

\* The program may make a call.
MayCall ==
    /\ calls < MaxCalls /\ LiveResults = {}
    /\ mode = "idle" => run < MaxRuns

LEMMA ResumeFacts ==
    ASSUME TypeOK, MayCall
    PROVE  /\ calls + 1 \in Item /\ Foreign \in Item /\ calls + 1 \in 1 .. MaxCalls
           /\ mode # "dead" => RunNow \in 0 .. MaxRuns
           /\ Beneath \in Seq(Item)
           /\ \A k \in Nat : /\ Values(k) \in Seq(Item) /\ Len(Values(k)) = k
                              /\ \A j \in 1 .. k : Values(k)[j] = calls + 1
<1>1. calls + 1 \in Item /\ Foreign \in Item /\ calls + 1 \in 1 .. MaxCalls
  BY CoroutineAssumption DEF TypeOK, MayCall, Item
<1>2. (mode # "dead" => RunNow \in 0 .. MaxRuns) /\ Beneath \in Seq(Item)
  <2>1. /\ mode \in {"idle", "suspended", "dead"} /\ run \in 0 .. MaxRuns
        /\ stack \in Seq(Item) /\ hidden \in Seq(Item)
        /\ mode = "idle" => run < MaxRuns
        /\ MaxRuns \in Nat
    BY CoroutineAssumption DEF TypeOK, MayCall
  <2>2. Beneath \in Seq(Item)
    BY <2>1 DEF Beneath
  <2>3. mode # "dead" => RunNow \in 0 .. MaxRuns
    BY <2>1 DEF RunNow
  <2> QED BY <2>2, <2>3
<1>3. ASSUME NEW k \in Nat
      PROVE  /\ Values(k) \in Seq(Item) /\ Len(Values(k)) = k
             /\ \A j \in 1 .. k : Values(k)[j] = calls + 1
  BY <1>1, ConstantSeq DEF Values
<1> QED BY <1>1, <1>2, <1>3

\* What the thread has below a new frame is foreign to every call.
LEMMA BeneathForeign ==
    ASSUME IInv, MayCall, mode # "dead"
    PROVE  /\ AllForeign(Beneath)
           /\ Len(Beneath) = (IF RunNow = run THEN base ELSE Len(stack))
<1>1. run \in Nat
  BY CoroutineAssumption DEF IInv, TypeOK
<1>2. CASE mode = "suspended"
  BY <1>1, <1>2 DEF IInv, ThreadSound, Beneath, RunNow
<1>3. CASE mode # "suspended"
  <2>1. mode = "idle"
    BY <1>3 DEF IInv, TypeOK
  <2> QED BY <1>1, <2>1 DEF IInv, ThreadSound, MayCall, Beneath, RunNow
<1> QED BY <1>2, <1>3

LEMMA YieldedSound ==
    ASSUME IInv, MayCall, mode # "dead", NEW k \in Nat
    PROVE  OutcomeSound(Yielded(k))
<1>1. TypeOK
  BY DEF IInv
<1>2. /\ RunNow \in 0 .. MaxRuns /\ Beneath \in Seq(Item)
      /\ Values(k) \in Seq(Item) /\ Len(Values(k)) = k
      /\ \A j \in 1 .. k : Values(k)[j] = calls + 1
  BY <1>1, ResumeFacts
<1>3. DOMAIN Values(k) = 1 .. k
  BY <1>2, LenProperties
<1> QED BY <1>2, <1>3, BeneathForeign DEF OutcomeSound, Yielded, Outcome, BaseOf, ModeOf, Statuses

LEMMA ReturnedSound ==
    ASSUME IInv, MayCall, mode # "dead", NEW k \in Nat
    PROVE  OutcomeSound(Returned(k))
<1>1. TypeOK
  BY DEF IInv
<1>2. /\ RunNow \in 0 .. MaxRuns /\ Beneath \in Seq(Item)
      /\ Values(k) \in Seq(Item) /\ Len(Values(k)) = k
      /\ \A j \in 1 .. k : Values(k)[j] = calls + 1
  BY <1>1, ResumeFacts
<1> DEFINE st == Beneath \o Values(k)
<1>3. /\ st \in Seq(Item) /\ Len(st) = Len(Beneath) + k
      /\ \A i \in 1 .. Len(Beneath) + k :
             st[i] = IF i <= Len(Beneath) THEN Beneath[i] ELSE Values(k)[i - Len(Beneath)]
  <2>1. /\ st \in Seq(Item) /\ Len(st) = Len(Beneath) + Len(Values(k))
        /\ \A i \in 1 .. Len(Beneath) + Len(Values(k)) :
               st[i] = IF i <= Len(Beneath) THEN Beneath[i] ELSE Values(k)[i - Len(Beneath)]
    BY <1>2, ConcatProperties
  <2> HIDE DEF st
  <2> QED BY <2>1, <1>2
<1>4. Len(Beneath) \in Nat /\ DOMAIN Beneath = 1 .. Len(Beneath) /\ DOMAIN st = 1 .. Len(st)
  BY <1>2, <1>3, LenProperties
<1> HIDE DEF st
<1>5. ASSUME NEW i \in DOMAIN st
      PROVE  st[i] = calls + 1 \/ (i <= Len(Beneath) /\ st[i] = Foreign)
  <2>1. CASE i <= Len(Beneath)
    BY <2>1, <1>3, <1>4, BeneathForeign DEF AllForeign
  <2>2. CASE ~(i <= Len(Beneath))
    <3>1. i - Len(Beneath) \in 1 .. k
      BY <2>2, <1>3, <1>4
    <3> QED BY <3>1, <2>2, <1>2, <1>3, <1>4
  <2> QED BY <2>1, <2>2
<1>6. /\ Returned(k).stack = st /\ Returned(k).hidden = <<>> /\ Returned(k).run = RunNow
      /\ Returned(k).status = "ok" /\ Returned(k).mode = "idle"
  BY DEF Returned, Outcome, st
<1>7. BaseOf(Returned(k)) = Len(Beneath)
  BY <1>6, BeneathForeign DEF BaseOf
<1>8. <<>> \in Seq(Item)
  BY EmptySeq
<1> QED BY <1>2, <1>3, <1>5, <1>6, <1>7, <1>8 DEF OutcomeSound, ModeOf, Statuses

LEMMA FailedSound ==
    ASSUME IInv, MayCall, mode # "dead", NEW k \in Nat
    PROVE  OutcomeSound(Failed(k))
<1>1. TypeOK
  BY DEF IInv
<1>2. /\ RunNow \in 0 .. MaxRuns /\ Beneath \in Seq(Item) /\ calls + 1 \in Item
      /\ Foreign \in Item
  BY <1>1, ResumeFacts
<1>3. [i \in 1 .. k |-> Foreign] \in Seq(Item)
  BY <1>2, ConstantSeq
<1>4. Values(1) = <<calls + 1>>
  BY DEF Values
<1> DEFINE held == [i \in 1 .. k |-> Foreign]
           st == held \o Values(1)
<1>5. st \in Seq(Item) /\ Len(st) = Len(held) + 1 /\ Last(st) = calls + 1
  <2>1. st = held \o <<calls + 1>>
    BY <1>4
  <2>2. held \in Seq(Item)
    BY <1>3
  <2> HIDE DEF st, held
  <2> QED BY <2>1, <2>2, <1>2, LastOfConcat
<1>6. st # <<>>
  <2>1. Len(held) \in Nat
    BY <1>3, LenProperties
  <2> QED BY <2>1, <1>5, EmptySeq
<1>7. /\ Failed(k).stack = st /\ Failed(k).hidden = Beneath /\ Failed(k).run = RunNow
      /\ Failed(k).status = "runtime" /\ Failed(k).mode = "dead"
  BY DEF Failed, Outcome
<1> HIDE DEF st
<1> QED BY <1>2, <1>5, <1>6, <1>7 DEF OutcomeSound, ModeOf, Statuses

LEMMA RefusedSound ==
    ASSUME IInv, MayCall
    PROVE  OutcomeSound(Refused)
<1>1. TypeOK
  BY DEF IInv
<1>2. calls + 1 \in Item /\ Foreign \in Item
  BY <1>1, ResumeFacts
<1>3. Values(1) = <<calls + 1>>
  BY DEF Values
<1> DEFINE under == stack \o <<Foreign>>
           st == under \o Values(1)
<1>4. under \in Seq(Item)
  BY <1>1, <1>2, LastOfConcat DEF TypeOK
<1>5. st \in Seq(Item) /\ Len(st) = Len(under) + 1 /\ Last(st) = calls + 1
  <2>1. st = under \o <<calls + 1>>
    BY <1>3
  <2> HIDE DEF st, under
  <2> QED BY <2>1, <1>2, <1>4, LastOfConcat
<1>6. st # <<>>
  <2>1. Len(under) \in Nat
    BY <1>4, LenProperties
  <2> QED BY <2>1, <1>5, EmptySeq
<1>7. /\ Refused.stack = st /\ Refused.hidden = hidden /\ Refused.run = run
      /\ Refused.status = "runtime" /\ Refused.mode = "dead"
  BY DEF Refused
<1> HIDE DEF st
<1> QED BY <1>1, <1>5, <1>6, <1>7 DEF OutcomeSound, ModeOf, Statuses, TypeOK

\* Whatever the function does, what lua_resume leaves belongs to its run.
LEMMA OutcomesSound ==
    ASSUME IInv, MayCall, NEW ks \in SUBSET Nat, NEW out \in Outcomes(ks)
    PROVE  OutcomeSound(out)
<1>1. CASE mode = "dead"
  <2>1. out = Refused
    BY <1>1 DEF Outcomes
  <2> QED BY <2>1, RefusedSound
<1>2. CASE mode # "dead"
  <2>1. \/ \E k \in Nat : out = Yielded(k)
        \/ \E k \in Nat : out = Returned(k)
        \/ \E k \in Nat : out = Failed(k)
    BY <1>2 DEF Outcomes
  <2> QED BY <1>2, <2>1, YieldedSound, ReturnedSound, FailedSound
<1> QED BY <1>1, <1>2

-----------------------------------------------------------------------------
(* The invariant holds initially, and each action preserves it.            *)

LEMMA InitSound == Init => IInv
<1> SUFFICES ASSUME Init PROVE IInv
  OBVIOUS
<1>1. <<>> \in Seq(Item) /\ Len(<<>>) = 0
  BY EmptySeq
<1>2. LiveObjects = {} /\ LiveResults = {}
  BY DEF Init, LiveObjects, LiveResults
<1>3. TypeOK /\ ~corrupt
  <2>1. MaxRuns \in Nat /\ MaxCalls \in Nat
    BY CoroutineAssumption
  <2>2. run \in 0 .. MaxRuns /\ calls \in 0 .. MaxCalls /\ base \in Nat
    BY <2>1 DEF Init
  <2>3. object \in [Objects -> Coroutine \cup {Gone}] /\ result \in [Results -> Result \cup {Gone}]
    BY DEF Init
  <2>4. stack \in Seq(Item) /\ hidden \in Seq(Item)
    BY <1>1 DEF Init
  <2>5. mode \in {"idle", "suspended", "dead"} /\ corrupt = FALSE
    BY DEF Init
  <2> QED BY <2>2, <2>3, <2>4, <2>5 DEF TypeOK
<1>4. ThreadSound /\ ObjectsSound /\ ResultsSound
  BY <1>1, <1>2 DEF Init, ThreadSound, ObjectsSound, ResultsSound, AllForeign
<1> QED BY <1>3, <1>4 DEF IInv

\* What concerns objects only.
LEMMA ObjectSteps ==
    ASSUME IInv, NEW c \in Objects,
           Construct(c) \/ Destroy(c) \/ \E d \in Objects : Copy(c, d)
    PROVE  IInv'
<1>1. UNCHANGED <<mode, run, stack, hidden, base, result, calls, corrupt>>
  BY DEF Construct, Destroy, Copy, thread
<1>2. ThreadSound' /\ ResultsSound' /\ ~corrupt'
  BY <1>1 DEF IInv, ThreadSound, ResultsSound, LiveResults, ResultSound, AllForeign
<1>3. object \in [Objects -> Coroutine \cup {Gone}] /\ calls \in Nat
  BY CoroutineAssumption DEF IInv, TypeOK
<1>4. object' \in [Objects -> Coroutine \cup {Gone}] /\ ObjectsSound'
  <2>1. CASE Construct(c)
    <3> DEFINE new == [kind |-> "coroutine", stats |-> "yielded", called |-> 0, joined |-> 0]
    <3>1. new \in Coroutine /\ new.called = 0
      BY CoroutineAssumption DEF Coroutine
    <3>2. object' = [object EXCEPT ![c] = new]
      BY <2>1 DEF Construct
    <3> HIDE DEF new
    <3>3. \A d \in LiveObjects' : object'[d] = new \/ (d \in LiveObjects /\ object'[d] = object[d])
      BY <1>3, <3>2 DEF LiveObjects
    <3> QED BY <1>1, <1>3, <3>1, <3>2, <3>3 DEF IInv, ObjectsSound
  <2>2. CASE Destroy(c)
    <3>1. \A d \in LiveObjects' : d \in LiveObjects /\ object'[d] = object[d]
      BY <1>3, <2>2 DEF Destroy, LiveObjects
    <3> QED BY <1>1, <1>3, <2>2, <3>1 DEF IInv, ObjectsSound, Destroy
  <2>3. CASE \E d \in Objects : Copy(c, d)
    <3>1. PICK d \in Objects : Copy(c, d)
      BY <2>3
    <3>2. \A e \in LiveObjects' : \E f \in LiveObjects : object'[e] = object[f]
      BY <1>3, <3>1 DEF Copy, LiveObjects
    <3> QED BY <1>1, <1>3, <3>1, <3>2 DEF IInv, ObjectsSound, Copy
  <2> QED BY <2>1, <2>2, <2>3
<1>5. TypeOK'
  BY <1>1, <1>4 DEF IInv, TypeOK
<1> QED BY <1>2, <1>4, <1>5 DEF IInv

LEMMA LuacallType ==
    ASSUME NEW o \in Coroutine, NEW out, OutcomeSound(out), calls + 1 \in 1 .. MaxCalls
    PROVE  /\ luacall(o, out) \in Coroutine
           /\ luacall(o, out).stats = out.status
           /\ luacall(o, out).joined = out.run
           /\ luacall(o, out).called = calls + 1
<1>1. calls + 1 \in 0 .. MaxCalls
  BY CoroutineAssumption
<1> QED BY <1>1 DEF luacall, Coroutine, OutcomeSound, Statuses

\* The objects after a resume: one knows the call, the others are older.
LEMMA ObjectsAfterCall ==
    ASSUME IInv, MayCall, NEW c \in LiveObjects, NEW out, OutcomeSound(out),
           ThreadBecomes(out), calls' = calls + 1,
           object' = [object EXCEPT ![c] = luacall(@, out)]
    PROVE  object' \in [Objects -> Coroutine \cup {Gone}] /\ ObjectsSound'
<1>1. /\ object \in [Objects -> Coroutine \cup {Gone}] /\ calls \in Nat /\ TypeOK
      /\ c \in Objects
  BY CoroutineAssumption DEF IInv, TypeOK, LiveObjects
<1>2. object[c] \in Coroutine
  BY <1>1 DEF LiveObjects
<1> DEFINE new == luacall(object[c], out)
<1>3. new \in Coroutine /\ new.stats = out.status /\ new.joined = out.run /\ new.called = calls + 1
  BY <1>1, <1>2, ResumeFacts, LuacallType
<1>4. object' = [object EXCEPT ![c] = new]
  OBVIOUS
<1> HIDE DEF new
<1>5. \A d \in LiveObjects' : d = c \/ (d \in LiveObjects /\ object'[d] = object[d])
  BY <1>1, <1>4 DEF LiveObjects
<1>6. out.status = "yielded" <=> mode' = "suspended"
  BY DEF ThreadBecomes, OutcomeSound, ModeOf, Statuses
<1>7. run' = out.run
  BY DEF ThreadBecomes
<1>8. \A d \in LiveObjects : object[d].called <= calls /\ object[d].called \in Nat
  <2> SUFFICES ASSUME NEW d \in LiveObjects
               PROVE  object[d].called <= calls /\ object[d].called \in Nat
    OBVIOUS
  <2>1. object[d] \in Coroutine
    BY <1>1 DEF LiveObjects
  <2> QED BY <2>1, CoroutineAssumption DEF IInv, ObjectsSound, Coroutine
<1>9. ASSUME NEW d \in LiveObjects'
      PROVE  /\ object'[d].called <= calls'
             /\ object'[d].called # 0 /\ object'[d].called = calls' =>
                   (object'[d].stats = "yielded" <=> mode' = "suspended" /\ run' = object'[d].joined)
  <2>1. CASE d = c
    <3>1. object'[d] = new
      BY <2>1, <1>1, <1>4
    <3> QED BY <3>1, <1>1, <1>3, <1>6, <1>7
  <2>2. CASE d # c
    <3>1. d \in LiveObjects /\ object'[d] = object[d]
      BY <2>2, <1>5
    <3> QED BY <3>1, <1>1, <1>8
  <2> QED BY <2>1, <2>2
<1>10. object' \in [Objects -> Coroutine \cup {Gone}]
  BY <1>1, <1>3, <1>4
<1> QED BY <1>9, <1>10 DEF ObjectsSound

LEMMA CallStep ==
    ASSUME IInv, Uses = {},
           NEW c \in Objects, NEW r \in Results, NEW handled \in BOOLEAN, Call(c, r, handled)
    PROVE  IInv'
<1>1. MayCall /\ c \in LiveObjects /\ result[r] = Gone /\ calls' = calls + 1 /\ corrupt' = corrupt
  BY DEF Call, Callable, MayCall, runnable, LiveObjects
<1> DEFINE failed(out) == out.status = "runtime"
           res(out) == IF failed(out) THEN error_result(out, handled) ELSE result_of(out)
<1>2. PICK out \in Outcomes(0 .. MaxValues) :
          /\ ThreadBecomes(out)
          /\ stack' = IF failed(out) /\ handled THEN Append(out.stack, Last(out.stack))
                      ELSE out.stack
          /\ object' = [object EXCEPT ![c] = luacall(@, out)]
          /\ result' = [result EXCEPT ![r] = res(out)]
  BY DEF Call
<1>3. OutcomeSound(out)
  BY <1>1, OutcomesSound, CoroutineAssumption
<1>4. TypeOK /\ calls \in Nat
  BY CoroutineAssumption DEF IInv, TypeOK
<1>5. object' \in [Objects -> Coroutine \cup {Gone}] /\ ObjectsSound'
  BY <1>1, <1>2, <1>3, ObjectsAfterCall
<1>6. /\ mode' = ModeOf(out.status) /\ run' = out.run /\ hidden' = out.hidden
      /\ base' = BaseOf(out) /\ out.status \in Statuses
  BY <1>2, <1>3 DEF ThreadBecomes, OutcomeSound, BaseOf
<1>7. calls + 1 \in Item /\ calls + 1 \in 1 .. MaxCalls
  BY <1>1, <1>4, ResumeFacts
<1> DEFINE n == Len(out.stack)
<1>8. n \in Nat /\ DOMAIN out.stack = 1 .. n /\ out.stack \in Seq(Item)
  BY <1>3, LenProperties DEF OutcomeSound
<1>9. CASE failed(out)
  <2>1. n \in Nat \ {0} /\ Last(out.stack) = calls + 1 /\ out.stack[n] = calls + 1
    BY <1>3, <1>8, <1>9, EmptySeq DEF OutcomeSound, Last
  <2>2. /\ stack' \in Seq(Item) /\ stack'[Len(stack')] = calls + 1
        /\ Len(stack') = n + (IF handled THEN 1 ELSE 0)
    <3>1. CASE handled
      <4>1. stack' = Append(out.stack, calls + 1)
        BY <1>2, <1>9, <2>1, <3>1
      <4>2. /\ Append(out.stack, calls + 1) \in Seq(Item)
            /\ Len(Append(out.stack, calls + 1)) = n + 1
            /\ Append(out.stack, calls + 1)[n + 1] = calls + 1
        BY <1>7, <1>8, AppendProperties
      <4> QED BY <3>1, <4>1, <4>2
    <3>2. CASE ~handled
      BY <1>2, <1>8, <2>1, <3>2
    <3> QED BY <3>1, <3>2
  <2>3. /\ res(out) = error_result(out, handled)
        /\ res(out).index = Len(stack') /\ res(out).returncount = 1
        /\ res(out).popcount = n /\ res(out).status = "runtime" /\ res(out).call = calls + 1
    BY <1>9, <2>2 DEF error_result
  <2>4. res(out) \in Result
    <3>1. n + (IF handled THEN 1 ELSE 0) \in Nat
      <4>1. (IF handled THEN 1 ELSE 0) \in Nat
        OBVIOUS
      <4> HIDE DEF n
      <4> QED BY <1>8, <4>1
    <3> QED BY <1>7, <1>8, <1>9, <3>1 DEF error_result, Result
  <2> HIDE DEF res
  <2>5. DOMAIN stack' = 1 .. Len(stack') /\ Len(stack') \in Nat
    BY <2>2, LenProperties
  <2>6. TypeOK'
    <3>1. base' \in Nat
      BY <1>4, <1>6, LenProperties DEF BaseOf, TypeOK
    <3>2. mode' \in {"idle", "suspended", "dead"} /\ run' \in 0 .. MaxRuns /\ hidden' \in Seq(Item)
      BY <1>3, <1>6 DEF OutcomeSound, ModeOf
    <3>3. result' \in [Results -> Result \cup {Gone}]
      BY <1>2, <1>4, <2>4 DEF TypeOK
    <3>4. calls' \in 0 .. MaxCalls /\ corrupt' \in BOOLEAN
      BY <1>1, <1>4, <1>7, CoroutineAssumption DEF TypeOK
    <3> QED BY <1>5, <2>2, <3>1, <3>2, <3>3, <3>4 DEF TypeOK
  <2>7. LiveResults' = {r} /\ result'[r] = res(out)
    <3>1. \A s \in Results : result[s] = Gone
      BY <1>1 DEF MayCall, LiveResults
    <3>2. res(out) # Gone
      BY <2>4 DEF Result, Gone
    <3> QED BY <1>2, <1>4, <3>1, <3>2 DEF LiveResults, TypeOK
  <2>8. ThreadSound'
    BY <1>6, <1>9, <2>7 DEF ThreadSound, ModeOf
  <2>9. ResultsSound'
    <3>1. n \in 1 .. Len(stack')
      <4>1. (IF handled THEN 1 ELSE 0) \in Nat
        OBVIOUS
      <4> HIDE DEF n
      <4> QED BY <1>8, <2>1, <2>2, <2>5, <4>1
    <3>2. \A i \in Len(stack') .. Len(stack') + 1 - 1 : i = Len(stack')
      <4> DEFINE l == Len(stack')
      <4>1. l \in Nat
        BY <2>5
      <4> HIDE DEF l
      <4>2. \A i \in l .. l + 1 - 1 : i = l
        BY <4>1
      <4> QED BY <4>2 DEF l
    <3>3. Len(stack') \in DOMAIN stack'
      BY <2>5, <3>1
    <3> QED BY <1>6, <1>9, <2>2, <2>3, <2>7, <3>1, <3>2, <3>3
            DEF ResultsSound, ResultSound, ModeOf
  <2> QED BY <1>1, <1>5, <2>6, <2>8, <2>9 DEF IInv
<1>10. CASE ~failed(out)
  <2>1. stack' = out.stack
    BY <1>2, <1>10
  <2>2. /\ res(out) = result_of(out)
        /\ res(out).index = 1 /\ res(out).returncount = n
        /\ res(out).popcount = n /\ res(out).status = out.status /\ res(out).call = calls + 1
    BY <1>10 DEF result_of
  <2>3. res(out) \in Result
    BY <1>6, <1>7, <1>8, <1>10 DEF result_of, Result, Statuses
  <2> HIDE DEF res
  <2>4. TypeOK'
    <3>1. base' \in Nat
      BY <1>4, <1>6, LenProperties DEF BaseOf, TypeOK
    <3>2. mode' \in {"idle", "suspended", "dead"} /\ run' \in 0 .. MaxRuns /\ hidden' \in Seq(Item)
      BY <1>3, <1>6 DEF OutcomeSound, ModeOf
    <3>3. result' \in [Results -> Result \cup {Gone}]
      BY <1>2, <1>4, <2>3 DEF TypeOK
    <3>4. calls' \in 0 .. MaxCalls /\ corrupt' \in BOOLEAN
      BY <1>1, <1>4, <1>7, CoroutineAssumption DEF TypeOK
    <3> QED BY <1>5, <1>8, <2>1, <3>1, <3>2, <3>3, <3>4 DEF TypeOK
  <2>5. LiveResults' = {r} /\ result'[r] = res(out)
    <3>1. \A s \in Results : result[s] = Gone
      BY <1>1 DEF MayCall, LiveResults
    <3>2. res(out) # Gone
      BY <2>3 DEF Result, Gone
    <3> QED BY <1>2, <1>4, <3>1, <3>2 DEF LiveResults, TypeOK
  <2>6. ThreadSound'
    BY <1>3, <1>6, <2>5 DEF ThreadSound, OutcomeSound, ModeOf, Statuses, AllForeign
  <2>7. ResultsSound'
    <3>1. \A i \in 1 .. 1 + n - 1 :
              /\ i \in DOMAIN stack'
              /\ stack'[i] = calls + 1 \/ (out.status = "ok" /\ i <= base')
      BY <1>3, <1>6, <1>8, <1>10, <2>1 DEF OutcomeSound
    <3> QED BY <1>6, <1>10, <2>1, <2>2, <2>5, <3>1 DEF ResultsSound, ResultSound
  <2> QED BY <1>1, <1>5, <2>4, <2>6, <2>7 DEF IInv
<1> QED BY <1>9, <1>10

\* Below the values a function returned, all is foreign.
LEMMA ReturnedStack ==
    ASSUME IInv, MayCall, mode # "dead", NEW k \in Nat
    PROVE  /\ Len(Returned(k).stack) = Len(Beneath) + k /\ Len(Beneath) \in Nat
           /\ \A i \in 1 .. Len(Beneath) : Returned(k).stack[i] = Foreign
<1>1. /\ Beneath \in Seq(Item) /\ Values(k) \in Seq(Item) /\ Len(Values(k)) = k
  BY ResumeFacts DEF IInv
<1>2. Len(Beneath) \in Nat /\ DOMAIN Beneath = 1 .. Len(Beneath)
  BY <1>1, LenProperties
<1>3. Returned(k).stack = Beneath \o Values(k)
  BY DEF Returned, Outcome
<1>4. /\ Len(Beneath \o Values(k)) = Len(Beneath) + Len(Values(k))
      /\ \A i \in 1 .. Len(Beneath) + Len(Values(k)) : (Beneath \o Values(k))[i] =
             IF i <= Len(Beneath) THEN Beneath[i] ELSE Values(k)[i - Len(Beneath)]
  BY <1>1, ConcatProperties
<1>5. ASSUME NEW i \in 1 .. Len(Beneath) PROVE Returned(k).stack[i] = Foreign
  <2>1. i \in 1 .. Len(Beneath) + Len(Values(k)) /\ i <= Len(Beneath)
    BY <1>1, <1>2
  <2> QED BY <1>2, <1>3, <1>4, <2>1, BeneathForeign DEF AllForeign
<1> QED BY <1>1, <1>2, <1>3, <1>4, <1>5

\* The thread after a resume whose values are all gone again.
LEMMA ThreadAfterCall ==
    ASSUME IInv, MayCall, NEW out, OutcomeSound(out), ThreadBecomes(out),
           stack' \in Seq(Item), out.status = "ok" => AllForeign(stack')
    PROVE  /\ ThreadSound' /\ mode' \in {"idle", "suspended", "dead"}
           /\ run' \in 0 .. MaxRuns /\ hidden' \in Seq(Item) /\ base' \in Nat
<1>1. /\ mode' = ModeOf(out.status) /\ run' = out.run /\ hidden' = out.hidden
      /\ base' = BaseOf(out) /\ out.status \in Statuses
  BY DEF ThreadBecomes, OutcomeSound, BaseOf
<1>2. ThreadSound'
  BY <1>1 DEF ThreadSound, OutcomeSound, ModeOf, Statuses, AllForeign
<1>3. base' \in Nat
  BY <1>1, LenProperties DEF BaseOf, IInv, TypeOK
<1> QED BY <1>1, <1>2, <1>3 DEF OutcomeSound, ModeOf

\* A resume leaves at least the values it counts; after a return they lie
\* above what was there before.
LEMMA LeftOnStack ==
    ASSUME IInv, MayCall, NEW out \in Outcomes(0 .. MaxValues)
    PROVE  /\ Len(out.stack) \in Nat /\ out.left \in Nat /\ out.left <= Len(out.stack)
           /\ out.status = "ok" =>
                 \A i \in 1 .. Len(out.stack) - out.left : out.stack[i] = Foreign
<1>1. OutcomeSound(out) /\ TypeOK
  BY OutcomesSound, CoroutineAssumption DEF IInv
<1>2. Len(out.stack) \in Nat
  BY <1>1, LenProperties DEF OutcomeSound
<1>7. \/ mode # "dead" /\ \E k \in 0 .. MaxValues : out = Yielded(k)
      \/ mode # "dead" /\ \E k \in 0 .. MaxValues : out = Returned(k)
      \/ out.status = "runtime" /\ out.left = 1
  <2>1. CASE mode = "dead"
    <3>1. out = Refused
      BY <2>1 DEF Outcomes
    <3> QED BY <3>1 DEF Refused
  <2>2. CASE mode # "dead"
    <3>1. \/ \E k \in 0 .. MaxValues : out = Yielded(k)
          \/ \E k \in 0 .. MaxValues : out = Returned(k)
          \/ \E k \in 0 .. 1 : out = Failed(k)
      BY <2>2 DEF Outcomes
    <3>2. ASSUME NEW k, out = Failed(k) PROVE out.status = "runtime" /\ out.left = 1
      BY <3>2 DEF Failed, Outcome
    <3> QED BY <2>2, <3>1, <3>2
  <2> QED BY <2>1, <2>2
<1>8. ASSUME NEW k PROVE /\ out = Yielded(k) => out.status = "yielded"
                         /\ out = Returned(k) => out.status = "ok"
  BY DEF Yielded, Returned, Outcome
<1>3. CASE out.status = "runtime"
  <2>1. out.left = 1
    BY <1>3, <1>7, <1>8
  <2>2. Len(out.stack) # 0
    BY <1>1, <1>3, EmptySeq DEF OutcomeSound
  <2> QED BY <1>2, <1>3, <2>1, <2>2
<1>4. ASSUME mode # "dead", NEW k \in 0 .. MaxValues, out = Yielded(k)
      PROVE  out.left = k /\ k \in Nat /\ Len(out.stack) = k /\ out.status = "yielded"
  <2>1. k \in Nat
    BY CoroutineAssumption
  <2>2. Len(Values(k)) = k
    BY <1>1, <2>1, ResumeFacts
  <2> QED BY <1>4, <2>1, <2>2 DEF Yielded, Outcome
<1>5. ASSUME mode # "dead", NEW k \in 0 .. MaxValues, out = Returned(k)
      PROVE  /\ out.left = k /\ k \in Nat /\ Len(out.stack) = Len(Beneath) + k
             /\ Len(Beneath) \in Nat
             /\ \A i \in 1 .. Len(Beneath) : out.stack[i] = Foreign
  <2>1. k \in Nat
    BY CoroutineAssumption
  <2>2. out.left = k
    BY <1>5 DEF Returned, Outcome
  <2> QED BY <1>5, <2>1, <2>2, ReturnedStack
<1>6. CASE out.status # "runtime"
  <2>1. /\ mode # "dead"
        /\ \/ \E k \in 0 .. MaxValues : out = Yielded(k)
           \/ \E k \in 0 .. MaxValues : out = Returned(k)
    BY <1>6, <1>7
  <2>2. CASE \E k \in 0 .. MaxValues : out = Yielded(k)
    BY <1>4, <2>1, <2>2
  <2>3. CASE \E k \in 0 .. MaxValues : out = Returned(k)
    <3>1. PICK k \in 0 .. MaxValues : out = Returned(k)
      BY <2>3
    <3>2. /\ out.left = k /\ k \in Nat /\ Len(out.stack) = Len(Beneath) + k
          /\ Len(Beneath) \in Nat
          /\ \A i \in 1 .. Len(Beneath) : out.stack[i] = Foreign
      BY <1>5, <2>1, <3>1
    <3>3. Len(out.stack) - out.left = Len(Beneath)
      BY <3>2
    <3> QED BY <3>2, <3>3
  <2> QED BY <2>1, <2>2, <2>3
<1> QED BY <1>3, <1>6

LEMMA CallTypedStep ==
    ASSUME IInv, Uses = {}, NEW c \in Objects, NEW n \in 0 .. MaxValues, CallTyped(c, n)
    PROVE  IInv'
<1>1. /\ MayCall /\ c \in LiveObjects /\ calls' = calls + 1 /\ result' = result
  BY DEF CallTyped, Callable, MayCall, runnable, LiveObjects
<1>2. PICK out \in Outcomes(0 .. MaxValues) :
          /\ ~(out.left < n)
          /\ ~(out.status = "ok" /\ out.left > n)
          /\ ThreadBecomes(out) /\ stack' = popped(out.stack, n)
          /\ object' = [object EXCEPT ![c] = luacall(@, out)]
          /\ corrupt' = (corrupt \/ n > Len(out.stack))
  BY DEF CallTyped
<1>3. OutcomeSound(out)
  BY <1>1, OutcomesSound, CoroutineAssumption
<1>4. TypeOK /\ calls + 1 \in 1 .. MaxCalls
  BY <1>1, ResumeFacts DEF IInv
<1>5. /\ Len(out.stack) \in Nat /\ out.left \in Nat /\ out.left <= Len(out.stack)
      /\ out.status = "ok" =>
            \A i \in 1 .. Len(out.stack) - out.left : out.stack[i] = Foreign
  BY <1>1, LeftOnStack
<1>6. n \in 0 .. Len(out.stack) /\ (out.status = "ok" => out.left = n)
  <2>1. n \in Nat
    BY CoroutineAssumption
  <2> QED BY <2>1, <1>2, <1>5
<1>7. /\ stack' \in Seq(Item) /\ DOMAIN stack' = 1 .. Len(out.stack) - n
      /\ \A i \in 1 .. Len(out.stack) - n : stack'[i] = out.stack[i]
  <2>1. out.stack \in Seq(Item)
    BY <1>3 DEF OutcomeSound
  <2>2. /\ stack' \in Seq(Item) /\ Len(stack') = Len(out.stack) - n
        /\ \A i \in 1 .. Len(out.stack) - n : stack'[i] = out.stack[i]
    BY <1>2, <1>6, <2>1, PoppedProperties
  <2> QED BY <2>2, LenProperties
<1>8. ASSUME out.status = "ok" PROVE AllForeign(stack')
  BY <1>5, <1>6, <1>7, <1>8 DEF AllForeign
<1>9. object' \in [Objects -> Coroutine \cup {Gone}] /\ ObjectsSound'
  BY <1>1, <1>2, <1>3, ObjectsAfterCall
<1>10. /\ ThreadSound' /\ mode' \in {"idle", "suspended", "dead"}
       /\ run' \in 0 .. MaxRuns /\ hidden' \in Seq(Item) /\ base' \in Nat
  BY <1>1, <1>2, <1>3, <1>7, <1>8, ThreadAfterCall
<1>11. TypeOK' /\ ~corrupt'
  <2>1. calls' \in 0 .. MaxCalls
    BY <1>1, <1>4, CoroutineAssumption
  <2>2. corrupt' = FALSE
    BY <1>2, <1>6 DEF IInv, TypeOK
  <2> QED BY <1>1, <1>4, <1>7, <1>9, <1>10, <2>1, <2>2 DEF TypeOK
<1>12. ResultsSound'
  BY <1>1 DEF MayCall, LiveResults, ResultsSound
<1> QED BY <1>9, <1>10, <1>11, <1>12 DEF IInv

LEMMA ScriptStep ==
    ASSUME IInv, ScriptResumes
    PROVE  IInv'
<1>1. /\ MayCall /\ mode = "suspended" /\ calls' = calls + 1
      /\ corrupt' = corrupt /\ result' = result /\ object' = object
  BY DEF ScriptResumes, MayCall
<1>2. PICK out \in {Yielded(0), Returned(0)} : ThreadBecomes(out) /\ stack' = out.stack
  BY DEF ScriptResumes
<1>3. OutcomeSound(out)
  BY <1>1, <1>2, YieldedSound, ReturnedSound
<1>4. TypeOK /\ calls + 1 \in 1 .. MaxCalls
  BY <1>1, ResumeFacts DEF IInv
<1>5. stack' \in Seq(Item)
  BY <1>2, <1>3 DEF OutcomeSound
<1>6. ASSUME out.status = "ok" PROVE AllForeign(stack')
  <2>1. out = Returned(0)
    BY <1>2, <1>6 DEF Yielded, Outcome
  <2>2. Len(out.stack) = Len(Beneath) /\ \A i \in 1 .. Len(Beneath) : out.stack[i] = Foreign
    <3>1. /\ Len(Returned(0).stack) = Len(Beneath) + 0 /\ Len(Beneath) \in Nat
          /\ \A i \in 1 .. Len(Beneath) : Returned(0).stack[i] = Foreign
      BY <1>1, <2>1, ReturnedStack
    <3> QED BY <2>1, <3>1
  <2>3. DOMAIN stack' = 1 .. Len(Beneath)
    BY <1>2, <1>5, <2>2, LenProperties
  <2> QED BY <1>2, <2>2, <2>3 DEF AllForeign
<1>7. /\ ThreadSound' /\ mode' \in {"idle", "suspended", "dead"}
      /\ run' \in 0 .. MaxRuns /\ hidden' \in Seq(Item) /\ base' \in Nat
  BY <1>1, <1>2, <1>3, <1>5, <1>6, ThreadAfterCall
<1>8. TypeOK' /\ ~corrupt'
  <2>1. calls' \in 0 .. MaxCalls
    BY <1>1, <1>4, CoroutineAssumption
  <2> QED BY <1>1, <1>5, <1>7, <2>1 DEF IInv, TypeOK
<1>9. ObjectsSound'
  <2> SUFFICES ASSUME NEW d \in LiveObjects
               PROVE  object[d].called <= calls /\ object[d].called \in Nat /\ calls \in Nat
    BY <1>1 DEF ObjectsSound, LiveObjects
  <2>1. object[d] \in Coroutine
    BY <1>4 DEF LiveObjects, TypeOK
  <2> QED BY <2>1, CoroutineAssumption DEF IInv, TypeOK, ObjectsSound, Coroutine
<1>10. ResultsSound'
  BY <1>1 DEF MayCall, LiveResults, ResultsSound
<1> QED BY <1>7, <1>8, <1>9, <1>10 DEF IInv

LEMMA PushStep ==
    ASSUME IInv, PushValue
    PROVE  IInv'
<1>1. /\ mode = "idle" /\ stack = <<>> /\ stack' = <<Foreign>>
      /\ UNCHANGED <<mode, run, hidden, base, object, result, calls, corrupt>>
  BY DEF PushValue
<1>2. stack' \in Seq(Item) /\ AllForeign(stack') /\ Len(stack) = 0 /\ DOMAIN stack = {}
  <2>1. Foreign \in Item
    BY DEF Item
  <2> QED BY <1>1, <2>1 DEF AllForeign
<1>3. TypeOK' /\ ~corrupt' /\ ObjectsSound' /\ ThreadSound'
  BY <1>1, <1>2 DEF IInv, TypeOK, ObjectsSound, LiveObjects, ThreadSound, AllForeign
<1>4. ASSUME NEW r \in LiveResults PROVE ResultSound(r)'
  <2>1. ResultSound(r) /\ result[r].status # "runtime"
    BY <1>1, <1>4 DEF IInv, ResultsSound, ResultSound, ModeOf
  <2>2. result[r].popcount = 0 /\ result[r].returncount = 0 /\ result[r].index = 1
    BY <1>2, <2>1 DEF ResultSound
  <2>3. \A i \in 1 .. 1 + 0 - 1 : FALSE
    OBVIOUS
  <2> QED BY <1>1, <1>2, <2>1, <2>2, <2>3 DEF ResultSound
<1>5. ResultsSound'
  BY <1>1, <1>4 DEF IInv, ResultsSound, LiveResults
<1> QED BY <1>3, <1>5 DEF IInv

\* Results are destroyed with the index and the count they were made with.
LEMMA DestroyStep ==
    ASSUME IInv, NEW r \in Results, DestroyResult(r)
    PROVE  IInv'
<1> DEFINE res == result[r]
           nothing == res.popcount = 0 \/ stack = <<>>
           outside == \/ Len(stack) = res.index /\ res.popcount > res.index
                      \/ Len(stack) # res.index
                            /\ res.index + res.popcount - 1 > Len(stack)
<1>1. /\ res # Gone
      /\ stack' = IF nothing \/ outside THEN stack
                  ELSE remove(stack, res.index, res.popcount)
      /\ corrupt' = (corrupt \/ (~nothing /\ outside))
      /\ result' = [result EXCEPT ![r] = Gone]
      /\ UNCHANGED <<mode, run, hidden, base, object, calls>>
  BY DEF DestroyResult
<1>2. /\ TypeOK /\ r \in LiveResults /\ ResultSound(r) /\ stack \in Seq(Item)
      /\ res \in Result /\ Len(stack) \in Nat
  <2>1. TypeOK /\ r \in LiveResults /\ stack \in Seq(Item)
    BY <1>1 DEF IInv, TypeOK, LiveResults
  <2> QED BY <1>1, <2>1, LenProperties DEF IInv, TypeOK, ResultsSound
<1>3. LiveResults' = {}
  BY <1>1, <1>2 DEF IInv, ResultsSound, LiveResults, TypeOK
<1>4. res.index \in Nat /\ res.popcount \in Nat /\ res.status \in Statuses
  BY <1>2 DEF Result, Statuses
<1> HIDE DEF res
<1>5. ~nothing => ~outside
  <2>1. CASE res.status = "runtime"
    BY <1>2, <1>4, <2>1 DEF ResultSound, res
  <2>2. CASE res.status # "runtime"
    BY <1>2, <1>4, <2>2 DEF ResultSound, res
  <2> QED BY <2>1, <2>2
<1>6. /\ stack' \in Seq(Item)
      /\ mode = "idle" => AllForeign(stack')
  <2>1. CASE nothing
    <3>1. stack' = stack
      BY <1>1, <2>1
    <3>2. stack = <<>> => AllForeign(stack)
      BY DEF AllForeign
    <3>3. mode = "idle" => AllForeign(stack)
      <4> SUFFICES ASSUME mode = "idle", stack # <<>>
                   PROVE  AllForeign(stack)
        BY <3>2
      <4>1. res.status # "runtime" /\ res.popcount = 0 /\ Len(stack) # 0
        BY <1>2, <1>4, <2>1, EmptySeq DEF ResultSound, ModeOf, res
      <4> QED BY <1>2, <4>1 DEF ResultSound, res
    <3> QED BY <1>2, <3>1, <3>3
  <2>2. CASE ~nothing
    <3>1. stack' = remove(stack, res.index, res.popcount) /\ Len(stack) > 0 /\ res.popcount # 0
      BY <1>1, <1>2, <1>5, <2>2, EmptySeq
    <3>2. CASE res.status = "runtime"
      <4>1. res.index = Len(stack) /\ res.popcount \in 0 .. Len(stack) /\ mode = "dead"
        BY <1>2, <1>4, <3>2 DEF ResultSound, ModeOf, res
      <4> QED BY <1>2, <3>1, <4>1, RemoveType
    <3>3. CASE res.status # "runtime"
      <4>1. res.index = 1 /\ res.popcount = Len(stack)
        BY <1>2, <1>4, <3>1, <3>3 DEF ResultSound, res
      <4>2. stack' = <<>>
        BY <1>2, <3>1, <4>1, RemoveAll
      <4> QED BY <4>2, EmptySeq DEF AllForeign
    <3> QED BY <3>2, <3>3
  <2> QED BY <2>1, <2>2
<1>7. TypeOK' /\ ~corrupt'
  <2>1. result' \in [Results -> Result \cup {Gone}]
    BY <1>1, <1>2 DEF TypeOK
  <2>2. corrupt' = FALSE
    BY <1>1, <1>5 DEF IInv
  <2> QED BY <1>1, <1>2, <1>6, <2>1, <2>2 DEF TypeOK
<1>8. ThreadSound' /\ ObjectsSound'
  BY <1>1, <1>6 DEF IInv, ThreadSound, ObjectsSound, LiveObjects, AllForeign
<1>9. ResultsSound'
  BY <1>3 DEF ResultsSound
<1> QED BY <1>7, <1>8, <1>9 DEF IInv

LEMMA NextSound ==
    ASSUME Uses = {}
    PROVE  IInv /\ [Next]_vars => IInv'
<1> SUFFICES ASSUME IInv, [Next]_vars PROVE IInv'
  OBVIOUS
<1>1. ASSUME NEW c \in Objects, Construct(c) \/ Destroy(c) \/ \E d \in Objects : Copy(c, d)
      PROVE  IInv'
  BY <1>1, ObjectSteps
<1>2. ASSUME NEW c \in Objects, NEW r \in Results, NEW handled \in BOOLEAN, Call(c, r, handled)
      PROVE  IInv'
  BY <1>2, CallStep
<1>3. ASSUME NEW c \in Objects, NEW n \in 0 .. MaxValues, CallTyped(c, n)
      PROVE  IInv'
  BY <1>3, CallTypedStep
<1>4. ASSUME NEW r \in Results, DestroyResult(r) PROVE IInv'
  BY <1>4, DestroyStep
<1>5. CASE ScriptResumes
  BY <1>5, ScriptStep
<1>6. CASE PushValue
  BY <1>6, PushStep
<1>7. CASE UNCHANGED vars
  BY <1>7 DEF vars, IInv, TypeOK, ThreadSound, ObjectsSound, ResultsSound, ResultSound,
              LiveObjects, LiveResults, AllForeign
<1> QED BY <1>1, <1>2, <1>3, <1>4, <1>5, <1>6, <1>7 DEF Next

-----------------------------------------------------------------------------
(* What follows.                                                           *)

(***************************************************************************)
(* coroutine.hpp keeps the types of its state, its objects know how the    *)
(* calls they made ended, and its results name the values of their calls,  *)
(* for any number of each.                                                 *)
(***************************************************************************)
THEOREM Invariance ==
    ASSUME Uses = {}
    PROVE  Spec => []IInv
<1>1. IInv /\ [Next]_vars => IInv'
  BY NextSound
<1> QED BY InitSound, <1>1, PTL DEF Spec

(***************************************************************************)
(* ~protected_function_result, and call<Ret...>() with any number of types *)
(* not greater than that of the values that come, never reach outside of   *)
(* the thread's stack.                                                     *)
(***************************************************************************)
THEOREM StacksStayWhole ==
    ASSUME Uses = {}
    PROVE  Spec => []StackStaysWhole
<1>1. IInv => StackStaysWhole
  BY DEF IInv, StackStaysWhole
<1> QED BY Invariance, <1>1, PTL

(***************************************************************************)
(* A protected_function_result of a coroutine names the values of the call *)
(* that returned it, until it is destroyed.                                *)
(***************************************************************************)
THEOREM ResultsNameTheirCalls ==
    ASSUME Uses = {}
    PROVE  Spec => []ResultsAreTheirOwn
<1>1. IInv => ResultsAreTheirOwn
  BY DEF IInv, ResultsSound, ResultSound, ResultsAreTheirOwn
<1> QED BY Invariance, <1>1, PTL

(***************************************************************************)
(* runnable() of the object that resumed last agrees with the thread.      *)
(***************************************************************************)
THEOREM RunnableIsSuspended ==
    ASSUME Uses = {}
    PROVE  Spec => []RunnableMeansSuspended
<1>1. IInv => RunnableMeansSuspended
  BY DEF IInv, ObjectsSound, RunnableMeansSuspended, runnable, LiveObjects
<1> QED BY Invariance, <1>1, PTL

(***************************************************************************)
(* No call leaves a value on a thread whose function is done, typed calls  *)
(* that ask for all it returns included: the status is dead once the       *)
(* results are destroyed.                                                  *)
(***************************************************************************)
THEOREM FinishedIsDead ==
    ASSUME Uses = {}
    PROVE  Spec => []FinishedThreadsAreDead
<1>1. IInv => FinishedThreadsAreDead
  <2> SUFFICES ASSUME IInv, mode = "idle", LiveResults = {},
                      \A i \in DOMAIN stack : stack[i] # Foreign
               PROVE  thread_status = "dead"
    BY DEF FinishedThreadsAreDead
  <2>1. stack \in Seq(Item) /\ DOMAIN stack = {}
    BY DEF IInv, TypeOK, ThreadSound, AllForeign
  <2>2. Len(stack) \in Nat /\ DOMAIN stack = 1 .. Len(stack)
    BY <2>1, LenProperties
  <2>3. Len(stack) = 0
    BY <2>1, <2>2
  <2>4. stack = <<>>
    BY <2>1, <2>3, EmptySeq
  <2> QED BY <2>4 DEF thread_status
<1> QED BY Invariance, <1>1, PTL
=============================================================================

-------------------------- MODULE EventQueueProofs --------------------------
(* GameEventQueue recycles each event object once, lets one stale play event *)
(* into a round at most and, with patient leavers, implements EventLog, for  *)
(* every number of objects and clients.                                      *)
EXTENDS EventQueue, SubsequencesProofs, SequenceTheorems, TLAPS

(***************************************************************************)
(* Sequences without repetition.                                           *)
(***************************************************************************)

IsList(s, T) == s \in Seq(T) /\ IsInjective(s)

LEMMA AppendedList ==
    ASSUME NEW T, NEW s, IsList(s, T), NEW e \in T, e \notin Range(s)
    PROVE  IsList(Append(s, e), T) /\ Range(Append(s, e)) = Range(s) \cup {e}
<1>. DEFINE t == Append(s, e)
            n == Len(s)
<1>1. /\ s \in Seq(T) /\ n \in Nat /\ DOMAIN s = 1..n /\ IsInjective(s)
  BY LenProperties DEF IsList
<1>2. /\ t \in Seq(T) /\ DOMAIN t = 1..(n + 1) /\ t[n + 1] = e
      /\ \A i \in 1..n : t[i] = s[i]
  BY <1>1, AppendProperties, LenProperties
<1>. HIDE DEF t
<1>3. \A i \in 1..n : s[i] # e
  BY <1>1 DEF Range
<1>4. \A i \in 1..(n + 1) : i \in 1..n \/ i = n + 1
  BY <1>1
<1>5. IsInjective(t)
  BY <1>1, <1>2, <1>3, <1>4 DEF IsInjective
<1>6. Range(t) = Range(s) \cup {e}
  <2>1. \A i \in 1..n : i \in DOMAIN t
    BY <1>1, <1>2
  <2>2. n + 1 \in DOMAIN t
    BY <1>1, <1>2
  <2>. QED  BY <1>1, <1>2, <1>4, <2>1, <2>2 DEF Range
<1>. QED  BY <1>2, <1>5, <1>6 DEF IsList, t

LEMMA FrontOfList ==
    ASSUME NEW T, NEW s, IsList(s, T), s # <<>>
    PROVE  /\ IsList(Front(s), T) /\ Last(s) \in T
           /\ Range(Front(s)) = Range(s) \ {Last(s)} /\ Last(s) \in Range(s)
<1>. DEFINE t == Front(s)
            n == Len(s)
<1>1. /\ s \in Seq(T) /\ n \in Nat /\ n > 0 /\ DOMAIN s = 1..n
      /\ IsInjective(s) /\ \A i \in 1..n : s[i] \in T
  BY LenProperties, EmptySeq, ElementOfSeq DEF IsList
<1>2. /\ t \in Seq(T) /\ DOMAIN t = 1..(n - 1) /\ \A i \in 1..(n - 1) : t[i] = s[i]
  <2>1. \A i \in 1..(n - 1) : s[i] \in T
    BY <1>1
  <2>2. /\ t \in Seq(T) /\ Len(t) = IF 1 <= n - 1 THEN (n - 1) - 1 + 1 ELSE 0
        /\ \A i \in 1..((n - 1) - 1 + 1) : t[i] = s[1 + i - 1]
    BY <1>1, <2>1, SubSeqProperties DEF Front
  <2>3. n \in Nat /\ n > 0
    BY <1>1
  <2>. HIDE DEF t, n
  <2>4. Len(t) = n - 1
    BY <2>2, <2>3
  <2>5. DOMAIN t = 1..(n - 1)
    BY <2>2, <2>4, LenProperties
  <2>6. ASSUME NEW i \in 1..(n - 1) PROVE t[i] = s[i]
    <3>1. i \in 1..((n - 1) - 1 + 1) /\ 1 + i - 1 = i
      BY <2>3
    <3>. QED  BY <2>2, <3>1
  <2>. QED  BY <2>2, <2>5, <2>6
<1>0. n \in Nat /\ n > 0
  BY <1>1
<1>. HIDE DEF t, n
<1>3. n \in 1..n /\ \A i \in 1..(n - 1) : i \in 1..n /\ i # n
  BY <1>0
<1>4. \A i \in 1..n : i \in 1..(n - 1) \/ i = n
  BY <1>0
<1>5. IsInjective(t)
  BY <1>1, <1>2, <1>3 DEF IsInjective
<1>6. Range(t) = Range(s) \ {s[n]}
  <2>1. ASSUME NEW e \in Range(t) PROVE e \in Range(s) /\ e # s[n]
    BY <1>1, <1>2, <1>3 DEF Range, IsInjective
  <2>2. ASSUME NEW e \in Range(s), e # s[n] PROVE e \in Range(t)
    BY <1>1, <1>2, <1>4, <2>2 DEF Range
  <2>. QED  BY <2>1, <2>2
<1>7. s[n] \in T /\ s[n] \in Range(s)
  BY <1>1, <1>3 DEF Range
<1>. QED  BY <1>2, <1>5, <1>6, <1>7 DEF IsList, Last, t, n

LEMMA TailOfList ==
    ASSUME NEW T, NEW s, IsList(s, T), s # <<>>
    PROVE  /\ IsList(Tail(s), T) /\ Head(s) \in T /\ Head(s) = s[1]
           /\ Range(Tail(s)) = Range(s) \ {Head(s)} /\ Head(s) \in Range(s)
<1>. DEFINE t == Tail(s)
            n == Len(s)
<1>1. /\ s \in Seq(T) /\ n \in Nat /\ n > 0 /\ DOMAIN s = 1..n
      /\ IsInjective(s) /\ \A i \in 1..n : s[i] \in T /\ Head(s) = s[1]
  BY LenProperties, EmptySeq, ElementOfSeq DEF IsList
<1>2. /\ t \in Seq(T) /\ DOMAIN t = 1..(n - 1) /\ \A i \in 1..(n - 1) : t[i] = s[i + 1]
  BY <1>1, HeadTailProperties, LenProperties
<1>0. n \in Nat /\ n > 0
  BY <1>1
<1>. HIDE DEF t, n
<1>3. 1 \in 1..n /\ \A i \in 1..(n - 1) : i + 1 \in 1..n /\ i + 1 # 1
  BY <1>0
<1>4. \A i \in 1..n : i = 1 \/ (i - 1 \in 1..(n - 1) /\ s[i] = t[i - 1])
  <2>. SUFFICES ASSUME NEW i \in 1..n, i # 1 PROVE i - 1 \in 1..(n - 1) /\ s[i] = t[i - 1]
    OBVIOUS
  <2>1. i - 1 \in 1..(n - 1) /\ (i - 1) + 1 = i
    BY <1>0
  <2>. QED  BY <1>2, <2>1
<1>5. IsInjective(t)
  <2>. SUFFICES ASSUME NEW i \in 1..(n - 1), NEW j \in 1..(n - 1), t[i] = t[j]
                PROVE  i = j
    BY <1>2 DEF IsInjective
  <2>1. s[i + 1] = s[j + 1] /\ i + 1 \in DOMAIN s /\ j + 1 \in DOMAIN s
    BY <1>1, <1>2, <1>3
  <2>2. i + 1 = j + 1
    BY <1>1, <2>1 DEF IsInjective
  <2>. QED  BY <1>0, <2>2
<1>6. Range(t) = Range(s) \ {s[1]}
  <2>1. ASSUME NEW e \in Range(t) PROVE e \in Range(s) /\ e # s[1]
    <3>1. PICK i \in 1..(n - 1) : e = t[i]
      BY <1>2 DEF Range
    <3>2. e = s[i + 1] /\ i + 1 \in DOMAIN s /\ i + 1 # 1 /\ 1 \in DOMAIN s
      BY <1>1, <1>2, <1>3, <3>1
    <3>. QED  BY <1>1, <3>2 DEF Range, IsInjective
  <2>2. ASSUME NEW e \in Range(s), e # s[1] PROVE e \in Range(t)
    <3>1. PICK i \in 1..n : e = s[i]
      BY <1>1 DEF Range
    <3>2. i - 1 \in DOMAIN t /\ e = t[i - 1]
      BY <1>2, <1>4, <2>2, <3>1
    <3>. QED  BY <3>2 DEF Range
  <2>. QED  BY <2>1, <2>2
<1>7. s[1] \in T /\ s[1] \in Range(s) /\ Head(s) = s[1]
  BY <1>1, <1>3 DEF Range
<1>. QED  BY <1>2, <1>5, <1>6, <1>7 DEF IsList, t

LEMMA InitialPart ==
    ASSUME NEW T, NEW s, IsList(s, T), NEW n \in Nat, n <= Len(s)
    PROVE  IsList(SubSeq(s, 1, n), T) /\ Range(SubSeq(s, 1, n)) \subseteq Range(s)
<1>. DEFINE t == SubSeq(s, 1, n)
<1>1. /\ s \in Seq(T) /\ Len(s) \in Nat /\ DOMAIN s = 1..Len(s)
      /\ IsInjective(s) /\ \A i \in 1..n : i \in 1..Len(s) /\ s[i] \in T
  BY LenProperties, ElementOfSeq DEF IsList
<1>2. /\ t \in Seq(T) /\ DOMAIN t = 1..n /\ \A i \in 1..n : t[i] = s[i]
  <2>1. /\ t \in Seq(T) /\ Len(t) = IF 1 <= n THEN n - 1 + 1 ELSE 0
        /\ \A i \in 1..(n - 1 + 1) : t[i] = s[1 + i - 1]
    BY <1>1, SubSeqProperties
  <2>. QED  BY <1>1, <2>1, LenProperties
<1>. HIDE DEF t
<1>. QED  BY <1>1, <1>2 DEF IsList, IsInjective, Range, t

LEMMA JoinedLists ==
    ASSUME NEW T, NEW s, NEW t, IsList(s, T), IsList(t, T), Range(s) \cap Range(t) = {}
    PROVE  IsList(s \o t, T) /\ Range(s \o t) = Range(s) \cup Range(t)
<1>. DEFINE u == s \o t
            m == Len(s)
            n == Len(t)
<1>1. /\ s \in Seq(T) /\ m \in Nat /\ DOMAIN s = 1..m /\ IsInjective(s)
      /\ t \in Seq(T) /\ n \in Nat /\ DOMAIN t = 1..n /\ IsInjective(t)
  BY LenProperties DEF IsList
<1>2. /\ u \in Seq(T) /\ DOMAIN u = 1..(m + n)
      /\ \A i \in 1..(m + n) : u[i] = IF i <= m THEN s[i] ELSE t[i - m]
  BY <1>1, ConcatProperties, LenProperties
<1>. HIDE DEF u
<1>3. \A i \in 1..(m + n) : \/ i \in 1..m /\ u[i] = s[i]
                            \/ i - m \in 1..n /\ i \notin 1..m /\ u[i] = t[i - m]
  BY <1>1, <1>2
<1>4. /\ \A i \in 1..m : i \in 1..(m + n) /\ u[i] = s[i]
      /\ \A i \in 1..n : i + m \in 1..(m + n) /\ u[i + m] = t[i]
  <2>1. ASSUME NEW i \in 1..n PROVE i + m \in 1..(m + n) /\ u[i + m] = t[i]
    <3>1. i + m \in 1..(m + n) /\ ~(i + m <= m) /\ (i + m) - m = i
      BY <1>1
    <3>. QED  BY <1>2, <3>1
  <2>2. ASSUME NEW i \in 1..m PROVE i \in 1..(m + n) /\ u[i] = s[i]
    <3>1. i \in 1..(m + n) /\ i <= m
      BY <1>1
    <3>. QED  BY <1>2, <3>1
  <2>. QED  BY <2>1, <2>2
<1>5. IsInjective(u)
  <2>. SUFFICES ASSUME NEW i \in 1..(m + n), NEW j \in 1..(m + n), u[i] = u[j]
                PROVE  i = j
    BY <1>2 DEF IsInjective
  <2>1. CASE i \in 1..m /\ j \in 1..m
    BY <1>1, <1>4, <2>1 DEF IsInjective
  <2>2. CASE i \notin 1..m /\ j \notin 1..m
    <3>1. i - m = j - m
      BY <1>1, <1>3, <2>2 DEF IsInjective
    <3>. QED  BY <1>1, <3>1
  <2>3. ASSUME NEW k \in 1..m, NEW l \in 1..n PROVE s[k] # t[l]
    BY <1>1 DEF Range
  <2>. QED  BY <1>3, <2>1, <2>2, <2>3
<1>6. Range(u) = Range(s) \cup Range(t)
  <2>1. ASSUME NEW e \in Range(u) PROVE e \in Range(s) \/ e \in Range(t)
    BY <1>1, <1>2, <1>3 DEF Range
  <2>2. ASSUME NEW i \in 1..m PROVE s[i] \in Range(u)
    BY <1>2, <1>4 DEF Range
  <2>3. ASSUME NEW i \in 1..n PROVE t[i] \in Range(u)
    BY <1>2, <1>4 DEF Range
  <2>. QED  BY <1>1, <2>1, <2>2, <2>3 DEF Range
<1>. QED  BY <1>2, <1>5, <1>6 DEF IsList, u

\* What EraseEvents leaves and what it takes out.
LEMMA KeptList ==
    ASSUME NEW T, NEW s, IsList(s, T), NEW S
    PROVE  IsList(Kept(s, S), T) /\ Range(Kept(s, S)) = Range(s) \cap S
<1>1. s \in Seq(T) /\ \A i, j \in DOMAIN s : s[i] = s[j] => i = j
  BY DEF IsList, IsInjective
<1>2. /\ Kept(s, S) \in Seq(T \cap S) /\ ToSet(Kept(s, S)) = ToSet(s) \cap S
      /\ \A i, j \in DOMAIN Kept(s, S) : Kept(s, S)[i] = Kept(s, S)[j] => i = j
  BY <1>1, KeptProperties
<1>3. Kept(s, S) \in Seq(T)
  BY <1>2, SeqMonotonic
<1>. QED  BY <1>2, <1>3 DEF IsList, IsInjective, ToSet, Range

(***************************************************************************)
(* The operations of the queue.                                            *)
(***************************************************************************)

Lists ==
    /\ IsList(ready, Objects) /\ IsList(unused, Objects)
    /\ Range(ready) \cap Range(unused) = {}

QueueType ==
    /\ event \in [Objects -> Events \cup {None}]
    /\ recent \in BOOLEAN

LEMMA ListsArePool ==
    ASSUME Lists PROVE PoolIntegrity
<1>1. IsList(ready \o unused, Objects)
  BY JoinedLists DEF Lists
<1>. QED  BY <1>1 DEF PoolIntegrity, IsList, IsInjective

LEMMA PooledList ==
    ASSUME Lists, NEW objects, IsList(objects, Objects),
           Range(objects) \cap Range(unused) = {}
    PROVE  /\ IsList(Pooled(objects), Objects)
           /\ Range(Pooled(objects)) \subseteq Range(unused) \cup Range(objects)
<1>. DEFINE room == IF KeepUnused < Len(unused) THEN 0 ELSE KeepUnused + 1 - Len(unused)
            kept == IF recent \/ Len(objects) <= room THEN objects
                    ELSE SubSeq(objects, 1, room)
<1>1. /\ Len(objects) \in Nat /\ Len(unused) \in Nat /\ KeepUnused \in Nat
  BY LenProperties, SizeAssumption DEF Lists, IsList
<1>2. room \in Nat
  BY <1>1
<1>. HIDE DEF room
<1>3. IsList(kept, Objects) /\ Range(kept) \subseteq Range(objects)
  <2>1. CASE recent \/ Len(objects) <= room
    BY <2>1
  <2>2. CASE ~(recent \/ Len(objects) <= room)
    <3>1. room <= Len(objects)
      BY <1>1, <1>2, <2>2
    <3>. QED  BY <1>2, <2>2, <3>1, InitialPart
  <2>. QED  BY <2>1, <2>2
<1>4. Pooled(objects) = unused \o kept
  BY DEF Pooled, room
<1>. HIDE DEF kept
<1>5. IsList(unused, Objects) /\ Range(unused) \cap Range(kept) = {}
  BY <1>3 DEF Lists
<1>6. IsList(unused \o kept, Objects) /\ Range(unused \o kept) = Range(unused) \cup Range(kept)
  BY <1>3, <1>5, JoinedLists
<1>. QED  BY <1>3, <1>4, <1>6

LEMMA EmptyList == IsList(<<>>, Objects) /\ Range(<<>>) = {}
BY EmptySeq DEF IsList, IsInjective, Range

\* The new object is not queued; it is unused or did not exist.
LEMMA PushKeepsLists ==
    ASSUME Lists, QueueType, NEW e \in Events, Push(e)
    PROVE  /\ Lists' /\ QueueType'
           /\ \E o \in Objects \ Range(ready) :
                ready' = Append(ready, o) /\ event' = [event EXCEPT ![o] = e]
<1>. DEFINE o == IF unused = <<>> THEN Fresh ELSE Last(unused)
<1>1. /\ unused = <<>> => Allocated # Objects
      /\ ready' = Append(ready, o) /\ event' = [event EXCEPT ![o] = e]
      /\ unused' = IF unused = <<>> THEN <<>> ELSE Front(unused)
      /\ recent' = (recent \/ unused = <<>>)
  BY DEF Push
<1>2. IsList(ready, Objects) /\ IsList(unused, Objects) /\ Range(ready) \cap Range(unused) = {}
  BY DEF Lists
<1>3. /\ o \in Objects \ Range(ready)
      /\ IsList(unused', Objects) /\ Range(unused') \subseteq Range(unused) \ {o}
  <2>1. CASE unused = <<>>
    <3>1. Allocated \subseteq Objects
      <4>1. \A s : IsList(s, Objects) => Range(s) \subseteq Objects
        BY LenProperties, ElementOfSeq DEF IsList, Range
      <4>. QED  BY <1>2, <4>1 DEF Allocated
    <3>2. Fresh \in Objects \ Allocated
      BY <1>1, <2>1, <3>1, Zenon DEF Fresh
    <3>. QED  BY <1>1, <2>1, <3>2, EmptyList DEF Allocated
  <2>2. CASE unused # <<>>
    <3>1. /\ IsList(Front(unused), Objects) /\ Last(unused) \in Objects
          /\ Range(Front(unused)) = Range(unused) \ {Last(unused)}
          /\ Last(unused) \in Range(unused)
      BY <1>2, <2>2, FrontOfList
    <3>. QED  BY <1>1, <1>2, <2>2, <3>1
  <2>. QED  BY <2>1, <2>2
<1>. HIDE DEF o
<1>4. IsList(ready', Objects) /\ Range(ready') = Range(ready) \cup {o}
  BY <1>1, <1>2, <1>3, AppendedList
<1>5. Lists'
  BY <1>2, <1>3, <1>4 DEF Lists
<1>6. QueueType'
  BY <1>1, <1>3 DEF QueueType
<1>. QED  BY <1>1, <1>3, <1>5, <1>6

LEMMA EraseKeepsLists ==
    ASSUME Lists, QueueType, NEW E, Erase(E)
    PROVE  Lists' /\ QueueType'
<1>. DEFINE S == {o \in Objects : event[o] \in E}
            out == Kept(ready, S)
            left == Kept(ready, Objects \ S)
<1>1. unused' = Pooled(out) /\ ready' = left /\ event' = event /\ recent' = recent
  BY DEF Erase
<1>2. IsList(ready, Objects) /\ Range(ready) \cap Range(unused) = {}
  BY DEF Lists
<1>3. /\ IsList(out, Objects) /\ Range(out) = Range(ready) \cap S
      /\ IsList(left, Objects) /\ Range(left) = Range(ready) \cap (Objects \ S)
  BY <1>2, KeptList
<1>. HIDE DEF out, left, S
<1>4. IsList(Pooled(out), Objects) /\ Range(Pooled(out)) \subseteq Range(unused) \cup Range(out)
  BY <1>2, <1>3, PooledList
<1>5. Lists'
  BY <1>1, <1>2, <1>3, <1>4 DEF Lists
<1>. QED  BY <1>1, <1>5 DEF QueueType

LEMMA ReleaseKeepsLists ==
    ASSUME Lists, ready # <<>>, unused' = Pooled(<<Head(ready)>>), ready' = Tail(ready)
    PROVE  Lists'
<1>. DEFINE h == <<Head(ready)>>
<1>1. IsList(ready, Objects) /\ IsList(unused, Objects) /\ Range(ready) \cap Range(unused) = {}
  BY DEF Lists
<1>2. /\ IsList(Tail(ready), Objects) /\ Head(ready) \in Objects
      /\ Range(Tail(ready)) = Range(ready) \ {Head(ready)} /\ Head(ready) \in Range(ready)
  BY <1>1, TailOfList
<1>3. IsList(h, Objects) /\ Range(h) = {Head(ready)}
  <2>1. h \in Seq(Objects) /\ DOMAIN h = {1} /\ h[1] = Head(ready)
    BY <1>2
  <2>. QED  BY <2>1 DEF IsList, IsInjective, Range
<1>4. IsList(Pooled(h), Objects) /\ Range(Pooled(h)) \subseteq Range(unused) \cup Range(h)
  BY <1>1, <1>2, <1>3, PooledList
<1>. QED  BY <1>1, <1>2, <1>3, <1>4 DEF Lists

(***************************************************************************)
(* The invariant.                                                          *)
(***************************************************************************)

RestType ==
    /\ blocked \subseteq Clients /\ actors \subseteq Clients
    /\ checked \subseteq Events
    /\ main \in {"draining", "retrieved", "handled", "updating", "ending", "stopped"}
    /\ ge \in Objects \cup {None}
    /\ main \in {"retrieved", "handled"} => ge # None
    /\ main \in {"draining", "updating", "ending"} => ge = None
    /\ phase \in {"pending", "progress"}
    /\ stage \in [Clients -> Stages]

IndInv == Lists /\ QueueType /\ RestType

LEMMA IndInvIsTypeOK == IndInv => TypeOK
BY DEF IndInv, Lists, IsList, QueueType, RestType, TypeOK

LEMMA InitHolds == Init => IndInv
<1>. SUFFICES ASSUME Init PROVE IndInv
  OBVIOUS
<1>1. IsList(unused, Objects)
  <2>1. InitialUnused \in Nat /\ 1..InitialUnused \subseteq Objects
    BY SizeAssumption DEF Objects
  <2>2. unused = [i \in 1..InitialUnused |-> i]
    BY DEF Init
  <2>3. unused \in Seq(Objects)
    BY <2>1, <2>2
  <2>. QED  BY <2>2, <2>3 DEF IsList, IsInjective
<1>2. Lists
  BY <1>1, EmptyList DEF Init, Lists
<1>3. QueueType
  BY DEF Init, QueueType
<1>4. RestType
  BY DEF Init, RestType, Stages
<1>. QED  BY <1>2, <1>3, <1>4 DEF IndInv

\* A step that leaves the lists alone, or posts, or erases.
QueueStep ==
    \/ UNCHANGED queue
    \/ \E e \in Events : Push(e)
    \/ \E E \in SUBSET Events : Erase(E)

LEMMA QueueStepKeeps ==
    ASSUME IndInv, QueueStep PROVE Lists' /\ QueueType'
<1>1. Lists /\ QueueType
  BY DEF IndInv
<1>2. CASE UNCHANGED queue
  BY <1>1, <1>2 DEF queue, Lists, QueueType
<1>3. CASE \E e \in Events : Push(e)
  BY <1>1, <1>3, PushKeepsLists
<1>4. CASE \E E \in SUBSET Events : Erase(E)
  BY <1>1, <1>4, EraseKeepsLists
<1>. QED  BY <1>2, <1>3, <1>4 DEF QueueStep

LEMMA AboutIsEvent ==
    ASSUME NEW t \in Types, NEW c \in Clients PROVE About(t, c) \in Events
BY DEF About, Events

LEMMA NextStep == IndInv /\ [Next]_vars => IndInv'
<1>. SUFFICES ASSUME IndInv, [Next]_vars PROVE IndInv'
  OBVIOUS
<1>0. Lists /\ QueueType /\ RestType
  BY DEF IndInv
<1>1. CASE Retreive
  <2>1. QueueStep
    BY <1>1 DEF Retreive, QueueStep
  <2>2. Head(ready) \in Objects
    BY <1>0, <1>1, TailOfList DEF Retreive, Lists
  <2>3. None \notin Objects
    BY SizeAssumption DEF Objects
  <2>4. RestType'
    BY <1>0, <1>1, <2>2, <2>3 DEF Retreive, RestType, players
  <2>. QED  BY <2>1, <2>4, QueueStepKeeps DEF IndInv
<1>2. CASE Drained
  <2>1. /\ IsList(ready, Objects) /\ IsList(unused, Objects) /\ Range(ready) \cap Range(unused) = {}
        /\ ready' = ready /\ event' = event /\ recent' = recent
        /\ unused' = unused \/ (unused # <<>> /\ unused' = Front(unused))
    <3>1. KeepUnused \in Nat /\ Len(<<>>) = 0
      BY SizeAssumption
    <3>2. KeepUnused < Len(unused) => unused # <<>>
      BY <3>1
    <3>. QED  BY <1>0, <1>2, <3>2 DEF Drained, Lists
  <2>2. IsList(unused', Objects) /\ Range(unused') \subseteq Range(unused)
    BY <2>1, FrontOfList
  <2>3. Lists' /\ QueueType'
    BY <1>0, <2>1, <2>2 DEF Lists, QueueType
  <2>4. RestType'
    BY <1>0, <1>2 DEF Drained, RestType, players
  <2>. QED  BY <2>3, <2>4 DEF IndInv
<1>3. CASE OnEvent
  <2>1. QueueStep
    BY <1>3 DEF OnEvent, QueueStep
  <2>2. PICK c \in Clients :
          \/ RunCreate(c) \/ RunState(c) \/ RunStateOfNobody(c)
          \/ \E rightMap \in BOOLEAN : RunStarted(c, rightMap)
          \/ RunLeft(c) \/ RunOther(c)
    BY <1>3 DEF OnEvent
  <2>3. main = "retrieved" /\ checked' = checked /\ ge' = ge /\ phase' = phase
    BY <1>3 DEF OnEvent
  <2>4. main' \in {"handled", "stopped"}
    BY <2>2 DEF RunCreate, RunState, RunStateOfNobody, RunStarted, RunLeft, RunOther
  <2>5. blocked' \subseteq Clients /\ actors' \subseteq Clients
    BY <1>0, <2>2 DEF RunCreate, RunState, RunStateOfNobody, RunStarted, RunLeft, RunOther,
                      RestType, players
  <2>6. stage' \in [Clients -> Stages]
    BY <1>0, <2>2 DEF RunCreate, RunState, RunStateOfNobody, RunStarted, RunLeft, RunOther,
                      RestType, players, Stages
  <2>7. RestType'
    BY <1>0, <2>3, <2>4, <2>5, <2>6 DEF RestType
  <2>. QED  BY <2>1, <2>7, QueueStepKeeps DEF IndInv
<1>4. CASE Release
  <2>1. Lists'
    BY <1>0, <1>4, ReleaseKeepsLists DEF Release
  <2>2. QueueType' /\ RestType'
    BY <1>0, <1>4 DEF Release, QueueType, RestType, players
  <2>. QED  BY <2>1, <2>2 DEF IndInv
<1>5. CASE ReleaseOfNothing
  <2>1. QueueStep
    BY <1>5 DEF ReleaseOfNothing, QueueStep
  <2>2. RestType'
    BY <1>0, <1>5 DEF ReleaseOfNothing, RestType, players
  <2>. QED  BY <2>1, <2>2, QueueStepKeeps DEF IndInv
<1>6. CASE OnRoundStart \/ OnRoundEnd
  <2>1. QueueStep
    BY <1>6 DEF OnRoundStart, OnRoundEnd, QueueStep
  <2>2. RestType'
    BY <1>0, <1>6 DEF OnRoundStart, OnRoundEnd, RestType, players
  <2>. QED  BY <2>1, <2>2, QueueStepKeeps DEF IndInv
<1>7. CASE IgnoreEvents \/ NextUpdate
  <2>1. QueueStep
    BY <1>7 DEF IgnoreEvents, NextUpdate, QueueStep
  <2>2. RestType'
    BY <1>0, <1>7 DEF IgnoreEvents, NextUpdate, RestType, players, Known
  <2>. QED  BY <2>1, <2>2, QueueStepKeeps DEF IndInv
<1>8. ASSUME NEW c \in Clients, Spawn(c) \/ CheckPlay(c) PROVE IndInv'
  <2>1. QueueStep
    BY <1>8 DEF Spawn, CheckPlay, QueueStep
  <2>2. About("play", c) \in Events
    BY AboutIsEvent DEF Types
  <2>3. RestType'
    BY <1>0, <1>8, <2>2 DEF Spawn, CheckPlay, RestType, players
  <2>. QED  BY <2>1, <2>3, QueueStepKeeps DEF IndInv
<1>9. ASSUME NEW c \in Clients, Hurt(c) \/ SendStarted(c) PROVE IndInv'
  <2>1. About("hurt", c) \in Events /\ About("started", c) \in Events
    BY AboutIsEvent DEF Types
  <2>2. QueueStep
    BY <1>9, <2>1 DEF Hurt, SendStarted, QueueStep
  <2>3. RestType'
    BY <1>0, <1>9 DEF Hurt, SendStarted, RestType, players
  <2>. QED  BY <2>2, <2>3, QueueStepKeeps DEF IndInv
<1>10. ASSUME NEW c \in Clients,
              Connect(c) \/ CheckCreate(c) \/ SendState(c) \/ OnCL_Disconnected(c)
                \/ client_Destroy(c)
       PROVE  IndInv'
  <2>1. /\ About("create", c) \in Events /\ About("state", c) \in Events
        /\ About("left", c) \in Events /\ {About("hurt", c)} \in SUBSET Events
    BY AboutIsEvent DEF Types
  <2>2. QueueStep
    BY <1>10, <2>1 DEF Connect, CheckCreate, SendState, OnCL_Disconnected, client_Destroy, QueueStep
  <2>3. stage' \in [Clients -> Stages]
    BY <1>0, <1>10 DEF Connect, CheckCreate, SendState, OnCL_Disconnected, client_Destroy,
                       RestType, Stages
  <2>4. checked' \subseteq Events
    BY <1>0, <1>10, <2>1 DEF Connect, CheckCreate, SendState, OnCL_Disconnected, client_Destroy,
                             RestType
  <2>5. UNCHANGED <<blocked, actors, main, ge, phase>>
    BY <1>10 DEF Connect, CheckCreate, SendState, OnCL_Disconnected, client_Destroy
  <2>6. RestType'
    BY <1>0, <2>3, <2>4, <2>5 DEF RestType
  <2>. QED  BY <2>2, <2>6, QueueStepKeeps DEF IndInv
<1>11. CASE PushChecked
  <2>1. QueueStep
    BY <1>0, <1>11 DEF PushChecked, QueueStep, RestType
  <2>2. RestType'
    BY <1>0, <1>11 DEF PushChecked, RestType, players
  <2>. QED  BY <2>1, <2>2, QueueStepKeeps DEF IndInv
<1>12. CASE MinutePasses
  BY <1>0, <1>12 DEF MinutePasses, IndInv, Lists, QueueType, RestType, players
<1>13. CASE UNCHANGED vars
  BY <1>0, <1>13 DEF vars, queue, players, IndInv, Lists, QueueType, RestType
<1>. QED  BY <1>1, <1>2, <1>3, <1>4, <1>5, <1>6, <1>7, <1>8, <1>9, <1>10, <1>11, <1>12, <1>13
          DEF Next, Processing

LEMMA Invariance == Spec => []IndInv
BY InitHolds, NextStep, PTL DEF Spec

\* Every variable of the event queue has its type.
THEOREM TypeCorrect == Spec => []TypeOK
BY Invariance, IndInvIsTypeOK, PTL

\* Create never hands out an event object that is still queued, and none is
\* recycled or deleted twice, whatever the threads do: a leaver may erase the
\* event that is being run.
THEOREM PoolIntegrityAlways == Spec => []PoolIntegrity
<1>1. IndInv => PoolIntegrity
  BY ListsArePool DEF IndInv
<1>. QED  BY <1>1, Invariance, PTL

(***************************************************************************)
(* The contents m of a sequence s of objects.                              *)
(***************************************************************************)

Contents(s, m) == [i \in DOMAIN s |-> m[s[i]]]

LEMMA ContentsTyped ==
    ASSUME NEW T, NEW s \in Seq(T), NEW m, NEW E, \A o \in Range(s) : m[o] \in E
    PROVE  /\ Contents(s, m) \in Seq(E) /\ Len(Contents(s, m)) = Len(s)
           /\ DOMAIN Contents(s, m) = 1..Len(s)
           /\ \A i \in 1..Len(s) : Contents(s, m)[i] = m[s[i]]
<1>. DEFINE c == Contents(s, m)
<1>1. DOMAIN s = 1..Len(s) /\ Len(s) \in Nat
  BY LenProperties
<1>2. \A i \in 1..Len(s) : m[s[i]] \in E
  BY <1>1 DEF Range
<1>3. c = [i \in 1..Len(s) |-> m[s[i]]]
  BY <1>1 DEF Contents
<1>4. c \in Seq(E)
  BY <1>1, <1>2, <1>3, IsASeq
<1>. HIDE DEF c
<1>5. Len(c) = Len(s)
  BY <1>1, <1>3, <1>4, LenProperties
<1>. QED  BY <1>3, <1>4, <1>5 DEF c

LEMMA AppendThenTail ==
    ASSUME NEW T, NEW s \in Seq(T), s # <<>>, NEW o \in T
    PROVE  /\ Append(s, o) # <<>> /\ Head(Append(s, o)) = Head(s)
           /\ Tail(Append(s, o)) = Append(Tail(s), o)
<1>. DEFINE t == Append(s, o)
            n == Len(s)
            u == Tail(t)
            v == Append(Tail(s), o)
<1>1. n \in Nat /\ n > 0 /\ Head(s) = s[1]
  BY LenProperties, EmptySeq
<1>2. /\ t \in Seq(T) /\ t # <<>> /\ Len(t) = n + 1 /\ t[n + 1] = o
      /\ \A i \in 1..n : t[i] = s[i]
  BY AppendProperties
<1>3. /\ Tail(s) \in Seq(T) /\ Len(Tail(s)) = n - 1
      /\ \A i \in 1..(n - 1) : Tail(s)[i] = s[i + 1]
  BY HeadTailProperties
<1>4. /\ u \in Seq(T) /\ Len(u) = (n + 1) - 1
      /\ \A i \in 1..Len(u) : u[i] = t[i + 1]
  <2>. HIDE DEF t
  <2>. QED  BY <1>2, HeadTailProperties
<1>5. /\ v \in Seq(T) /\ Len(v) = (n - 1) + 1 /\ v[(n - 1) + 1] = o
      /\ \A i \in 1..(n - 1) : v[i] = Tail(s)[i]
  BY <1>3, AppendProperties
<1>6. Head(t) = t[1]
  BY <1>2
<1>7. t # <<>> /\ Head(t) = Head(s)
  <2>1. 1 \in 1..n
    BY <1>1
  <2>. QED  BY <1>1, <1>2, <1>6, <2>1
<1>. HIDE DEF t, u, v, n
<1>8. Len(u) = n /\ Len(v) = n /\ v[n] = o
  <2>1. (n + 1) - 1 = n /\ (n - 1) + 1 = n
    BY <1>1
  <2>. QED  BY <1>4, <1>5, <2>1
<1>9. ASSUME NEW i \in 1..n PROVE u[i] = v[i]
  <2>1. u[i] = t[i + 1]
    BY <1>4, <1>8
  <2>2. CASE i = n
    BY <1>2, <1>8, <2>1, <2>2
  <2>3. CASE i # n
    <3>1. i \in 1..(n - 1) /\ i + 1 \in 1..n
      BY <1>1, <2>3
    <3>. QED  BY <1>2, <1>3, <1>5, <2>1, <3>1
  <2>. QED  BY <2>2, <2>3
<1>10. u = v
  BY <1>4, <1>5, <1>8, <1>9, SeqEqual
<1>. QED  BY <1>7, <1>10 DEF t, u, v

IsAppended(t, s, o) == t = Append(s, o)

LEMMA ContentsOfAppended ==
    ASSUME NEW T, NEW s \in Seq(T), NEW o \in T, o \notin Range(s),
           NEW t, IsAppended(t, s, o), NEW m, NEW e, NEW w, w[o] = e, \A x \in Range(s) : w[x] = m[x]
    PROVE  IsAppended(Contents(t, w), Contents(s, m), e)
<1>. DEFINE E == {m[x] : x \in Range(s)} \cup {e}
            n == Len(s)
            c == Contents(s, m)
            d == Contents(t, w)
<1>1. n \in Nat /\ DOMAIN s = 1..n /\ \A i \in 1..n : s[i] \in T
  BY LenProperties, ElementOfSeq
<1>2. /\ t \in Seq(T) /\ Len(t) = n + 1 /\ t[n + 1] = o /\ DOMAIN t = 1..(n + 1)
      /\ \A i \in 1..n : t[i] = s[i]
  BY AppendProperties, LenProperties DEF IsAppended
<1>3. /\ w[o] = e /\ \A x \in Range(s) : w[x] = m[x]
      /\ e \in E /\ \A x \in Range(s) : m[x] \in E
  OBVIOUS
<1>. HIDE DEF E
<1>4. /\ c \in Seq(E) /\ Len(c) = n /\ \A i \in 1..n : c[i] = m[s[i]]
  BY <1>3, ContentsTyped, ZenonT(40)
<1>. HIDE DEF c, n
<1>5. \A i \in 1..(n + 1) : i \in 1..n \/ i = n + 1
  BY <1>1
<1>6. \A x \in Range(t) : w[x] \in E
  <2>1. ASSUME NEW i \in 1..n PROVE w[t[i]] \in E
    BY <1>1, <1>2, <1>3 DEF Range
  <2>. QED  BY <1>2, <1>3, <1>5, <2>1 DEF Range
<1>7. /\ d \in Seq(E) /\ Len(d) = n + 1 /\ \A i \in 1..(n + 1) : d[i] = w[t[i]]
  <2>1. /\ d \in Seq(E) /\ Len(d) = Len(t) /\ \A i \in 1..Len(t) : d[i] = w[t[i]]
    <3>1. t \in Seq(T) /\ \A x \in Range(t) : w[x] \in E
      BY <1>2, <1>6
    <3>. QED  BY <3>1, ContentsTyped, ZenonT(40)
  <2>. HIDE DEF d
  <2>. QED  BY <1>2, <2>1
<1>8. /\ Append(c, e) \in Seq(E) /\ Len(Append(c, e)) = n + 1
      /\ Append(c, e)[n + 1] = e /\ \A i \in 1..n : Append(c, e)[i] = c[i]
  BY <1>3, <1>4, AppendProperties
<1>. HIDE DEF d
<1>9. ASSUME NEW i \in 1..(n + 1) PROVE d[i] = Append(c, e)[i]
  <2>1. CASE i = n + 1
    BY <1>2, <1>3, <1>7, <1>8, <2>1
  <2>2. CASE i \in 1..n
    <3>1. s[i] \in Range(s)
      BY <1>1, <2>2 DEF Range
    <3>. QED  BY <1>2, <1>3, <1>4, <1>7, <1>8, <2>2, <3>1
  <2>. QED  BY <1>5, <2>1, <2>2
<1>10. d = Append(c, e)
  BY <1>7, <1>8, <1>9, SeqEqual
<1>. QED  BY <1>10 DEF c, d, IsAppended

LEMMA ContentsOfTail ==
    ASSUME NEW T, NEW s \in Seq(T), s # <<>>, NEW m, NEW E, \A x \in Range(s) : m[x] \in E
    PROVE  /\ Contents(s, m) # <<>> /\ Head(Contents(s, m)) = m[Head(s)]
           /\ Contents(Tail(s), m) = Tail(Contents(s, m))
<1>. DEFINE n == Len(s)
            c == Contents(s, m)
            d == Contents(Tail(s), m)
<1>1. n \in Nat /\ n > 0 /\ DOMAIN s = 1..n /\ Head(s) = s[1]
  BY LenProperties, EmptySeq
<1>2. /\ c \in Seq(E) /\ Len(c) = n /\ \A i \in 1..n : c[i] = m[s[i]]
  BY ContentsTyped
<1>3. /\ Tail(s) \in Seq(T) /\ Len(Tail(s)) = n - 1 /\ DOMAIN Tail(s) = 1..(n - 1)
      /\ \A i \in 1..(n - 1) : Tail(s)[i] = s[i + 1]
  BY HeadTailProperties, LenProperties
<1>0. n \in Nat /\ n > 0
  BY <1>1
<1>. HIDE DEF n, c
<1>4. 1 \in 1..n /\ \A i \in 1..(n - 1) : i + 1 \in 1..n
  BY <1>0
<1>5. \A x \in Range(Tail(s)) : m[x] \in E
  BY <1>1, <1>3, <1>4 DEF Range
<1>6. /\ d \in Seq(E) /\ Len(d) = n - 1 /\ \A i \in 1..(n - 1) : d[i] = m[Tail(s)[i]]
  <2>1. /\ d \in Seq(E) /\ Len(d) = Len(Tail(s))
        /\ \A i \in 1..Len(Tail(s)) : d[i] = m[Tail(s)[i]]
    <3>. DEFINE q == Tail(s)
    <3>. HIDE DEF q
    <3>1. q \in Seq(T) /\ \A x \in Range(q) : m[x] \in E
      BY <1>3, <1>5 DEF q
    <3>2. /\ Contents(q, m) \in Seq(E) /\ Len(Contents(q, m)) = Len(q)
          /\ \A i \in 1..Len(q) : Contents(q, m)[i] = m[q[i]]
      BY <3>1, ContentsTyped
    <3>. QED  BY <3>2 DEF q
  <2>. HIDE DEF d
  <2>. QED  BY <1>3, <2>1
<1>7. c # <<>> /\ Head(c) = c[1]
  BY <1>0, <1>2, EmptySeq
<1>8. /\ Tail(c) \in Seq(E) /\ Len(Tail(c)) = n - 1
      /\ \A i \in 1..(n - 1) : Tail(c)[i] = c[i + 1]
  BY <1>2, <1>7, HeadTailProperties
<1>. HIDE DEF d
<1>9. d = Tail(c)
  <2>1. ASSUME NEW i \in 1..(n - 1) PROVE d[i] = Tail(c)[i]
    BY <1>2, <1>3, <1>4, <1>6, <1>8
  <2>. QED  BY <1>6, <1>8, <2>1, SeqEqual
<1>. QED  BY <1>1, <1>2, <1>4, <1>7, <1>9 DEF c, d

LEMMA ContentsOfKept ==
    ASSUME NEW T, NEW s \in Seq(T), NEW m, NEW S, NEW C,
           \A o \in Range(s) : o \in S <=> m[o] \in C
    PROVE  Kept(Contents(s, m), C) = Contents(Kept(s, S), m)
<1>. DEFINE c == Contents(s, m)
            K == {i \in DOMAIN s : s[i] \in S}
            f == Numbering(K)
<1>1. DOMAIN s = 1..Len(s) /\ Len(s) \in Nat
  BY LenProperties
<1>2. DOMAIN c = DOMAIN s /\ \A i \in DOMAIN s : c[i] = m[s[i]]
  BY DEF Contents
<1>3. {i \in DOMAIN c : c[i] \in C} = K
  <2>. HIDE DEF c
  <2>. QED  BY <1>2 DEF Range
<1>4. f \in [1..Cardinality(K) -> K]
  <2>1. K \in SUBSET (1..Len(s)) /\ 1..Len(s) \subseteq Int
    BY <1>1
  <2>2. IsFiniteSet(1..Len(s))
    BY <1>1, FS_Interval
  <2>. HIDE DEF K
  <2>3. IsFiniteSet(K)
    BY <2>1, <2>2, FS_Subset
  <2>. QED  BY <2>1, <2>3, NumberingWorks DEF IsNumbering
<1>5. Kept(c, C) = [k \in 1..Cardinality(K) |-> c[f[k]]]
  <2>. HIDE DEF c, K
  <2>. QED  BY <1>3 DEF Kept
<1>6. Kept(s, S) = [k \in 1..Cardinality(K) |-> s[f[k]]]
  BY DEF Kept
<1>. HIDE DEF f, c
<1>7. \A k \in 1..Cardinality(K) : c[f[k]] = m[s[f[k]]]
  BY <1>2, <1>4
<1>. HIDE DEF K
<1>8. Kept(c, C) = Contents(Kept(s, S), m)
  BY <1>5, <1>6, <1>7 DEF Contents
<1>. QED  BY <1>8 DEF c

(***************************************************************************)
(* With patient leavers, the queue implements EventLog.  The event being   *)
(* run stays at the front: nothing is erased meanwhile.                    *)
(***************************************************************************)

Filled  == \A o \in Range(ready) : event[o] \in Events
Held    == ge # None => ready # <<>> /\ ge = Head(ready)
LogInv  == IndInv /\ Filled /\ Held

\* What a step does to the log.
LogStep ==
    \/ UNCHANGED <<ready, event, ge>>
    \/ ge' = ge /\ \E e \in Events : Push(e)
    \/ ge = None /\ ge' = None /\ \E E \in SUBSET Events : Erase(E)
    \/ ge = None /\ Retreive
    \/ ge # None /\ Release

LEMMA StepsOfLog ==
    ASSUME PatientLeavers, IndInv, [Next]_vars PROVE LogStep
<1>0. RestType
  BY DEF IndInv
<1>1. CASE Retreive \/ Release
  BY <1>0, <1>1 DEF Retreive, Release, LogStep, RestType
<1>2. CASE Drained \/ OnEvent \/ ReleaseOfNothing
  BY <1>2 DEF Drained, OnEvent, ReleaseOfNothing, LogStep, queue
<1>3. CASE OnRoundStart \/ OnRoundEnd
  BY <1>0, <1>3 DEF OnRoundStart, OnRoundEnd, LogStep, RestType
<1>4. CASE IgnoreEvents \/ NextUpdate \/ MinutePasses
  BY <1>4 DEF IgnoreEvents, NextUpdate, MinutePasses, LogStep, queue
<1>5. ASSUME NEW c \in Clients,
             Spawn(c) \/ Connect(c) \/ CheckCreate(c) \/ CheckPlay(c)
      PROVE  LogStep
  BY <1>5 DEF Spawn, Connect, CheckCreate, CheckPlay, LogStep, queue
<1>6. ASSUME NEW c \in Clients,
             Hurt(c) \/ SendState(c) \/ SendStarted(c) \/ OnCL_Disconnected(c)
      PROVE  LogStep
  <2>1. /\ About("hurt", c) \in Events /\ About("state", c) \in Events
        /\ About("started", c) \in Events /\ About("left", c) \in Events
    BY AboutIsEvent DEF Types
  <2>. QED  BY <1>6, <2>1 DEF Hurt, SendState, SendStarted, OnCL_Disconnected, LogStep, queue
<1>7. ASSUME NEW c \in Clients, client_Destroy(c), main # "stopped" PROVE LogStep
  <2>1. About("hurt", c) \in Events
    BY AboutIsEvent DEF Types
  <2>2. ge = None /\ ge' = ge
    BY <1>0, <1>7 DEF client_Destroy, RestType
  <2>. QED  BY <1>7, <2>1, <2>2 DEF client_Destroy, LogStep, queue
<1>8. CASE PushChecked
  BY <1>0, <1>8 DEF PushChecked, LogStep, RestType
<1>9. CASE UNCHANGED vars
  BY <1>9 DEF vars, queue, LogStep
<1>. QED  BY <1>1, <1>2, <1>3, <1>4, <1>5, <1>6, <1>7, <1>8, <1>9 DEF Next, Processing

LEMMA LogInvInit == Init => LogInv
BY InitHolds, EmptyList DEF LogInv, Filled, Held, Init

LEMMA LogInvStep ==
    ASSUME PatientLeavers, LogInv, [Next]_vars PROVE LogInv'
<1>0. /\ Lists /\ QueueType /\ RestType /\ Filled /\ Held
      /\ IsList(ready, Objects) /\ ready \in Seq(Objects)
  BY DEF LogInv, IndInv, Lists, IsList
<1>1. IndInv'
  BY NextStep DEF LogInv
<1>2. LogStep
  BY StepsOfLog DEF LogInv
<1>3. CASE UNCHANGED <<ready, event, ge>>
  BY <1>0, <1>1, <1>3 DEF LogInv, Filled, Held
<1>4. ASSUME ge' = ge, NEW e \in Events, Push(e) PROVE LogInv'
  <2>1. PICK o \in Objects \ Range(ready) :
          ready' = Append(ready, o) /\ event' = [event EXCEPT ![o] = e]
    BY <1>0, <1>4, PushKeepsLists
  <2>2. Range(ready') = Range(ready) \cup {o}
    BY <1>0, <2>1, AppendedList
  <2>3. Filled'
    BY <1>0, <2>1, <2>2 DEF Filled, QueueType
  <2>4. Held'
    <3>1. ready # <<>> => ready' # <<>> /\ Head(ready') = Head(ready)
      BY <1>0, <2>1, AppendThenTail
    <3>. QED  BY <1>0, <1>4, <3>1 DEF Held
  <2>. QED  BY <1>1, <2>3, <2>4 DEF LogInv
<1>5. ASSUME ge' = None, NEW E \in SUBSET Events, Erase(E) PROVE LogInv'
  <2>1. ready' = Kept(ready, Objects \ {o \in Objects : event[o] \in E}) /\ event' = event
    BY <1>5 DEF Erase
  <2>2. Range(ready') \subseteq Range(ready)
    BY <1>0, <2>1, KeptList
  <2>. QED  BY <1>0, <1>1, <1>5, <2>1, <2>2 DEF LogInv, Filled, Held
<1>6. CASE Retreive
  <2>1. ready' = ready /\ event' = event /\ ready # <<>> /\ ge' = Head(ready)
    BY <1>6 DEF Retreive, queue
  <2>. QED  BY <1>0, <1>1, <2>1 DEF LogInv, Filled, Held
<1>7. CASE Release
  <2>1. ready' = Tail(ready) /\ event' = event /\ ready # <<>> /\ ge' = None
    BY <1>7 DEF Release
  <2>2. Range(ready') \subseteq Range(ready)
    BY <1>0, <2>1, TailOfList
  <2>. QED  BY <1>0, <1>1, <2>1, <2>2 DEF LogInv, Filled, Held
<1>. QED  BY <1>2, <1>3, <1>4, <1>5, <1>6, <1>7 DEF LogStep

pending == Contents(Waiting, event)
running == IF ge = None THEN None ELSE event[ge]

\* The steps of EventLog that the steps of the queue are.
LogNext ==
    \/ \E e \in Events : pending' = Append(pending, e) /\ running' = running
    \/ \E S \in SUBSET Range(pending) : pending' = Kept(pending, S) /\ running' = running
    \/ running = None /\ pending # <<>> /\ running' = Head(pending) /\ pending' = Tail(pending)
    \/ running # None /\ running' = None /\ pending' = pending

LEMMA StepOfLogIsNext ==
    ASSUME LogInv, LogStep
    PROVE  LogNext \/ (pending' = pending /\ running' = running)
<1>0. /\ Lists /\ QueueType /\ Filled /\ Held
      /\ IsList(ready, Objects) /\ ready \in Seq(Objects)
      /\ DOMAIN event = Objects
  BY DEF LogInv, IndInv, Lists, IsList, QueueType
<1>1. None \notin Events
  BY NoneAssumption
<1>2. CASE UNCHANGED <<ready, event, ge>>
  BY <1>2 DEF pending, running, Waiting
<1>3. ASSUME ge' = ge, NEW e \in Events, Push(e) PROVE LogNext
  <2>1. PICK o \in Objects \ Range(ready) :
          ready' = Append(ready, o) /\ event' = [event EXCEPT ![o] = e]
    BY <1>0, <1>3, PushKeepsLists
  <2>2. running' = running
    <3>1. ge # None => ge \in Range(ready) /\ ge # o
      BY <1>0, <2>1, TailOfList DEF Held
    <3>. QED  BY <1>0, <1>3, <2>1, <3>1 DEF running
  <2>3. /\ Waiting \in Seq(Objects) /\ o \notin Range(Waiting)
        /\ \A x \in Range(Waiting) : event[x] \in Events
        /\ Waiting' = Append(Waiting, o)
    <3>1. CASE ge = None
      BY <1>0, <1>3, <2>1, <3>1 DEF Waiting, Filled
    <3>2. CASE ge # None
      <4>1. ready # <<>>
        BY <1>0, <3>2 DEF Held
      <4>2. IsList(Tail(ready), Objects) /\ Range(Tail(ready)) \subseteq Range(ready)
        BY <1>0, <4>1, TailOfList
      <4>3. Tail(ready') = Append(Tail(ready), o)
        BY <1>0, <2>1, <4>1, AppendThenTail
      <4>. QED  BY <1>0, <1>3, <2>1, <3>2, <4>2, <4>3 DEF Waiting, Filled, IsList
    <3>. QED  BY <3>1, <3>2
  <2>4. event'[o] = e /\ \A x \in Range(Waiting) : event'[x] = event[x]
    <3>1. \A x \in Range(Waiting) : x \in Objects /\ x # o
      BY <2>3, ElementOfSeq, LenProperties DEF Range
    <3>. QED  BY <1>0, <2>1, <3>1
  <2>5. pending' = Append(pending, e)
    <3>1. IsAppended(Waiting', Waiting, o)
      BY <2>3 DEF IsAppended
    <3>2. IsAppended(Contents(Waiting', event'), Contents(Waiting, event), e)
      BY <2>3, <2>4, <3>1, ContentsOfAppended
    <3>. QED  BY <3>2 DEF pending, IsAppended
  <2>. QED  BY <2>2, <2>5 DEF LogNext
<1>4. ASSUME ge = None, ge' = None, NEW E \in SUBSET Events, Erase(E) PROVE LogNext
  <2>. DEFINE S == {o \in Objects : event[o] \in E}
              C == Range(pending) \ E
  <2>1. ready' = Kept(ready, Objects \ S) /\ event' = event
    BY <1>4 DEF Erase
  <2>2. pending = Contents(ready, event) /\ pending' = Contents(ready', event)
    BY <1>4, <2>1 DEF pending, Waiting
  <2>3. \A o \in Range(ready) : o \in Objects \ S <=> event[o] \in C
    <3>1. \A o \in Range(ready) : o \in Objects
      BY <1>0, ElementOfSeq, LenProperties DEF Range
    <3>2. \A o \in Range(ready) : event[o] \in Range(pending)
      BY <2>2 DEF Contents, Range
    <3>. QED  BY <3>1, <3>2
  <2>. HIDE DEF S, C
  <2>4. Kept(pending, C) = Contents(Kept(ready, Objects \ S), event)
    BY <1>0, <2>2, <2>3, ContentsOfKept
  <2>5. C \in SUBSET Range(pending)
    BY DEF C
  <2>6. running' = running
    BY <1>4 DEF running
  <2>. QED  BY <2>1, <2>2, <2>4, <2>5, <2>6 DEF LogNext
<1>5. CASE ge = None /\ Retreive
  <2>1. ready' = ready /\ event' = event /\ ready # <<>> /\ ge' = Head(ready)
    BY <1>5 DEF Retreive, queue
  <2>2. Head(ready) \in Objects /\ None \notin Objects
    BY <1>0, <2>1, TailOfList, SizeAssumption DEF Objects
  <2>3. pending = Contents(ready, event) /\ running = None
    BY <1>5 DEF pending, running, Waiting
  <2>4. pending' = Contents(Tail(ready), event) /\ running' = event[Head(ready)]
    BY <2>1, <2>2 DEF pending, running, Waiting
  <2>5. /\ Contents(ready, event) # <<>> /\ Head(Contents(ready, event)) = event[Head(ready)]
        /\ Contents(Tail(ready), event) = Tail(Contents(ready, event))
    BY <1>0, <2>1, ContentsOfTail DEF Filled
  <2>. QED  BY <2>3, <2>4, <2>5 DEF LogNext
<1>6. CASE ge # None /\ Release
  <2>1. ready' = Tail(ready) /\ event' = event /\ ge' = None /\ ready # <<>> /\ ge = Head(ready)
    BY <1>0, <1>6 DEF Release, Held
  <2>2. event[ge] \in Events
    BY <1>0, <2>1, TailOfList DEF Filled
  <2>3. running # None /\ running' = None
    BY <1>1, <1>6, <2>1, <2>2 DEF running
  <2>4. pending' = pending
    BY <1>6, <2>1 DEF pending, Waiting
  <2>. QED  BY <2>3, <2>4 DEF LogNext
<1>. QED  BY <1>2, <1>3, <1>4, <1>5, <1>6 DEF LogStep

LEMMA LogNextIsNext == LogNext => Log!Next
<1>0. \A K : Log!Numbering(K) = Numbering(K)
  BY DEF Log!Numbering, Numbering, Log!Cardinality, Cardinality
<1>1. \A s, S : Log!Kept(s, S) = Kept(s, S)
  BY <1>0 DEF Log!Kept, Kept, Log!Cardinality, Cardinality
<1>2. pending = [i \in DOMAIN Waiting |-> event[Waiting[i]]]
  BY DEF pending, Contents
<1>3. ASSUME NEW e \in Events, pending' = Append(pending, e), running' = running
      PROVE  Log!Post(e)
  BY <1>3 DEF Log!Post, pending, Contents, running
<1>4. ASSUME NEW S \in SUBSET Range(pending), pending' = Kept(pending, S), running' = running
      PROVE  Log!Withdraw(S)
  BY <1>1, <1>4 DEF Log!Withdraw, pending, Contents, running
<1>5. ASSUME running = None, pending # <<>>, running' = Head(pending), pending' = Tail(pending)
      PROVE  Log!Start
  BY <1>5 DEF Log!Start, pending, Contents, running
<1>6. ASSUME running # None, running' = None, pending' = pending
      PROVE  Log!Finish
  BY <1>6 DEF Log!Finish, pending, Contents, running
<1>7. Log!Range(pending) = Range(pending)
  BY DEF Log!Range, Range
<1>. QED  BY <1>2, <1>3, <1>4, <1>5, <1>6, <1>7 DEF LogNext, Log!Next

LEMMA LogInitIsInit == Init => Log!Init
<1>. SUFFICES ASSUME Init PROVE Log!Init
  OBVIOUS
<1>1. ge = None /\ ready = <<>>
  BY DEF Init
<1>2. [i \in DOMAIN <<>> |-> event[<<>>[i]]] = <<>>
  OBVIOUS
<1>. QED  BY <1>1, <1>2 DEF Log!Init, Waiting

\* If clients are destroyed only between events, the recycled objects run the
\* game's events once each, in the order in which they were posted, with the
\* content they were posted with.
THEOREM ImplementsEventLog == PatientLeavers => (Spec => IsEventLog)
<1>. SUFFICES ASSUME PatientLeavers PROVE Spec => IsEventLog
  OBVIOUS
<1>1. Init => LogInv /\ Log!Init
  BY LogInvInit, LogInitIsInit
<1>2. LogInv /\ [Next]_vars => LogInv'
  BY LogInvStep
<1>3. LogInv /\ [Next]_vars
        => [Log!Next]_<<[i \in DOMAIN Waiting |-> event[Waiting[i]]],
                        IF ge = None THEN None ELSE event[ge]>>
  <2>. SUFFICES ASSUME LogInv, [Next]_vars
                PROVE  Log!Next \/ (pending' = pending /\ running' = running)
    BY DEF pending, Contents, running
  <2>1. LogStep
    BY StepsOfLog DEF LogInv
  <2>. QED  BY <2>1, StepOfLogIsNext, LogNextIsNext
<1>. QED  BY <1>1, <1>2, <1>3, PTL DEF Spec, IsEventLog, Log!Spec

(***************************************************************************)
(* What an ignored client has posted.                                      *)
(***************************************************************************)

\* blocked grows only between the end of a round and the next: whatever of
\* ignored clients is queued then, the start of the round erases, and only one
\* play event is between the test of CreateSafe and the queue.
StaleInv ==
    /\ \A o \in Range(ready) : event[o] \in Events
    /\ \A e, f \in checked : e.type = "play" /\ f.type = "play" => e = f
    /\ main = "ending" => phase = "pending"
    /\ phase = "progress" =>
        /\ \A o, p \in Range(ready) : Stale(event[o]) /\ Stale(event[p]) => o = p
        /\ \A e \in checked, o \in Range(ready) : ~(Stale(e) /\ Stale(event[o]))

LEMMA QueuedAreObjects ==
    ASSUME Lists PROVE Range(ready) \subseteq Objects
BY LenProperties, ElementOfSeq DEF Lists, IsList, Range

LEMMA AtMostOne ==
    ASSUME NEW S, \A x, y \in S : x = y
    PROVE  Cardinality(S) \in {0, 1} /\ (S = {} => Cardinality(S) = 0)
<1>1. CASE S = {}
  BY <1>1, FS_EmptySet
<1>2. CASE S # {}
  <2>1. PICK x \in S : S = {x}
    BY <1>2
  <2>2. Cardinality({x}) = 1
    BY FS_Singleton
  <2>. QED  BY <1>2, <2>1, <2>2
<1>. QED  BY <1>1, <1>2

\* A step that takes events away and ignores nobody else.
LEMMA LessIsStale ==
    ASSUME StaleInv, Range(ready') \subseteq Range(ready), event' = event,
           checked' \subseteq checked, blocked' \subseteq blocked,
           phase' = phase, main' = "ending" => main = "ending"
    PROVE  StaleInv'
BY DEF StaleInv, Stale

\* A step that posts e; if e is stale, it was already about to be posted.
LEMMA PostedIsStale ==
    ASSUME IndInv, StaleInv, NEW e \in Events, Push(e), checked' \subseteq checked,
           Stale(e) => e \in checked \ checked',
           UNCHANGED <<blocked, phase, main>>
    PROVE  StaleInv'
<1>1. PICK o \in Objects \ Range(ready) :
        ready' = Append(ready, o) /\ event' = [event EXCEPT ![o] = e]
  BY PushKeepsLists DEF IndInv
<1>2. Range(ready') = Range(ready) \cup {o}
  BY <1>1, AppendedList DEF IndInv, Lists
<1>3. event'[o] = e /\ \A p \in Range(ready) : event'[p] = event[p]
  BY <1>1, QueuedAreObjects DEF IndInv, QueueType
<1>4. \A f \in Events : Stale(f)' <=> Stale(f)
  BY DEF Stale
<1>5. \A p \in Range(ready') : event'[p] \in Events
  BY <1>2, <1>3 DEF StaleInv
<1>6. ASSUME phase = "progress", Stale(e), NEW p \in Range(ready), Stale(event[p])
      PROVE  FALSE
  BY <1>6 DEF StaleInv
<1>7. ASSUME Stale(e), NEW f \in checked', Stale(f)
      PROVE  FALSE
  BY <1>7 DEF StaleInv, Stale
<1>8. ASSUME phase' = "progress",
             NEW p \in Range(ready'), NEW q \in Range(ready'),
             Stale(event[p])', Stale(event[q])'
      PROVE  p = q
  BY <1>2, <1>3, <1>6, <1>8 DEF StaleInv, Stale
<1>9. ASSUME phase' = "progress", NEW f \in checked', NEW p \in Range(ready'),
             Stale(f)', Stale(event[p])'
      PROVE  FALSE
  BY <1>2, <1>3, <1>7, <1>9 DEF StaleInv, Stale
<1>10. /\ \A f, g \in checked' : f.type = "play" /\ g.type = "play" => f = g
       /\ main' = "ending" => phase' = "pending"
  BY DEF StaleInv
<1>. QED  BY <1>5, <1>8, <1>9, <1>10 DEF StaleInv

\* Events is all that can be erased.
LEMMA ErasedAll ==
    ASSUME IndInv, StaleInv, Erase(Events)
    PROVE  Range(ready') = {}
<1>. DEFINE S == {o \in Objects : event[o] \in Events}
<1>1. ready' = Kept(ready, Objects \ S)
  BY DEF Erase
<1>2. Range(ready) \subseteq S
  BY QueuedAreObjects DEF StaleInv, IndInv
<1>. HIDE DEF S
<1>3. Range(ready') = Range(ready) \cap (Objects \ S)
  BY <1>1, KeptList DEF IndInv, Lists
<1>. QED  BY <1>2, <1>3

LEMMA ErasedSome ==
    ASSUME IndInv, NEW E, Erase(E)
    PROVE  Range(ready') \subseteq Range(ready) /\ event' = event
<1>. DEFINE S == Objects \ {o \in Objects : event[o] \in E}
<1>1. ready' = Kept(ready, S) /\ event' = event
  BY DEF Erase
<1>. HIDE DEF S
<1>. QED  BY <1>1, KeptList DEF IndInv, Lists

LEMMA StaleInvInit == Init => StaleInv
BY EmptyList DEF Init, StaleInv

LEMMA StaleInvStep == IndInv /\ StaleInv /\ [Next]_vars => StaleInv'
<1>. SUFFICES ASSUME IndInv, StaleInv, [Next]_vars PROVE StaleInv'
  OBVIOUS
<1>0. Lists /\ checked \subseteq Events
  BY DEF IndInv, RestType
<1>1. CASE Retreive \/ Drained \/ ReleaseOfNothing \/ NextUpdate \/ MinutePasses
           \/ UNCHANGED vars
  BY <1>1, LessIsStale DEF Retreive, Drained, ReleaseOfNothing, NextUpdate, MinutePasses,
                           vars, queue
<1>2. CASE OnEvent
  <2>1. blocked' \subseteq blocked /\ main' # "ending"
    BY <1>2 DEF OnEvent, RunCreate, RunState, RunStateOfNobody, RunStarted, RunLeft, RunOther
  <2>. QED  BY <1>2, <2>1, LessIsStale DEF OnEvent, queue
<1>3. CASE Release
  <2>1. IsList(ready, Objects) /\ ready # <<>> /\ ready' = Tail(ready)
    BY <1>0, <1>3 DEF Release, Lists
  <2>2. Range(Tail(ready)) = Range(ready) \ {Head(ready)}
    BY <2>1, TailOfList
  <2>3. Range(ready') \subseteq Range(ready)
    BY <2>1, <2>2
  <2>. QED  BY <1>3, <2>3, LessIsStale DEF Release
<1>4. CASE OnRoundStart
  <2>1. Range(ready') = {} /\ checked' = checked /\ main' = "draining"
    BY <1>4, ErasedAll DEF OnRoundStart
  <2>. QED  BY <2>1 DEF StaleInv
<1>5. CASE OnRoundEnd
  <2>1. Range(ready') = {} /\ checked' = checked /\ phase' = "pending"
    BY <1>5, ErasedAll DEF OnRoundEnd
  <2>. QED  BY <2>1 DEF StaleInv
<1>6. CASE IgnoreEvents
  <2>1. /\ ready' = ready /\ event' = event /\ checked' = checked
        /\ phase' = phase /\ phase = "pending" /\ main' = "draining"
    BY <1>6 DEF IgnoreEvents, queue, StaleInv
  <2>. QED  BY <2>1 DEF StaleInv
<1>7. ASSUME NEW c \in Clients, Spawn(c) \/ Connect(c) PROVE StaleInv'
  BY <1>7, LessIsStale DEF Spawn, Connect, queue
<1>8. ASSUME NEW c \in Clients, CheckCreate(c) \/ CheckPlay(c) PROVE StaleInv'
  <2>1. /\ ready' = ready /\ event' = event /\ blocked' = blocked
        /\ phase' = phase /\ main' = main
    BY <1>8 DEF CheckCreate, CheckPlay, queue
  <2>2. PICK e \in Events :
          /\ checked' \subseteq checked \cup {e}
          /\ e.type = "play" => csMessageFree /\ e.client \notin blocked
    <3>1. CASE CheckCreate(c)
      BY <3>1, AboutIsEvent DEF CheckCreate, About, Types
    <3>2. CASE CheckPlay(c)
      BY <3>2, AboutIsEvent DEF CheckPlay, About, Types
    <3>. QED  BY <1>8, <3>1, <3>2
  <2>3. ~Stale(e)
    BY <2>2 DEF Stale
  <2>4. \A f, g \in checked' : f.type = "play" /\ g.type = "play" => f = g
    BY <2>2 DEF StaleInv, csMessageFree
  <2>. QED  BY <2>1, <2>2, <2>3, <2>4 DEF StaleInv, Stale
<1>9. ASSUME NEW c \in Clients, Hurt(c) \/ SendState(c) \/ SendStarted(c)
      PROVE  StaleInv'
  <2>1. PICK t \in {"hurt", "state", "started"} :
          Push(About(t, c)) /\ UNCHANGED <<blocked, checked, main, phase>>
    BY <1>9 DEF Hurt, SendState, SendStarted
  <2>2. About(t, c) \in Events /\ ~Stale(About(t, c))
    BY AboutIsEvent DEF Types, Stale, About
  <2>. QED  BY <2>1, <2>2, PostedIsStale
<1>10. ASSUME NEW c \in Clients, OnCL_Disconnected(c) PROVE StaleInv'
  <2>1. About("left", c) \in Events /\ ~Stale(About("left", c))
    BY AboutIsEvent DEF Types, Stale, About
  <2>2. UNCHANGED <<blocked, checked, main, phase>>
    BY <1>10 DEF OnCL_Disconnected
  <2>3. CASE Push(About("left", c))
    BY <2>1, <2>2, <2>3, PostedIsStale
  <2>4. CASE UNCHANGED queue
    BY <2>2, <2>4, LessIsStale DEF queue
  <2>. QED  BY <1>10, <2>3, <2>4 DEF OnCL_Disconnected
<1>11. ASSUME NEW c \in Clients, client_Destroy(c) PROVE StaleInv'
  <2>1. Range(ready') \subseteq Range(ready) /\ event' = event
    <3>1. CASE Erase({About("hurt", c)})
      BY <3>1, ErasedSome
    <3>2. CASE UNCHANGED queue
      BY <3>2 DEF queue
    <3>. QED  BY <1>11, <3>1, <3>2 DEF client_Destroy
  <2>. QED  BY <1>11, <2>1, LessIsStale DEF client_Destroy
<1>12. CASE PushChecked
  <2>1. PICK e \in checked : Push(e) /\ checked' = checked \ {e}
    BY <1>12 DEF PushChecked
  <2>2. UNCHANGED <<blocked, main, phase>>
    BY <1>12 DEF PushChecked
  <2>. QED  BY <1>0, <2>1, <2>2, PostedIsStale
<1>. QED  BY <1>1, <1>2, <1>3, <1>4, <1>5, <1>6, <1>7, <1>8, <1>9, <1>10, <1>11, <1>12
          DEF Next, Processing

\* At most one play event of ignored clients reaches a round, however many the
\* clients are: the lock of the messages lets one thread at a time stand with
\* such an event between CreateSafe's test and Create, and what was queued
\* before was erased when the round started (game_sv_event_queue.cpp:52).  It
\* says nothing of create events, which are tested outside that lock.
THEOREM OneStaleEventAlways == Spec => []OneStaleEvent
<1>1. Spec => []StaleInv
  BY StaleInvInit, StaleInvStep, Invariance, PTL DEF Spec
<1>2. IndInv /\ StaleInv => OneStaleEvent
  <2>. SUFFICES ASSUME IndInv, StaleInv, phase = "progress"
                PROVE  Cardinality({i \in DOMAIN ready : Stale(event[ready[i]])})
                         + Cardinality({e \in checked : Stale(e)}) <= 1
    BY DEF OneStaleEvent
  <2>. DEFINE I == {i \in DOMAIN ready : Stale(event[ready[i]])}
              F == {e \in checked : Stale(e)}
  <2>1. \A i \in DOMAIN ready : ready[i] \in Range(ready)
    BY DEF Range
  <2>2. \A i, j \in I : i = j
    <3>1. \A i, j \in DOMAIN ready : ready[i] = ready[j] => i = j
      BY DEF IndInv, Lists, IsList, IsInjective
    <3>. QED  BY <2>1, <3>1 DEF StaleInv
  <2>3. \A e, f \in F : e = f
    BY DEF StaleInv, Stale
  <2>4. I = {} \/ F = {}
    BY <2>1 DEF StaleInv
  <2>. HIDE DEF I, F
  <2>5. Cardinality(I) \in {0, 1} /\ (I = {} => Cardinality(I) = 0)
    BY <2>2, AtMostOne
  <2>6. Cardinality(F) \in {0, 1} /\ (F = {} => Cardinality(F) = 0)
    BY <2>3, AtMostOne
  <2>7. Cardinality(I) + Cardinality(F) <= 1
    BY <2>4, <2>5, <2>6
  <2>. QED  BY <2>7 DEF I, F
<1>. QED  BY <1>1, <1>2, Invariance, PTL

=============================================================================

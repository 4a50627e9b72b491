--------------------------- MODULE ShedulerProofs ---------------------------
(* Proofs about Sheduler, for every set of objects: the lists hold what the *)
(* owners asked for, nothing freed is read, and the scheduler implements    *)
(* its contract.                                                            *)
EXTENDS Sheduler, SubsequencesProofs

(***************************************************************************)
(* Sequences.                                                              *)
(***************************************************************************)

\* A sequence without its k-th entry.
LEMMA RemoveAtSeq ==
    ASSUME NEW T, NEW s \in Seq(T), NEW k \in DOMAIN s
    PROVE  /\ RemoveAt(s, k) \in Seq(T)
           /\ DOMAIN RemoveAt(s, k) = 1..(Len(s) - 1)
           /\ \A i \in 1..(Len(s) - 1) :
                RemoveAt(s, k)[i] = IF i < k THEN s[i] ELSE s[i + 1]
<1>. DEFINE u == SubSeq(s, 1, k - 1)
            v == SubSeq(s, k + 1, Len(s))
            n == Len(s)
<1>1. n \in Nat /\ DOMAIN s = 1..n /\ (\A j \in 1..n : s[j] \in T) /\ k \in 1..n
  BY LenProperties, ElementOfSeq
<1>2. /\ u \in Seq(T) /\ Len(u) = k - 1
      /\ \A j \in 1..(k - 1) : u[j] = s[j]
  <2>1. k - 1 \in Int /\ 1 \in Int /\ \A j \in 1..(k - 1) : s[j] \in T
    BY <1>1
  <2>2. /\ u \in Seq(T) /\ Len(u) = IF 1 <= k - 1 THEN (k - 1) - 1 + 1 ELSE 0
        /\ \A j \in 1..((k - 1) - 1 + 1) : u[j] = s[1 + j - 1]
    BY <2>1, SubSeqProperties
  <2>. QED
    BY <2>2, <1>1
<1>3. /\ v \in Seq(T) /\ Len(v) = n - k
      /\ \A j \in 1..(n - k) : v[j] = s[k + j]
  <2>1. k + 1 \in Int /\ n \in Int /\ \A j \in (k + 1)..n : s[j] \in T
    BY <1>1
  <2>2. /\ v \in Seq(T) /\ Len(v) = IF k + 1 <= n THEN n - (k + 1) + 1 ELSE 0
        /\ \A j \in 1..(n - (k + 1) + 1) : v[j] = s[(k + 1) + j - 1]
    BY <2>1, SubSeqProperties
  <2>3. n - (k + 1) + 1 = n - k /\ \A j \in 1..(n - k) : (k + 1) + j - 1 = k + j
    BY <1>1
  <2>4. k \in 1..n
    BY <1>1
  <2>. HIDE DEF v, n
  <2>5. Len(v) = n - k
    BY <2>2, <2>4, <1>1
  <2>6. ASSUME NEW j \in 1..(n - k) PROVE v[j] = s[k + j]
    <3>1. n - (k + 1) + 1 = n - k /\ (k + 1) + j - 1 = k + j
      BY <1>1
    <3>. QED
      BY <3>1, <2>2
  <2>. QED
    BY <2>2, <2>5, <2>6
<1>4. RemoveAt(s, k) = u \o v
  BY DEF RemoveAt
<1>. HIDE DEF u, v, n
<1>5. /\ u \o v \in Seq(T) /\ Len(u \o v) = n - 1
      /\ \A i \in 1..(n - 1) : (u \o v)[i] = IF i <= Len(u) THEN u[i] ELSE v[i - Len(u)]
  <2>1. Len(u) + Len(v) = n - 1
    BY <1>1, <1>2, <1>3
  <2>2. /\ u \o v \in Seq(T) /\ Len(u \o v) = Len(u) + Len(v)
        /\ \A i \in 1..(Len(u) + Len(v)) :
             (u \o v)[i] = IF i <= Len(u) THEN u[i] ELSE v[i - Len(u)]
    BY <1>2, <1>3, ConcatProperties
  <2>. QED
    BY <2>1, <2>2
<1>6. ASSUME NEW i \in 1..(n - 1)
      PROVE  (u \o v)[i] = IF i < k THEN s[i] ELSE s[i + 1]
  <2>1. CASE i < k
    <3>1. i <= Len(u) /\ i \in 1..(k - 1)
      BY <2>1, <1>1, <1>2
    <3>. QED
      BY <3>1, <2>1, <1>5, <1>2
  <2>2. CASE ~(i < k)
    <3>1. ~(i <= Len(u)) /\ i - Len(u) \in 1..(n - k) /\ k + (i - Len(u)) = i + 1
      BY <2>2, <1>1, <1>2
    <3>. QED
      BY <3>1, <2>2, <1>5, <1>3
  <2>. QED
    BY <2>1, <2>2
<1>7. DOMAIN (u \o v) = 1..(n - 1)
  BY <1>5, LenProperties
<1>. QED
  BY <1>4, <1>5, <1>6, <1>7 DEF n

\* The first of some positions.
LEMMA LeastElement ==
    ASSUME NEW s, NEW T, s \in Seq(T), NEW S \in SUBSET (DOMAIN s), S # {}
    PROVE  Least(S) \in S /\ \A j \in S : Least(S) <= j
<1>1. DOMAIN s = 1..Len(s) /\ Len(s) \in Nat
  BY LenProperties
<1>. DEFINE K == {0 - i : i \in S}
<1>2. IsFiniteSet(K)
  <2>1. IsFiniteSet((0 - Len(s))..0)
    BY <1>1, FS_Interval
  <2>2. K \subseteq (0 - Len(s))..0
    BY <1>1
  <2>. QED
    BY <2>1, <2>2, FS_Subset
<1>3. K \in SUBSET Int /\ K # {}
  BY <1>1
<1>4. PICK m \in K : \A k \in K : k <= m
  BY <1>2, <1>3, GreatestElement
<1>5. PICK i \in S : m = 0 - i
  BY <1>4
<1>6. \A j \in S : i <= j
  <2>. SUFFICES ASSUME NEW j \in S PROVE i <= j
    OBVIOUS
  <2>1. 0 - j <= 0 - i
    BY <1>4, <1>5
  <2>. QED
    BY <2>1, <1>1
<1>. QED
  BY <1>6 DEF Least

\* ... and the last.
LEMMA LastPosition ==
    ASSUME NEW s, NEW T, s \in Seq(T), NEW S \in SUBSET (DOMAIN s), S # {}
    PROVE  \E m \in S : \A j \in S : j <= m
<1>1. DOMAIN s = 1..Len(s) /\ Len(s) \in Nat
  BY LenProperties
<1>2. S \subseteq 1..Len(s)
  BY <1>1
<1>4. S \in SUBSET Int
  BY <1>1, <1>2
<1>3. IsFiniteSet(S)
  <2>1. IsFiniteSet(1..Len(s))
    BY <1>1, FS_Interval
  <2>. QED
    BY <1>2, <2>1, FS_Subset
<1>. QED
  BY <1>3, <1>4, GreatestElement

(***************************************************************************)
(* The invariant.                                                          *)
(***************************************************************************)

\* Where an object may be: a list that the loops read, or out of their reach.
AtRT(o)        == \E i \in DOMAIN ItemsRT : ItemsRT[i] = o
AtItems(o)     == \E i \in DOMAIN Items : Items[i].Object = o
AtProcessed(o) == \E i \in DOMAIN ItemsProcessed : ItemsProcessed[i].Object = o
AtNormal(o)    == AtItems(o) \/ AtProcessed(o) \/ m_current_step_obj = o

IsHeld(o) == AtRT(o) \/ AtNormal(o)

\* If o is held, then with the priority rt.
HeldAs(o, rt) == (AtRT(o) => rt) /\ (AtNormal(o) => ~rt)

TypeOK ==
    /\ registered \subseteq Objects /\ doomed \subseteq registered
    /\ b_RT \in [Objects -> BOOLEAN]
    /\ Registration \in Seq([OP : BOOLEAN, RT : BOOLEAN, Object : Objects])
    /\ ItemsRT \in Seq(Objects)
    /\ Items \in Seq([Object : Objects \cup {NoObject}, due : Int])
    /\ ItemsProcessed \in Seq([Object : Objects, due : Int])
    /\ m_current_step_obj \in Objects \cup {NoObject}
    /\ stage \in {"idle", "before", "realtime", "normal", "after"}
    /\ it \in Nat /\ erased \in Nat
    /\ running \in Objects \cup {NoObject}
    /\ updated \subseteq Objects

\* An object is in one place.
Apart(o) ==
    /\ ~(AtRT(o) /\ AtNormal(o))
    /\ ~(AtItems(o) /\ AtProcessed(o))
    /\ m_current_step_obj = o => ~AtItems(o) /\ ~AtProcessed(o)

Places ==
    /\ \A i, j \in DOMAIN ItemsRT : ItemsRT[i] = ItemsRT[j] => i = j
    /\ \A i, j \in DOMAIN Items :
          Items[i].Object = Items[j].Object /\ Items[i].Object # NoObject => i = j
    /\ \A i, j \in DOMAIN ItemsProcessed :
          ItemsProcessed[i].Object = ItemsProcessed[j].Object => i = j
    /\ \A o \in Objects : Apart(o)

\* What the loops of Update have still to do is not yet updated in this frame.
Loops ==
    /\ ItemsProcessed # <<>> => stage = "normal"
    /\ m_current_step_obj # NoObject => stage = "normal" /\ m_current_step_obj = running
    /\ running # NoObject => m_processing_now
    /\ stage \in {"idle", "before"} => updated = {}
    /\ stage = "realtime" => \A i \in DOMAIN ItemsRT :
          i > it + (IF running = NoObject THEN 0 ELSE 1) => ItemsRT[i] \notin updated
    /\ m_processing_now => \A i \in DOMAIN Items : Items[i].Object \notin updated

First(o, i) == i \in Requests(o) /\ \A j \in Requests(o) : i <= j
Final(o, i) == i \in Requests(o) /\ \A j \in Requests(o) : j <= i

\* The requests about o and what is held of it come to what its owner wants.
Agrees(o) ==
    /\ Requests(o) = {} =>
        /\ IsHeld(o) => o \in registered /\ HeldAs(o, b_RT[o])
        /\ o \in registered \ doomed => IsHeld(o)
    /\ \A i : Final(o, i) => (Registration[i].OP <=> o \in registered)
    /\ \A i : First(o, i) /\ IsHeld(o) =>
        ~Registration[i].OP /\ HeldAs(o, Registration[i].RT)
    /\ \A i, j \in Requests(o) :
        i < j /\ Registration[i].OP /\ Registration[j].OP =>
            \E k \in Requests(o) : i < k /\ k < j /\ ~Registration[k].OP
    /\ m_processing_now /\ Requests(o) # {} =>
        ~AtRT(o) /\ ~AtItems(o) /\ m_current_step_obj # o

Agreement == \A o \in Objects : Agrees(o)

IInv == TypeOK /\ Places /\ Loops /\ Agreement

-----------------------------------------------------------------------------
(***************************************************************************)
(* The lists.                                                              *)
(***************************************************************************)

\* The positions and the entries of the lists.
LEMMA Positions ==
    ASSUME TypeOK
    PROVE  /\ Len(ItemsRT) \in Nat /\ DOMAIN ItemsRT = 1..Len(ItemsRT)
           /\ \A i \in DOMAIN ItemsRT : ItemsRT[i] \in Objects
           /\ Len(Items) \in Nat /\ DOMAIN Items = 1..Len(Items)
           /\ \A i \in DOMAIN Items : Items[i] \in [Object : Objects \cup {NoObject}, due : Int]
           /\ Len(ItemsProcessed) \in Nat /\ DOMAIN ItemsProcessed = 1..Len(ItemsProcessed)
           /\ \A i \in DOMAIN ItemsProcessed :
                ItemsProcessed[i] \in [Object : Objects, due : Int]
           /\ Len(Registration) \in Nat /\ DOMAIN Registration = 1..Len(Registration)
           /\ \A i \in DOMAIN Registration :
                Registration[i] \in [OP : BOOLEAN, RT : BOOLEAN, Object : Objects]
<1>1. \A T : \A s \in Seq(T) : /\ Len(s) \in Nat /\ DOMAIN s = 1..Len(s)
                               /\ \A i \in DOMAIN s : s[i] \in T
  BY LenProperties, ElementOfSeq
<1>. QED
  BY <1>1 DEF TypeOK

\* An object is erased from the realtime list: what stands behind it moves up.
LEMMA ErasedRT ==
    ASSUME TypeOK, Places, NEW o, RTEntries(o) # {},
           ItemsRT' = RemoveAt(ItemsRT, Least(RTEntries(o)))
    PROVE  /\ ItemsRT' \in Seq(Objects)
           /\ \A i, j \in DOMAIN ItemsRT' : ItemsRT'[i] = ItemsRT'[j] => i = j
           /\ \A x : AtRT(x)' <=> AtRT(x) /\ x # o
           /\ \A i \in DOMAIN ItemsRT' : \E j \in DOMAIN ItemsRT :
                i <= j /\ j <= i + 1 /\ ItemsRT'[i] = ItemsRT[j]
<1>. DEFINE k == Least(RTEntries(o))
            n == Len(ItemsRT)
<1>1. /\ n \in Nat /\ DOMAIN ItemsRT = 1..n /\ ItemsRT \in Seq(Objects)
      /\ \A i, j \in 1..n : ItemsRT[i] = ItemsRT[j] => i = j
  BY Positions DEF TypeOK, Places
<1>2. k \in 1..n /\ ItemsRT[k] = o
  <2>1. RTEntries(o) \in SUBSET (DOMAIN ItemsRT)
    BY DEF RTEntries
  <2>2. k \in RTEntries(o)
    BY <1>1, <2>1, LeastElement
  <2>. QED
    BY <1>1, <2>2 DEF RTEntries
<1>. HIDE DEF k
<1>3. /\ ItemsRT' \in Seq(Objects) /\ DOMAIN ItemsRT' = 1..(n - 1)
      /\ \A i \in 1..(n - 1) : ItemsRT'[i] = IF i < k THEN ItemsRT[i] ELSE ItemsRT[i + 1]
  BY <1>1, <1>2, RemoveAtSeq DEF k
<1>. HIDE DEF n
<1>4. ASSUME NEW i \in 1..(n - 1)
      PROVE  \E j \in 1..n : i <= j /\ j <= i + 1 /\ j # k /\ ItemsRT'[i] = ItemsRT[j]
                             /\ j = IF i < k THEN i ELSE i + 1
  <2>1. CASE i < k
    <3>1. i \in 1..n /\ i <= i /\ i <= i + 1 /\ i # k
      BY <2>1, <1>1, <1>2
    <3>. QED
      BY <2>1, <3>1, <1>3
  <2>2. CASE ~(i < k)
    <3>1. i + 1 \in 1..n /\ i <= i + 1 /\ i + 1 <= i + 1 /\ i + 1 # k
      BY <2>2, <1>1, <1>2
    <3>. QED
      BY <2>2, <3>1, <1>3
  <2>. QED
    BY <2>1, <2>2
<1>5. ASSUME NEW i \in 1..(n - 1), NEW j \in 1..(n - 1), ItemsRT'[i] = ItemsRT'[j]
      PROVE  i = j
  <2>1. (IF i < k THEN i ELSE i + 1) = (IF j < k THEN j ELSE j + 1)
    BY <1>1, <1>4, <1>5
  <2>. QED
    BY <2>1, <1>1, <1>2
<1>6. ASSUME NEW x PROVE AtRT(x)' <=> AtRT(x) /\ x # o
  <2>1. ASSUME NEW i \in 1..(n - 1), ItemsRT'[i] = x PROVE AtRT(x) /\ x # o
    BY <2>1, <1>1, <1>2, <1>4 DEF AtRT
  <2>2. ASSUME NEW j \in 1..n, ItemsRT[j] = x, x # o PROVE AtRT(x)'
    <3>1. CASE j < k
      <4>1. j \in 1..(n - 1)
        BY <3>1, <1>1, <1>2
      <4>. QED
        BY <4>1, <3>1, <2>2, <1>3 DEF AtRT
    <3>2. CASE ~(j < k)
      <4>1. j - 1 \in 1..(n - 1) /\ ~(j - 1 < k) /\ (j - 1) + 1 = j
        BY <3>2, <2>2, <1>1, <1>2
      <4>. QED
        BY <4>1, <2>2, <1>3 DEF AtRT
    <3>. QED
      BY <3>1, <3>2
  <2>. QED
    BY <2>1, <2>2, <1>1, <1>3 DEF AtRT
<1>. QED
  BY <1>1, <1>3, <1>4, <1>5, <1>6

\* An entry leaves the heap.
LEMMA RemovedItem ==
    ASSUME TypeOK, Places, NEW k \in DOMAIN Items, Items' = RemoveAt(Items, k)
    PROVE  /\ Items' \in Seq([Object : Objects \cup {NoObject}, due : Int])
           /\ \A i, j \in DOMAIN Items' :
                Items'[i].Object = Items'[j].Object /\ Items'[i].Object # NoObject => i = j
           /\ \A x \in Objects : AtItems(x)' <=> AtItems(x) /\ x # Items[k].Object
           /\ \A i \in DOMAIN Items' : \E j \in DOMAIN Items : Items'[i] = Items[j]
<1>. DEFINE n == Len(Items)
<1>1. /\ n \in Nat /\ DOMAIN Items = 1..n
      /\ Items \in Seq([Object : Objects \cup {NoObject}, due : Int])
      /\ \A i, j \in 1..n :
           Items[i].Object = Items[j].Object /\ Items[i].Object # NoObject => i = j
  BY Positions DEF TypeOK, Places
<1>3. /\ Items' \in Seq([Object : Objects \cup {NoObject}, due : Int])
      /\ DOMAIN Items' = 1..(n - 1)
      /\ \A i \in 1..(n - 1) : Items'[i] = IF i < k THEN Items[i] ELSE Items[i + 1]
  BY <1>1, RemoveAtSeq
<1>. HIDE DEF n
<1>4. ASSUME NEW i \in 1..(n - 1)
      PROVE  \E j \in 1..n : j # k /\ Items'[i] = Items[j] /\ j = IF i < k THEN i ELSE i + 1
  <2>1. CASE i < k
    <3>1. i \in 1..n /\ i # k
      BY <2>1, <1>1
    <3>. QED
      BY <2>1, <3>1, <1>3
  <2>2. CASE ~(i < k)
    <3>1. i + 1 \in 1..n /\ i + 1 # k
      BY <2>2, <1>1
    <3>. QED
      BY <2>2, <3>1, <1>3
  <2>. QED
    BY <2>1, <2>2
<1>5. ASSUME NEW i \in 1..(n - 1), NEW j \in 1..(n - 1),
             Items'[i].Object = Items'[j].Object, Items'[i].Object # NoObject
      PROVE  i = j
  <2>1. (IF i < k THEN i ELSE i + 1) = (IF j < k THEN j ELSE j + 1)
    BY <1>1, <1>4, <1>5
  <2>. QED
    BY <2>1, <1>1
<1>6. ASSUME NEW x \in Objects PROVE AtItems(x)' <=> AtItems(x) /\ x # Items[k].Object
  <2>1. ASSUME NEW i \in 1..(n - 1), Items'[i].Object = x
        PROVE  AtItems(x) /\ x # Items[k].Object
    BY <2>1, <1>1, <1>4, NoObjectAssumption DEF AtItems
  <2>2. ASSUME NEW j \in 1..n, Items[j].Object = x, x # Items[k].Object PROVE AtItems(x)'
    <3>1. CASE j < k
      <4>1. j \in 1..(n - 1)
        BY <3>1, <1>1
      <4>. QED
        BY <4>1, <3>1, <2>2, <1>3 DEF AtItems
    <3>2. CASE ~(j < k)
      <4>1. j - 1 \in 1..(n - 1) /\ ~(j - 1 < k) /\ (j - 1) + 1 = j
        BY <3>2, <2>2, <1>1
      <4>. QED
        BY <4>1, <2>2, <1>3 DEF AtItems
    <3>. QED
      BY <3>1, <3>2
  <2>. QED
    BY <2>1, <2>2, <1>1, <1>3 DEF AtItems
<1>. QED
  BY <1>1, <1>3, <1>4, <1>5, <1>6

\* An entry of the heap is set to NULL.
LEMMA NulledItem ==
    ASSUME TypeOK, Places, NEW o \in Objects, Entries(o) # {},
           Items' = [Items EXCEPT ![Least(Entries(o))].Object = NoObject]
    PROVE  /\ Items' \in Seq([Object : Objects \cup {NoObject}, due : Int])
           /\ \A i, j \in DOMAIN Items' :
                Items'[i].Object = Items'[j].Object /\ Items'[i].Object # NoObject => i = j
           /\ \A x \in Objects : AtItems(x)' <=> AtItems(x) /\ x # o
           /\ DOMAIN Items' = DOMAIN Items
           /\ \A i \in DOMAIN Items : Items'[i].Object \in {Items[i].Object, NoObject}
<1>. DEFINE k == Least(Entries(o))
            n == Len(Items)
            Rec == [Object : Objects \cup {NoObject}, due : Int]
            e == [Items[k] EXCEPT !.Object = NoObject]
<1>1. /\ n \in Nat /\ DOMAIN Items = 1..n /\ Items \in Seq(Rec)
      /\ \A i \in 1..n : Items[i] \in Rec
      /\ \A i, j \in 1..n :
           Items[i].Object = Items[j].Object /\ Items[i].Object # NoObject => i = j
  BY Positions DEF TypeOK, Places
<1>2. k \in 1..n /\ Items[k].Object = o
  <2>1. Entries(o) \in SUBSET (DOMAIN Items)
    BY DEF Entries
  <2>2. k \in Entries(o)
    BY <1>1, <2>1, LeastElement
  <2>. QED
    BY <1>1, <2>2 DEF Entries
<1>3. Items' = [Items EXCEPT ![k] = e]
  BY DEF k
<1>. HIDE DEF k
<1>4. e \in Rec /\ e.Object = NoObject
  BY <1>1, <1>2
<1>. HIDE DEF e
<1>5. /\ Items' \in Seq(Rec) /\ Len(Items') = n
      /\ \A j \in 1..n : Items'[j] = IF j = k THEN e ELSE Items[j]
  <2>1. k \in 1..Len(Items) /\ Items \in Seq(Rec) /\ e \in Rec
    BY <1>1, <1>2, <1>4
  <2>2. /\ [Items EXCEPT ![k] = e] \in Seq(Rec)
        /\ Len([Items EXCEPT ![k] = e]) = Len(Items)
        /\ \A j \in 1..Len(Items) : [Items EXCEPT ![k] = e][j] = IF j = k THEN e ELSE Items[j]
    <3>. HIDE DEF Rec
    <3>. QED
      BY <2>1, ExceptSeq
  <2>. QED
    BY <2>2, <1>3
<1>. HIDE DEF n, Rec
<1>6. DOMAIN Items' = 1..n
  BY <1>5, LenProperties
<1>7. ASSUME NEW j \in 1..n
      PROVE  Items'[j].Object = IF j = k THEN NoObject ELSE Items[j].Object
  <2>1. CASE j = k
    BY <2>1, <1>4, <1>5
  <2>2. CASE j # k
    <3>1. Items'[j] = Items[j]
      BY <2>2, <1>5
    <3>2. Items'[j].Object = Items[j].Object
      BY <3>1
    <3>. QED
      BY <2>2, <3>2
  <2>. QED
    BY <2>1, <2>2
<1>8. ASSUME NEW x \in Objects PROVE AtItems(x)' <=> AtItems(x) /\ x # o
  BY <1>1, <1>2, <1>6, <1>7, NoObjectAssumption DEF AtItems
<1>9. \A i, j \in 1..n :
        Items'[i].Object = Items'[j].Object /\ Items'[i].Object # NoObject => i = j
  BY <1>1, <1>7
<1>. QED
  BY <1>1, <1>5, <1>6, <1>7, <1>8, <1>9 DEF Rec

\* What internal_Unregister leaves of the lists.
LEMMA UnregisterStep ==
    ASSUME TypeOK, Places, NEW o \in Objects, NEW rt \in BOOLEAN, HeldAs(o, rt),
           internal_Unregister(o, rt), UNCHANGED ItemsProcessed
    PROVE  /\ ItemsRT' \in Seq(Objects)
           /\ Items' \in Seq([Object : Objects \cup {NoObject}, due : Int])
           /\ m_current_step_obj' \in {m_current_step_obj, NoObject} /\ erased' \in Nat
           /\ Places'
           /\ \A x \in Objects : x # o =>
                /\ AtRT(x)' <=> AtRT(x)
                /\ AtItems(x)' <=> AtItems(x)
                /\ m_current_step_obj' = x <=> m_current_step_obj = x
           /\ ~AtRT(o)' /\ ~AtItems(o)' /\ m_current_step_obj' # o
           /\ \A x \in Objects : AtProcessed(x)' <=> AtProcessed(x)
           /\ \A i \in DOMAIN ItemsRT' :
                \E j \in DOMAIN ItemsRT : i <= j /\ ItemsRT'[i] = ItemsRT[j]
           /\ DOMAIN Items' = DOMAIN Items
           /\ \A i \in DOMAIN Items : Items'[i].Object \in {Items[i].Object, NoObject}
<1>1. \A x \in Objects : AtProcessed(x)' <=> AtProcessed(x)
  BY DEF AtProcessed
<1>2. /\ RTEntries(o) # {} <=> AtRT(o)
      /\ Entries(o) # {} <=> AtItems(o)
  BY DEF RTEntries, Entries, AtRT, AtItems
<1>3. o # NoObject /\ Apart(o) /\ m_current_step_obj \in Objects \cup {NoObject} /\ erased \in Nat
  BY NoObjectAssumption DEF Places, TypeOK
<1>4. DOMAIN ItemsRT = 1..Len(ItemsRT) /\ Len(ItemsRT) \in Nat
  BY Positions
<1>. DEFINE Result ==
       /\ ItemsRT' \in Seq(Objects)
       /\ Items' \in Seq([Object : Objects \cup {NoObject}, due : Int])
       /\ m_current_step_obj' \in {m_current_step_obj, NoObject} /\ erased' \in Nat
       /\ \A i, j \in DOMAIN ItemsRT' : ItemsRT'[i] = ItemsRT'[j] => i = j
       /\ \A i, j \in DOMAIN Items' :
            Items'[i].Object = Items'[j].Object /\ Items'[i].Object # NoObject => i = j
       /\ \A x \in Objects : x # o =>
            /\ AtRT(x)' <=> AtRT(x)
            /\ AtItems(x)' <=> AtItems(x)
            /\ m_current_step_obj' = x <=> m_current_step_obj = x
       /\ ~AtRT(o)' /\ ~AtItems(o)' /\ m_current_step_obj' # o
       /\ \A i \in DOMAIN ItemsRT' :
            \E j \in DOMAIN ItemsRT : i <= j /\ ItemsRT'[i] = ItemsRT[j]
       /\ DOMAIN Items' = DOMAIN Items
       /\ \A i \in DOMAIN Items : Items'[i].Object \in {Items[i].Object, NoObject}
<1>5. ASSUME Listed(o, rt), rt PROVE Result
  <2>1. /\ RTEntries(o) # {} /\ ItemsRT' = RemoveAt(ItemsRT, Least(RTEntries(o)))
        /\ UNCHANGED <<Items, m_current_step_obj>>
        /\ erased' \in Nat
    BY <1>5, <1>3 DEF internal_Unregister, Listed
  <2>2. AtRT(o) /\ ~AtItems(o) /\ m_current_step_obj # o
    BY <2>1, <1>2, <1>3 DEF Apart, AtNormal
  <2>3. \A x : AtItems(x)' <=> AtItems(x)
    BY <2>1 DEF AtItems
  <2>. QED
    BY <2>1, <2>2, <2>3, ErasedRT DEF TypeOK, Places
<1>6. ASSUME Listed(o, rt), ~rt PROVE Result
  <2>1. /\ Entries(o) # {}
        /\ Items' = [Items EXCEPT ![Least(Entries(o))].Object = NoObject]
        /\ UNCHANGED <<ItemsRT, m_current_step_obj>> /\ erased' = erased
    BY <1>6 DEF internal_Unregister, Listed
  <2>2. AtItems(o) /\ ~AtRT(o) /\ m_current_step_obj # o
    BY <2>1, <1>2, <1>3 DEF Apart, AtNormal
  <2>3. \A x : AtRT(x)' <=> AtRT(x)
    BY <2>1 DEF AtRT
  <2>4. \A i \in DOMAIN ItemsRT : i <= i
    BY <1>4
  <2>. QED
    BY <2>1, <2>2, <2>3, <2>4, <1>3, NulledItem DEF TypeOK, Places
<1>7. ASSUME ~Listed(o, rt) PROVE Result
  <2>1. /\ m_current_step_obj' = IF m_current_step_obj = o THEN NoObject ELSE m_current_step_obj
        /\ UNCHANGED <<ItemsRT, Items, erased>>
    BY <1>7 DEF internal_Unregister
  <2>2. ~AtRT(o) /\ ~AtItems(o)
    BY <1>2, <1>7 DEF Listed, HeldAs, AtNormal
  <2>3. \A x : (AtRT(x)' <=> AtRT(x)) /\ (AtItems(x)' <=> AtItems(x))
    BY <2>1 DEF AtRT, AtItems
  <2>4. \A i \in DOMAIN ItemsRT : i <= i
    BY <1>4
  <2>5. \A x \in Objects : x # NoObject
    BY NoObjectAssumption
  <2>. QED
    BY <2>1, <2>2, <2>3, <2>4, <2>5, <1>3 DEF TypeOK, Places
<1>8. Result
  BY <1>5, <1>6, <1>7
<1>9. ASSUME NEW x \in Objects PROVE Apart(x)'
  <2>1. Apart(x)
    BY DEF Places
  <2>2. CASE x = o
    BY <2>2, <1>8 DEF Apart, AtNormal
  <2>3. CASE x # o
    BY <2>1, <2>3, <1>1, <1>8 DEF Apart, AtNormal
  <2>. QED
    BY <2>2, <2>3
<1>10. Places'
  BY <1>8, <1>9 DEF Places
<1>. QED
  BY <1>1, <1>8, <1>10

-----------------------------------------------------------------------------
(***************************************************************************)
(* The requests.                                                           *)
(***************************************************************************)

\* Registration loses the requests R; those that stay, in their order, are at up.
Loses(R, up) ==
    /\ up \in [DOMAIN Registration' -> DOMAIN Registration]
    /\ \A i, j \in DOMAIN Registration' : i < j => up[i] < up[j]
    /\ \A i \in DOMAIN Registration' : Registration'[i] = Registration[up[i]]
    /\ \A j \in DOMAIN Registration :
         j \in R \/ \E i \in DOMAIN Registration' : j = up[i]
    /\ \A i \in DOMAIN Registration' : up[i] \notin R

LEMMA LosesHead ==
    ASSUME TypeOK, Registration # <<>>, Registration' = Tail(Registration)
    PROVE  /\ Registration' \in Seq([OP : BOOLEAN, RT : BOOLEAN, Object : Objects])
           /\ \E up : Loses({1}, up)
<1>. DEFINE n == Len(Registration)
            up == [i \in 1..(n - 1) |-> i + 1]
<1>1. /\ n \in Nat /\ DOMAIN Registration = 1..n /\ n > 0
      /\ Registration \in Seq([OP : BOOLEAN, RT : BOOLEAN, Object : Objects])
  BY Positions, EmptySeq DEF TypeOK
<1>2. /\ Registration' \in Seq([OP : BOOLEAN, RT : BOOLEAN, Object : Objects])
      /\ Len(Registration') = n - 1
      /\ \A i \in 1..(n - 1) : Registration'[i] = Registration[i + 1]
  BY <1>1, HeadTailProperties
<1>. HIDE DEF n
<1>3. DOMAIN Registration' = 1..(n - 1)
  BY <1>2, LenProperties
<1>4. ASSUME NEW j \in 1..n PROVE j = 1 \/ \E i \in 1..(n - 1) : j = up[i]
  <2>. SUFFICES ASSUME j # 1 PROVE \E i \in 1..(n - 1) : j = up[i]
    OBVIOUS
  <2>1. j - 1 \in 1..(n - 1) /\ j = (j - 1) + 1
    BY <1>1
  <2>. QED
    BY <2>1
<1>5. /\ up \in [1..(n - 1) -> 1..n]
      /\ \A i \in 1..(n - 1) : up[i] = i + 1 /\ up[i] # 1
      /\ \A i, j \in 1..(n - 1) : i < j => up[i] < up[j]
  BY <1>1
<1>. HIDE DEF up
<1>6. Loses({1}, up)
  BY <1>1, <1>2, <1>3, <1>4, <1>5 DEF Loses
<1>. QED
  BY <1>2, <1>6

LEMMA LosesPair ==
    ASSUME TypeOK, Registration # <<>>, NEW k \in DOMAIN Tail(Registration),
           Registration' = RemoveAt(Tail(Registration), k)
    PROVE  /\ Registration' \in Seq([OP : BOOLEAN, RT : BOOLEAN, Object : Objects])
           /\ \E up : Loses({1, k + 1}, up)
<1>. DEFINE n == Len(Registration)
            rest == Tail(Registration)
            up == [i \in 1..(n - 2) |-> IF i < k THEN i + 1 ELSE i + 2]
<1>1. /\ n \in Nat /\ DOMAIN Registration = 1..n /\ n > 0
      /\ Registration \in Seq([OP : BOOLEAN, RT : BOOLEAN, Object : Objects])
  BY Positions, EmptySeq DEF TypeOK
<1>2. /\ rest \in Seq([OP : BOOLEAN, RT : BOOLEAN, Object : Objects])
      /\ Len(rest) = n - 1
      /\ \A i \in 1..(n - 1) : rest[i] = Registration[i + 1]
  BY <1>1, HeadTailProperties
<1>. HIDE DEF n, rest
<1>3. DOMAIN rest = 1..(n - 1) /\ k \in 1..(n - 1)
  BY <1>2, LenProperties DEF rest
<1>4. /\ Registration' \in Seq([OP : BOOLEAN, RT : BOOLEAN, Object : Objects])
      /\ DOMAIN Registration' = 1..(n - 2)
      /\ \A i \in 1..(n - 2) : Registration'[i] = IF i < k THEN rest[i] ELSE rest[i + 1]
  <2>1. /\ RemoveAt(rest, k) \in Seq([OP : BOOLEAN, RT : BOOLEAN, Object : Objects])
        /\ DOMAIN RemoveAt(rest, k) = 1..(Len(rest) - 1)
        /\ \A i \in 1..(Len(rest) - 1) :
             RemoveAt(rest, k)[i] = IF i < k THEN rest[i] ELSE rest[i + 1]
    BY <1>2, <1>3, RemoveAtSeq
  <2>2. Len(rest) - 1 = n - 2
    BY <1>1, <1>2
  <2>3. Registration' = RemoveAt(rest, k)
    BY DEF rest
  <2>. QED
    BY <2>1, <2>2, <2>3
<1>5. ASSUME NEW i \in 1..(n - 2)
      PROVE  /\ up[i] \in 1..n /\ up[i] # 1 /\ up[i] # k + 1
             /\ Registration'[i] = Registration[up[i]]
  <2>1. i \in 1..(n - 1) /\ i + 1 \in 1..(n - 1) /\ (i + 1) + 1 = i + 2 /\ i + 2 \in 1..n
    BY <1>1
  <2>2. CASE i < k
    <3>1. up[i] = i + 1 /\ i + 1 # k + 1 /\ i + 1 # 1 /\ i + 1 \in 1..n
      BY <2>1, <2>2, <1>1, <1>3
    <3>2. Registration'[i] = rest[i]
      BY <1>4, <2>2
    <3>. QED
      BY <3>1, <3>2, <2>1, <1>2
  <2>3. CASE ~(i < k)
    <3>1. up[i] = i + 2 /\ i + 2 # k + 1 /\ i + 2 # 1
      BY <2>1, <2>3, <1>1, <1>3
    <3>2. Registration'[i] = rest[i + 1] /\ rest[i + 1] = Registration[(i + 1) + 1]
      BY <1>4, <2>3, <2>1, <1>2
    <3>. QED
      BY <3>1, <3>2, <2>1
  <2>. QED
    BY <2>2, <2>3
<1>6. ASSUME NEW i \in 1..(n - 2), NEW j \in 1..(n - 2), i < j PROVE up[i] < up[j]
  <2>1. /\ up[i] = IF i < k THEN i + 1 ELSE i + 2
        /\ up[j] = IF j < k THEN j + 1 ELSE j + 2
    OBVIOUS
  <2>. HIDE DEF up
  <2>. QED
    BY <2>1, <1>1, <1>3, <1>6
<1>7. ASSUME NEW j \in 1..n PROVE j \in {1, k + 1} \/ \E i \in 1..(n - 2) : j = up[i]
  <2>. SUFFICES ASSUME j # 1, j # k + 1 PROVE \E i \in 1..(n - 2) : j = up[i]
    OBVIOUS
  <2>1. CASE j < k + 1
    <3>1. j - 1 \in 1..(n - 2) /\ j - 1 < k /\ j = (j - 1) + 1
      BY <2>1, <1>1, <1>3
    <3>. QED
      BY <3>1
  <2>2. CASE j > k + 1
    <3>1. j - 2 \in 1..(n - 2) /\ ~(j - 2 < k) /\ j = (j - 2) + 2
      BY <2>2, <1>1, <1>3
    <3>. QED
      BY <3>1
  <2>. QED
    BY <2>1, <2>2, <1>1, <1>3
<1>8. up \in [1..(n - 2) -> 1..n]
  BY <1>5
<1>. HIDE DEF up
<1>9. Loses({1, k + 1}, up)
  BY <1>1, <1>4, <1>5, <1>6, <1>7, <1>8 DEF Loses
<1>. QED
  BY <1>4, <1>9

\* What is asked about x when requests are lost comes to the same.
Remain(x, R, up) ==
    /\ Requests(x)' = {} => Requests(x) \subseteq R
    /\ \A i : Final(x, i)' => Final(x, up[i]) /\ Registration'[i] = Registration[up[i]]
    /\ R \cap Requests(x) = {} =>
         \A i : First(x, i)' => First(x, up[i]) /\ Registration'[i] = Registration[up[i]]
    /\ \A i, j \in Requests(x)' :
         i < j /\ Registration'[i].OP /\ Registration'[j].OP =>
             \E k \in Requests(x)' : i < k /\ k < j /\ ~Registration'[k].OP

\* It does when requests are lost, of which those about x come
\* before all others about x.
LEMMA RequestsLost ==
    ASSUME TypeOK, Agreement, NEW x \in Objects, NEW R, NEW up, Loses(R, up),
           Registration' \in Seq([OP : BOOLEAN, RT : BOOLEAN, Object : Objects]),
           \A r \in R \cap Requests(x), j \in Requests(x) \ R : r < j
    PROVE  Remain(x, R, up)
<1>. DEFINE Q == Requests(x)
            D == DOMAIN Registration'
<1>1. /\ DOMAIN Registration \subseteq Int
      /\ Q \subseteq DOMAIN Registration
  BY Positions DEF Requests
<1>2. /\ \A i \in D : up[i] \in DOMAIN Registration /\ up[i] \notin R
      /\ \A i \in D : Registration'[i] = Registration[up[i]]
      /\ \A i, j \in D : i < j => up[i] < up[j]
      /\ \A j \in DOMAIN Registration : j \in R \/ \E i \in D : j = up[i]
  BY DEF Loses
<1>3. Requests(x)' = {i \in D : up[i] \in Q}
  BY <1>2 DEF Requests
<1>4. \A j \in Q : j \in R \/ \E i \in Requests(x)' : j = up[i]
  BY <1>1, <1>2, <1>3
<1>5. D \subseteq Int
  BY LenProperties
<1>6. \A i, j \in D : up[i] < up[j] => i < j
  <2>. SUFFICES ASSUME NEW i \in D, NEW j \in D, up[i] < up[j], ~(i < j) PROVE FALSE
    OBVIOUS
  <2>1. j < i \/ j = i
    BY <1>5
  <2>2. up[j] < up[i] \/ up[j] = up[i]
    BY <2>1, <1>2
  <2>. QED
    BY <2>2, <1>1, <1>2
<1>7. Requests(x)' = {} => Requests(x) \subseteq R
  BY <1>4
<1>8. ASSUME NEW i, Final(x, i)'
      PROVE  Final(x, up[i]) /\ Registration'[i] = Registration[up[i]]
  <2>1. i \in D /\ up[i] \in Q \ R /\ \A j \in Requests(x)' : j <= i
    BY <1>2, <1>3, <1>8 DEF Final
  <2>2. ASSUME NEW j \in Q PROVE j <= up[i]
    <3>1. CASE j \in R
      BY <3>1, <2>1, <1>1
    <3>2. CASE j \notin R
      <4>1. PICK m \in Requests(x)' : j = up[m]
        BY <3>2, <1>4
      <4>2. m \in D /\ (m < i \/ m = i)
        BY <2>1, <1>3, <1>5
      <4>3. up[m] < up[i] \/ up[m] = up[i]
        BY <4>2, <2>1, <1>2
      <4>. QED
        BY <4>1, <4>3, <2>1, <1>1
    <3>. QED
      BY <3>1, <3>2
  <2>. QED
    BY <2>1, <2>2, <1>2 DEF Final
<1>9. ASSUME R \cap Q = {}, NEW i, First(x, i)'
      PROVE  First(x, up[i]) /\ Registration'[i] = Registration[up[i]]
  <2>1. i \in D /\ up[i] \in Q /\ \A j \in Requests(x)' : i <= j
    BY <1>3, <1>9 DEF First
  <2>2. ASSUME NEW j \in Q PROVE up[i] <= j
    <3>1. PICK m \in Requests(x)' : j = up[m]
      BY <1>4, <1>9
    <3>2. m \in D /\ (i < m \/ m = i)
      BY <3>1, <2>1, <1>3, <1>5
    <3>3. up[i] < up[m] \/ up[m] = up[i]
      BY <3>2, <2>1, <1>2
    <3>. QED
      BY <3>1, <3>3, <2>1, <1>1
  <2>. QED
    BY <2>1, <2>2, <1>2 DEF First
<1>10. ASSUME NEW i \in Requests(x)', NEW j \in Requests(x)', i < j,
              Registration'[i].OP, Registration'[j].OP
       PROVE  \E k \in Requests(x)' : i < k /\ k < j /\ ~Registration'[k].OP
  <2>1. /\ i \in D /\ j \in D /\ up[i] \in Q \ R /\ up[j] \in Q /\ up[i] < up[j]
        /\ Registration[up[i]].OP /\ Registration[up[j]].OP
    BY <1>2, <1>3, <1>10
  <2>2. PICK m \in Q : up[i] < m /\ m < up[j] /\ ~Registration[m].OP
    BY <2>1 DEF Agreement, Agrees
  <2>3. m \notin R
    <3>1. m \in R => m < up[i]
      BY <2>1
    <3>. QED
      BY <3>1, <2>1, <2>2, <1>1
  <2>4. PICK k \in Requests(x)' : m = up[k]
    BY <2>2, <2>3, <1>4
  <2>5. k \in D /\ i < k /\ k < j /\ ~Registration'[k].OP
    BY <2>1, <2>2, <2>4, <1>2, <1>3, <1>6
  <2>. QED
    BY <2>4, <2>5
<1>. QED
  BY <1>7, <1>8, <1>9, <1>10 DEF Remain

-----------------------------------------------------------------------------
(***************************************************************************)
(* The agreement of requests and lists.                                    *)
(***************************************************************************)

\* A step that makes no request about x.
LEMMA AgreesKept ==
    ASSUME NEW x \in Objects, Agrees(x), UNCHANGED Registration,
           AtRT(x)' <=> AtRT(x), AtNormal(x)' <=> AtNormal(x),
           x \in registered' <=> x \in registered, b_RT'[x] = b_RT[x],
           x \in registered' \ doomed' => x \in registered \ doomed,
           m_processing_now' /\ Requests(x) # {} =>
                ~AtRT(x)' /\ ~AtItems(x)' /\ m_current_step_obj' # x
    PROVE  Agrees(x)'
<1>1. Requests(x)' = Requests(x)
  BY DEF Requests
<1>2. \A i : (Final(x, i)' <=> Final(x, i)) /\ (First(x, i)' <=> First(x, i))
  BY <1>1 DEF Final, First
<1>3. IsHeld(x)' <=> IsHeld(x)
  BY DEF IsHeld
<1>4. \A rt : HeldAs(x, rt)' <=> HeldAs(x, rt)
  BY DEF HeldAs
<1>. QED
  BY <1>1, <1>2, <1>3, <1>4 DEF Agrees, HeldAs

\* A request about another object is served.
LEMMA AgreesOther ==
    ASSUME TypeOK, Agreement, NEW x \in Objects, NEW R, NEW up, Loses(R, up),
           Registration' \in Seq([OP : BOOLEAN, RT : BOOLEAN, Object : Objects]),
           R \cap Requests(x) = {}, ~m_processing_now',
           AtRT(x)' <=> AtRT(x), AtNormal(x)' <=> AtNormal(x),
           UNCHANGED <<registered, doomed>>, b_RT'[x] = b_RT[x]
    PROVE  Agrees(x)'
<1>1. Agrees(x)
  BY DEF Agreement
<1>2. /\ Requests(x)' = {} => Requests(x) \subseteq R
      /\ \A i : Final(x, i)' => Final(x, up[i]) /\ Registration'[i] = Registration[up[i]]
      /\ \A i : First(x, i)' => First(x, up[i]) /\ Registration'[i] = Registration[up[i]]
      /\ \A i, j \in Requests(x)' :
           i < j /\ Registration'[i].OP /\ Registration'[j].OP =>
               \E k \in Requests(x)' : i < k /\ k < j /\ ~Registration'[k].OP
  <2>1. \A r \in R \cap Requests(x), j \in Requests(x) \ R : r < j
    OBVIOUS
  <2>2. Remain(x, R, up)
    BY <2>1, RequestsLost
  <2>. QED
    BY <2>2 DEF Remain
<1>3. IsHeld(x)' <=> IsHeld(x)
  BY DEF IsHeld
<1>4. Requests(x)' = {} => Requests(x) = {}
  BY <1>2
<1>5. Requests(x)' = {} =>
        /\ IsHeld(x)' => x \in registered' /\ HeldAs(x, b_RT[x])'
        /\ x \in registered' \ doomed' => IsHeld(x)'
  BY <1>1, <1>3, <1>4 DEF Agrees, HeldAs
<1>6. \A i : Final(x, i)' => (Registration'[i].OP <=> x \in registered')
  BY <1>1, <1>2 DEF Agrees
<1>7. \A i : First(x, i)' /\ IsHeld(x)' =>
        ~Registration'[i].OP /\ HeldAs(x, Registration[i].RT)'
  BY <1>1, <1>2, <1>3 DEF Agrees, HeldAs
<1>. QED
  BY <1>2, <1>5, <1>6, <1>7 DEF Agrees

\* A request about o is served, after which o is not held.
LEMMA AgreesServed ==
    ASSUME TypeOK, Agreement, NEW o \in Objects, NEW R, NEW up, Loses(R, up),
           Registration' \in Seq([OP : BOOLEAN, RT : BOOLEAN, Object : Objects]),
           \A r \in R \cap Requests(o), j \in Requests(o) \ R : r < j,
           ~m_processing_now', ~IsHeld(o)', UNCHANGED registered,
           Requests(o) \subseteq R => o \notin registered
    PROVE  Agrees(o)'
<1>1. Agrees(o)
  BY DEF Agreement
<1>2. /\ Requests(o)' = {} => Requests(o) \subseteq R
      /\ \A i : Final(o, i)' => Final(o, up[i]) /\ Registration'[i] = Registration[up[i]]
      /\ \A i, j \in Requests(o)' :
           i < j /\ Registration'[i].OP /\ Registration'[j].OP =>
               \E k \in Requests(o)' : i < k /\ k < j /\ ~Registration'[k].OP
  <2>1. \A r \in R \cap Requests(o), j \in Requests(o) \ R : r < j
    OBVIOUS
  <2>2. Remain(o, R, up)
    BY <2>1, RequestsLost
  <2>. QED
    BY <2>2 DEF Remain
<1>3. \A i : Final(o, i)' => (Registration'[i].OP <=> o \in registered')
  BY <1>1, <1>2 DEF Agrees
<1>. QED
  BY <1>2, <1>3 DEF Agrees

\* A request about o is made.
LEMMA AgreesRequested ==
    ASSUME TypeOK, Agreement, NEW op \in BOOLEAN, NEW o \in Objects, NEW rt \in BOOLEAN,
           Request(op, o, rt), UNCHANGED <<ItemsRT, Items, ItemsProcessed, m_current_step_obj>>,
           \A x \in Objects : x # o =>
              /\ x \in registered' <=> x \in registered
              /\ x \in registered' \ doomed' => x \in registered \ doomed
              /\ b_RT'[x] = b_RT[x],
           o \in registered' <=> op, op => o \notin registered,
           Requests(o) = {} /\ IsHeld(o) => ~op /\ HeldAs(o, rt),
           m_processing_now' => m_processing_now /\ ~AtRT(o) /\ ~AtItems(o) /\ m_current_step_obj # o
    PROVE  /\ Registration' \in Seq([OP : BOOLEAN, RT : BOOLEAN, Object : Objects])
           /\ Agreement'
<1>. DEFINE n == Len(Registration)
            r == [OP |-> op, RT |-> rt, Object |-> o]
            Rec == [OP : BOOLEAN, RT : BOOLEAN, Object : Objects]
<1>1. /\ n \in Nat /\ DOMAIN Registration = 1..n /\ Registration \in Seq(Rec) /\ r \in Rec
  BY Positions DEF TypeOK
<1>2. /\ Registration' \in Seq(Rec) /\ DOMAIN Registration' = 1..(n + 1)
      /\ \A i \in 1..n : Registration'[i] = Registration[i]
      /\ Registration'[n + 1] = r
  <2>1. Registration' = Append(Registration, r)
    BY DEF Request
  <2>. HIDE DEF r, Rec
  <2>2. /\ Append(Registration, r) \in Seq(Rec) /\ Len(Append(Registration, r)) = n + 1
        /\ \A i \in 1..n : Append(Registration, r)[i] = Registration[i]
        /\ Append(Registration, r)[n + 1] = r
    BY <1>1, AppendProperties
  <2>. QED
    BY <2>1, <2>2, LenProperties
<1>. HIDE DEF n
<1>3. /\ r.OP = op /\ r.RT = rt /\ r.Object = o
  OBVIOUS
<1>. HIDE DEF r
<1>4. \A i : i \in 1..(n + 1) <=> i \in 1..n \/ i = n + 1
  BY <1>1
<1>5. /\ \A x : Requests(x) \subseteq 1..n
      /\ \A x : x # o => Requests(x)' = Requests(x)
      /\ Requests(o)' = Requests(o) \cup {n + 1}
  BY <1>1, <1>2, <1>3, <1>4 DEF Requests
<1>6. \A x : (AtRT(x)' <=> AtRT(x)) /\ (AtItems(x)' <=> AtItems(x)) /\ (AtNormal(x)' <=> AtNormal(x))
  BY DEF AtRT, AtItems, AtProcessed, AtNormal
<1>7. \A x : IsHeld(x)' <=> IsHeld(x)
  BY <1>6 DEF IsHeld
<1>8. ASSUME NEW x \in Objects, x # o PROVE Agrees(x)'
  <2>1. Agrees(x) /\ Requests(x)' = Requests(x)
    BY <1>5, <1>8 DEF Agreement
  <2>2. \A i \in Requests(x) : Registration'[i] = Registration[i]
    BY <1>2, <1>5
  <2>3. \A i : (Final(x, i)' <=> Final(x, i)) /\ (First(x, i)' <=> First(x, i))
    BY <2>1 DEF Final, First
  <2>4. \A i : Final(x, i)' => (Registration'[i].OP <=> x \in registered')
    BY <2>1, <2>2, <2>3, <1>8 DEF Agrees, Final
  <2>5. \A i : First(x, i)' /\ IsHeld(x)' =>
          ~Registration'[i].OP /\ HeldAs(x, Registration[i].RT)'
    BY <2>1, <2>2, <2>3, <1>6, <1>7 DEF Agrees, First, HeldAs
  <2>6. Requests(x)' = {} =>
          /\ IsHeld(x)' => x \in registered' /\ HeldAs(x, b_RT[x])'
          /\ x \in registered' \ doomed' => IsHeld(x)'
    BY <2>1, <1>6, <1>7, <1>8 DEF Agrees, HeldAs
  <2>7. \A i, j \in Requests(x)' :
          i < j /\ Registration'[i].OP /\ Registration'[j].OP =>
              \E k \in Requests(x)' : i < k /\ k < j /\ ~Registration'[k].OP
    BY <2>1, <2>2 DEF Agrees
  <2>8. m_processing_now' /\ Requests(x)' # {} =>
          ~AtRT(x)' /\ ~AtItems(x)' /\ m_current_step_obj' # x
    BY <2>1, <1>6 DEF Agrees
  <2>. QED
    BY <2>4, <2>5, <2>6, <2>7, <2>8 DEF Agrees
<1>9. Agrees(o)'
  <2>1. Agrees(o) /\ Requests(o) \subseteq 1..n /\ Requests(o)' = Requests(o) \cup {n + 1}
    BY <1>5 DEF Agreement
  <2>2. \A i \in Requests(o) : Registration'[i] = Registration[i] /\ i < n + 1
    BY <1>1, <1>2, <2>1
  <2>3. ASSUME NEW i, Final(o, i)' PROVE Registration'[i].OP <=> o \in registered'
    <3>1. i \in Requests(o) \cup {n + 1} /\ n + 1 <= i
      BY <2>1, <2>3 DEF Final
    <3>2. i \notin Requests(o)
      <4>. SUFFICES ASSUME i \in Requests(o) PROVE FALSE
        OBVIOUS
      <4>1. i \in 1..n
        BY <2>1
      <4>. QED
        BY <4>1, <3>1, <1>1
    <3>. QED
      BY <3>1, <3>2, <1>2, <1>3
  <2>4. ASSUME NEW i, First(o, i)', IsHeld(o)'
        PROVE  ~Registration'[i].OP /\ HeldAs(o, Registration[i].RT)'
    <3>1. CASE Requests(o) = {}
      <4>1. i = n + 1
        BY <3>1, <2>1, <2>4 DEF First
      <4>2. ~op /\ HeldAs(o, rt)
        BY <3>1, <2>4, <1>7
      <4>. QED
        BY <4>1, <4>2, <1>2, <1>3, <1>6 DEF HeldAs
    <3>2. CASE Requests(o) # {}
      <4>1. First(o, i)
        BY <3>2, <2>1, <2>2, <2>4, <1>1 DEF First
      <4>. QED
        BY <4>1, <2>1, <2>2, <2>4, <1>6, <1>7 DEF Agrees, HeldAs, First
    <3>. QED
      BY <3>1, <3>2
  <2>5. ASSUME NEW i \in Requests(o)', NEW j \in Requests(o)', i < j,
               Registration'[i].OP, Registration'[j].OP
        PROVE  \E k \in Requests(o)' : i < k /\ k < j /\ ~Registration'[k].OP
    <3>1. i \in Requests(o)
      BY <2>1, <2>2, <2>5, <1>1
    <3>2. CASE j \in Requests(o)
      <4>1. PICK k \in Requests(o) : i < k /\ k < j /\ ~Registration[k].OP
        BY <3>1, <3>2, <2>1, <2>2, <2>5 DEF Agrees
      <4>. QED
        BY <4>1, <2>1, <2>2
    <3>3. CASE j = n + 1
      <4>1. o \notin registered
        BY <3>3, <2>5, <1>2, <1>3
      <4>2. Requests(o) \in SUBSET (DOMAIN Registration)
        BY <2>1, <1>1
      <4>3. PICK m \in Requests(o) : \A l \in Requests(o) : l <= m
        BY <4>2, <3>1, <1>1, LastPosition
      <4>4. ~Registration[m].OP
        BY <4>1, <4>3, <2>1 DEF Agrees, Final
      <4>5. i < m /\ m < j
        BY <4>3, <4>4, <3>1, <3>3, <2>1, <2>2, <2>5, <1>1
      <4>. QED
        BY <4>3, <4>4, <4>5, <2>1, <2>2
    <3>. QED
      BY <2>1, <3>2, <3>3
  <2>6. m_processing_now' => ~AtRT(o)' /\ ~AtItems(o)' /\ m_current_step_obj' # o
    BY <1>6
  <2>. QED
    BY <2>1, <2>3, <2>4, <2>5, <2>6 DEF Agrees
<1>. QED
  BY <1>2, <1>8, <1>9 DEF Agreement

-----------------------------------------------------------------------------
(***************************************************************************)
(* The invariant is inductive.                                             *)
(***************************************************************************)

LEMMA InitInvariant == Init => IInv
<1>. SUFFICES ASSUME Init PROVE IInv
  OBVIOUS
<1>1. /\ ItemsRT = <<>> /\ Items = <<>> /\ ItemsProcessed = <<>> /\ Registration = <<>>
      /\ m_current_step_obj = NoObject /\ stage = "idle" /\ running = NoObject
      /\ updated = {} /\ registered = {}
  BY DEF Init
<1>2. TypeOK
  <2>1. \A T : <<>> \in Seq(T)
    BY EmptySeq
  <2>2. \A f : f = [o \in Objects |-> FALSE] => f \in [Objects -> BOOLEAN]
    OBVIOUS
  <2>. QED
    BY <2>1, <2>2 DEF Init, TypeOK
<1>3. \A o \in Objects : ~IsHeld(o) /\ Requests(o) = {} /\ o # NoObject
  BY <1>1, NoObjectAssumption DEF IsHeld, AtRT, AtNormal, AtItems, AtProcessed, Requests
<1>4. Places
  <2>1. \A o \in Objects : Apart(o)
    BY <1>3 DEF IsHeld, AtNormal, Apart
  <2>. QED
    BY <1>1, <2>1 DEF Places
<1>5. Loops
  BY <1>1 DEF Loops, m_processing_now
<1>6. Agreement
  BY <1>1, <1>3 DEF Agreement, Agrees, Final, First
<1>. QED
  BY <1>2, <1>4, <1>5, <1>6 DEF IInv

\* A step that leaves the lists and the requests.
LEMMA NoListChanges ==
    ASSUME IInv, UNCHANGED <<Registration, ItemsRT, Items, ItemsProcessed, m_current_step_obj, b_RT>>,
           UNCHANGED registered, registered' \ doomed' \subseteq registered \ doomed,
           m_processing_now' => m_processing_now \/ Registration = <<>>
    PROVE  Places' /\ Agreement'
<1>1. \A o \in Objects : /\ AtRT(o)' <=> AtRT(o)
                         /\ AtItems(o)' <=> AtItems(o)
                         /\ AtProcessed(o)' <=> AtProcessed(o)
                         /\ AtNormal(o)' <=> AtNormal(o)
  BY DEF AtRT, AtItems, AtProcessed, AtNormal
<1>2. \A o \in Objects : Apart(o)'
  BY <1>1 DEF IInv, Places, Apart
<1>3. Places'
  BY <1>2 DEF IInv, Places
<1>4. ASSUME NEW o \in Objects PROVE Agrees(o)'
  <2>1. Agrees(o)
    BY DEF IInv, Agreement
  <2>2. Registration = <<>> => Requests(o) = {}
    BY DEF Requests
  <2>3. m_processing_now' /\ Requests(o) # {} =>
          ~AtRT(o)' /\ ~AtItems(o)' /\ m_current_step_obj' # o
    BY <2>1, <2>2, <1>1 DEF Agrees
  <2>. QED
    BY <2>1, <2>3, <1>1, AgreesKept
<1>. QED
  BY <1>3, <1>4 DEF Agreement

LEMMA RegisterInv ==
    ASSUME IInv, NEW o \in Objects, NEW rt \in Priorities[o], Register(o, rt)
    PROVE  IInv'
<1>1. /\ o \notin registered /\ registered' = registered \cup {o} /\ Request(TRUE, o, rt)
      /\ b_RT' = [b_RT EXCEPT ![o] = rt] /\ (stage = "idle" \/ running # NoObject)
      /\ UNCHANGED <<doomed, ItemsRT, Items, m_current_step_obj, erased, ItemsProcessed,
                     stage, it, running, updated>>
  BY DEF Register, GameRuns, heldVars, loopVars
<1>2. rt \in BOOLEAN
  BY PriorityAssumption
<1>3. TypeOK /\ Places /\ Loops /\ Agreement /\ b_RT \in [Objects -> BOOLEAN]
  BY DEF IInv, TypeOK
<1>4. Agrees(o)
  BY <1>3 DEF Agreement
<1>5. m_processing_now' <=> m_processing_now
  BY <1>1 DEF m_processing_now
<1>6. Requests(o) = {} => ~IsHeld(o)
  BY <1>1, <1>4 DEF Agrees
<1>7. (~AtRT(o) /\ ~AtItems(o) /\ m_current_step_obj # o) \/ ~m_processing_now
  BY <1>4, <1>6 DEF Agrees, IsHeld, AtNormal
<1>8. /\ Registration' \in Seq([OP : BOOLEAN, RT : BOOLEAN, Object : Objects])
      /\ Agreement'
  <2>1. \A x \in Objects : x # o =>
           /\ x \in registered' <=> x \in registered
           /\ x \in registered' \ doomed' => x \in registered \ doomed
           /\ b_RT'[x] = b_RT[x]
    BY <1>1, <1>3
  <2>2. o \in registered' <=> TRUE
    BY <1>1
  <2>3. m_processing_now' =>
          m_processing_now /\ ~AtRT(o) /\ ~AtItems(o) /\ m_current_step_obj # o
    BY <1>5, <1>7
  <2>. QED
    BY <1>1, <1>2, <1>3, <1>6, <2>1, <2>2, <2>3, AgreesRequested
<1>9. TypeOK'
  BY <1>1, <1>2, <1>3, <1>8 DEF TypeOK
<1>10. \A x \in Objects : Apart(x)'
  BY <1>1, <1>3 DEF Places, Apart, AtRT, AtNormal, AtItems, AtProcessed
<1>11. Places'
  BY <1>1, <1>3, <1>10 DEF Places
<1>12. Loops'
  BY <1>1, <1>3, <1>5 DEF Loops
<1>. QED
  BY <1>8, <1>9, <1>11, <1>12 DEF IInv

\* Erasing keeps the order of what the loops have still to do.
LEMMA LoopsKept ==
    ASSUME IInv, UNCHANGED loopVars, UNCHANGED ItemsProcessed,
           m_current_step_obj' \in {m_current_step_obj, NoObject},
           \A i \in DOMAIN ItemsRT' :
              \E j \in DOMAIN ItemsRT : i <= j /\ ItemsRT'[i] = ItemsRT[j],
           DOMAIN ItemsRT' \subseteq Int,
           DOMAIN Items' = DOMAIN Items,
           \A i \in DOMAIN Items : Items'[i].Object \in {Items[i].Object, NoObject}
    PROVE  Loops'
<1>1. /\ UNCHANGED <<stage, it, running, updated>>
      /\ it \in Nat /\ updated \subseteq Objects /\ NoObject \notin updated
      /\ m_processing_now' <=> m_processing_now
      /\ DOMAIN ItemsRT \subseteq Int
  BY NoObjectAssumption, Positions DEF loopVars, m_processing_now, IInv, TypeOK
<1>2. ASSUME stage = "realtime", NEW i \in DOMAIN ItemsRT',
             i > it + (IF running = NoObject THEN 0 ELSE 1)
      PROVE  ItemsRT'[i] \notin updated
  <2>1. PICK j \in DOMAIN ItemsRT : i <= j /\ ItemsRT'[i] = ItemsRT[j]
    OBVIOUS
  <2>2. j > it + (IF running = NoObject THEN 0 ELSE 1)
    BY <1>1, <1>2, <2>1
  <2>. QED
    BY <2>1, <2>2, <1>2 DEF IInv, Loops
<1>3. m_processing_now' => \A i \in DOMAIN Items' : Items'[i].Object \notin updated'
  BY <1>1 DEF IInv, Loops
<1>. QED
  BY <1>1, <1>2, <1>3 DEF IInv, Loops

LEMMA WithdrawInv ==
    ASSUME IInv, NEW o \in Objects, NEW rt \in BOOLEAN, Withdraw(o, rt),
           o \in registered => rt = b_RT[o],
           registered' = registered \ {o}, doomed' = doomed \ {o},
           b_RT' \in [Objects -> BOOLEAN],
           \A x \in Objects : x # o => b_RT'[x] = b_RT[x],
           UNCHANGED <<ItemsProcessed, loopVars>>
    PROVE  IInv'
<1>1. /\ TypeOK /\ Places /\ Loops /\ Agreement /\ Agrees(o) /\ Apart(o) /\ o # NoObject
  BY NoObjectAssumption DEF IInv, Agreement, Places
<1>2. /\ UNCHANGED <<stage, it, running, updated>>
      /\ m_processing_now' <=> m_processing_now
  BY DEF loopVars, m_processing_now
<1>3. /\ RTEntries(o) # {} <=> AtRT(o)
      /\ Entries(o) # {} <=> AtItems(o)
  BY DEF RTEntries, Entries, AtRT, AtItems
<1>4. Requests(o) = {} => HeldAs(o, rt)
  BY <1>1 DEF Agrees, IsHeld, HeldAs
<1>5. CASE m_processing_now /\ Findable(o, rt)
  <2>1. internal_Unregister(o, rt) /\ UNCHANGED Registration
    BY <1>5 DEF Withdraw
  <2>2. AtRT(o) \/ AtItems(o) \/ m_current_step_obj = o
    BY <1>3, <1>5 DEF Findable, Listed
  <2>3. Requests(o) = {} /\ HeldAs(o, rt) /\ ~AtProcessed(o)
    BY <1>1, <1>4, <1>5, <2>2 DEF Agrees, Apart, AtNormal
  <2>4. /\ ItemsRT' \in Seq(Objects)
        /\ Items' \in Seq([Object : Objects \cup {NoObject}, due : Int])
        /\ m_current_step_obj' \in {m_current_step_obj, NoObject} /\ erased' \in Nat
        /\ Places'
        /\ \A x \in Objects : x # o =>
             /\ AtRT(x)' <=> AtRT(x)
             /\ AtItems(x)' <=> AtItems(x)
             /\ m_current_step_obj' = x <=> m_current_step_obj = x
        /\ ~AtRT(o)' /\ ~AtItems(o)' /\ m_current_step_obj' # o
        /\ \A x \in Objects : AtProcessed(x)' <=> AtProcessed(x)
        /\ \A i \in DOMAIN ItemsRT' :
             \E j \in DOMAIN ItemsRT : i <= j /\ ItemsRT'[i] = ItemsRT[j]
        /\ DOMAIN Items' = DOMAIN Items
        /\ \A i \in DOMAIN Items : Items'[i].Object \in {Items[i].Object, NoObject}
    BY <1>1, <2>1, <2>3, UnregisterStep
  <2>5. Loops'
    <3>1. DOMAIN ItemsRT' \subseteq Int
      BY <2>4, LenProperties
    <3>. QED
      BY <2>4, <3>1, LoopsKept
  <2>6. TypeOK'
    BY <1>1, <1>2, <2>1, <2>4 DEF TypeOK
  <2>7. Agrees(o)'
    <3>1. Requests(o)' = {}
      BY <2>1, <2>3 DEF Requests
    <3>2. ~IsHeld(o)' /\ o \notin registered'
      BY <2>3, <2>4 DEF IsHeld, AtNormal
    <3>. QED
      BY <3>1, <3>2 DEF Agrees, Final, First
  <2>8. ASSUME NEW x \in Objects, x # o PROVE Agrees(x)'
    <3>1. Agrees(x)
      BY <1>1 DEF Agreement
    <3>2. AtNormal(x)' <=> AtNormal(x)
      BY <2>4, <2>8 DEF AtNormal
    <3>3. x \in registered' \ doomed' => x \in registered \ doomed
      BY <2>8
    <3>4. m_processing_now' /\ Requests(x) # {} =>
            ~AtRT(x)' /\ ~AtItems(x)' /\ m_current_step_obj' # x
      BY <3>1, <1>2, <2>4, <2>8 DEF Agrees
    <3>. QED
      BY <2>1, <2>4, <2>8, <3>1, <3>2, <3>3, <3>4, AgreesKept
  <2>. QED
    BY <2>4, <2>5, <2>6, <2>7, <2>8 DEF IInv, Agreement
<1>6. CASE ~(m_processing_now /\ Findable(o, rt))
  <2>1. Request(FALSE, o, rt) /\ UNCHANGED <<ItemsRT, Items, m_current_step_obj, erased>>
    BY <1>6 DEF Withdraw, heldVars
  <2>2. m_processing_now =>
          m_processing_now /\ ~AtRT(o) /\ ~AtItems(o) /\ m_current_step_obj # o
    <3>1. CASE Requests(o) # {}
      BY <3>1, <1>1 DEF Agrees
    <3>2. CASE Requests(o) = {} /\ m_processing_now
      BY <3>2, <1>3, <1>4, <1>6 DEF Findable, Listed, HeldAs, AtNormal
    <3>. QED
      BY <3>1, <3>2
  <2>3. /\ Registration' \in Seq([OP : BOOLEAN, RT : BOOLEAN, Object : Objects])
        /\ Agreement'
    <3>1. \A x \in Objects : x # o =>
             /\ x \in registered' <=> x \in registered
             /\ x \in registered' \ doomed' => x \in registered \ doomed
             /\ b_RT'[x] = b_RT[x]
      OBVIOUS
    <3>2. o \in registered' <=> FALSE
      OBVIOUS
    <3>3. Requests(o) = {} /\ IsHeld(o) => ~FALSE /\ HeldAs(o, rt)
      BY <1>4
    <3>4. m_processing_now' =>
            m_processing_now /\ ~AtRT(o) /\ ~AtItems(o) /\ m_current_step_obj # o
      BY <1>2, <2>2
    <3>5. FALSE \in BOOLEAN /\ (FALSE => o \notin registered)
      OBVIOUS
    <3>. QED
      BY <1>1, <2>1, <3>1, <3>2, <3>3, <3>4, <3>5, AgreesRequested
  <2>4. TypeOK'
    BY <1>1, <1>2, <2>1, <2>3 DEF TypeOK
  <2>5. \A x \in Objects : Apart(x)'
    BY <1>1, <2>1 DEF Places, Apart, AtRT, AtNormal, AtItems, AtProcessed
  <2>6. Places'
    BY <1>1, <2>1, <2>5 DEF Places
  <2>7. Loops'
    BY <1>1, <1>2, <2>1 DEF Loops
  <2>. QED
    BY <2>3, <2>4, <2>6, <2>7 DEF IInv
<1>. QED
  BY <1>5, <1>6

\* The requests and the lists while the requests are served.
LEMMA Serving ==
    ASSUME IInv, ServeRequest
    PROVE  /\ TypeOK /\ Places /\ Loops /\ Agreement
           /\ ~m_processing_now /\ ~m_processing_now'
           /\ ItemsProcessed = <<>> /\ m_current_step_obj = NoObject
           /\ UNCHANGED <<registered, doomed, ItemsProcessed, stage, it, running, updated>>
           /\ Registration # <<>> /\ 1 \in DOMAIN Registration
           /\ Head(Registration) = Registration[1]
           /\ Registration[1] \in [OP : BOOLEAN, RT : BOOLEAN, Object : Objects]
           /\ First(Registration[1].Object, 1)
<1>1. /\ TypeOK /\ Places /\ Loops /\ Agreement /\ stage \in {"before", "after"}
      /\ Registration # <<>>
      /\ UNCHANGED <<registered, doomed, ItemsProcessed, stage, it, running, updated>>
  BY DEF IInv, ServeRequest, loopVars
<1>2. ~m_processing_now /\ ~m_processing_now'
  BY <1>1 DEF m_processing_now
<1>3. ItemsProcessed = <<>> /\ m_current_step_obj = NoObject
  BY <1>1 DEF Loops
<1>4. /\ Len(Registration) \in Nat /\ DOMAIN Registration = 1..Len(Registration)
      /\ Registration \in Seq([OP : BOOLEAN, RT : BOOLEAN, Object : Objects])
      /\ Len(Registration) # 0
  BY <1>1, Positions, EmptySeq DEF TypeOK
<1>5. 1 \in DOMAIN Registration
  BY <1>4
<1>6. Head(Registration) = Registration[1]
  BY <1>1, <1>4
<1>7. Registration[1] \in [OP : BOOLEAN, RT : BOOLEAN, Object : Objects]
  BY <1>1, <1>5, Positions
<1>8. First(Registration[1].Object, 1)
  BY <1>4, <1>5 DEF First, Requests
<1>. QED
  BY <1>1, <1>2, <1>3, <1>5, <1>6, <1>7, <1>8

\* Agreement after a request about o has been served by which only o's place changed.
LEMMA OthersServed ==
    ASSUME IInv, ServeRequest, NEW o \in Objects, NEW R, NEW up, Loses(R, up),
           Registration' \in Seq([OP : BOOLEAN, RT : BOOLEAN, Object : Objects]),
           R \subseteq Requests(o),
           \A x \in Objects : x # o =>
              /\ AtRT(x)' <=> AtRT(x)
              /\ AtNormal(x)' <=> AtNormal(x)
              /\ b_RT'[x] = b_RT[x],
           Agrees(o)'
    PROVE  Agreement'
<1>. SUFFICES ASSUME NEW x \in Objects, x # o PROVE Agrees(x)'
  BY DEF Agreement
<1>1. R \cap Requests(x) = {}
  BY DEF Requests
<1>. QED
  BY <1>1, Serving, AgreesOther

\* The first request about an object withdraws it.
LEMMA ServeWithdrawal ==
    ASSUME IInv, ServeRequest, ~Registration[1].OP, UNCHANGED b_RT,
           Registration' = Tail(Registration),
           internal_Unregister(Registration[1].Object, Registration[1].RT)
    PROVE  IInv'
<1>0. PICK o \in Objects, rt \in BOOLEAN :
        o = Registration[1].Object /\ rt = Registration[1].RT
  BY Serving
<1>1. /\ TypeOK /\ Places /\ Loops /\ Agreement
      /\ ~m_processing_now /\ ~m_processing_now'
      /\ ItemsProcessed = <<>> /\ m_current_step_obj = NoObject
      /\ UNCHANGED <<registered, doomed, ItemsProcessed, stage, it, running, updated>>
      /\ Registration # <<>> /\ 1 \in DOMAIN Registration
      /\ First(o, 1) /\ UNCHANGED ItemsProcessed
  BY <1>0, Serving
<1>2. internal_Unregister(o, rt)
  BY <1>0
<1>3. /\ Registration' \in Seq([OP : BOOLEAN, RT : BOOLEAN, Object : Objects])
      /\ \E up : Loses({1}, up)
  BY <1>1, LosesHead
<1>4. PICK up : Loses({1}, up)
  BY <1>3
<1>5. IsHeld(o) => HeldAs(o, rt)
  BY <1>0, <1>1 DEF Agreement, Agrees
<1>6. ~Registration[1].OP
  OBVIOUS
<1>7. HeldAs(o, rt)
  BY <1>5 DEF IsHeld, HeldAs
<1>8. /\ ItemsRT' \in Seq(Objects)
      /\ Items' \in Seq([Object : Objects \cup {NoObject}, due : Int])
      /\ m_current_step_obj' \in {m_current_step_obj, NoObject} /\ erased' \in Nat
      /\ Places'
      /\ \A x \in Objects : x # o =>
           /\ AtRT(x)' <=> AtRT(x)
           /\ AtItems(x)' <=> AtItems(x)
           /\ m_current_step_obj' = x <=> m_current_step_obj = x
      /\ ~AtRT(o)' /\ ~AtItems(o)' /\ m_current_step_obj' # o
      /\ \A x \in Objects : AtProcessed(x)' <=> AtProcessed(x)
  BY <1>1, <1>2, <1>7, UnregisterStep
<1>9. ~IsHeld(o)'
  <2>1. ~AtProcessed(o)
    BY <1>1 DEF AtProcessed
  <2>. QED
    BY <1>1, <1>8, <2>1 DEF IsHeld, AtNormal
<1>10. Agrees(o)'
  <2>1. Requests(o) \subseteq {1} => o \notin registered
    <3>. SUFFICES ASSUME Requests(o) \subseteq {1} PROVE o \notin registered
      OBVIOUS
    <3>1. Final(o, 1)
      BY <1>1 DEF First, Final
    <3>. QED
      BY <3>1, <1>1, <1>6 DEF Agreement, Agrees
  <2>2. \A r \in {1} \cap Requests(o), j \in Requests(o) \ {1} : r < j
    <3>1. Requests(o) \subseteq Int
      BY <1>1, Positions DEF Requests
    <3>. QED
      BY <1>1, <3>1 DEF First
  <2>. QED
    BY <1>1, <1>3, <1>4, <1>9, <2>1, <2>2, AgreesServed
<1>11. Agreement'
  <2>1. \A x \in Objects : x # o =>
          /\ AtRT(x)' <=> AtRT(x)
          /\ AtNormal(x)' <=> AtNormal(x)
          /\ b_RT'[x] = b_RT[x]
    BY <1>8 DEF AtNormal
  <2>2. {1} \subseteq Requests(o)
    BY <1>1 DEF First
  <2>. QED
    BY <1>1, <1>3, <1>4, <1>10, <2>1, <2>2, OthersServed
<1>12. TypeOK'
  BY <1>1, <1>3, <1>8 DEF TypeOK
<1>13. Loops'
  BY <1>1, <1>8 DEF Loops, m_processing_now
<1>. QED
  BY <1>8, <1>11, <1>12, <1>13 DEF IInv

\* A request to register is dropped with the later one that withdraws it.
LEMMA ServePair ==
    ASSUME IInv, ServeRequest, Registration[1].OP,
           NEW Pairs, Pairs # {},
           Pairs = {i \in DOMAIN Tail(Registration) :
                      /\ ~Tail(Registration)[i].OP
                      /\ Tail(Registration)[i].Object = Registration[1].Object},
           Registration' = RemoveAt(Tail(Registration), Least(Pairs)),
           UNCHANGED <<b_RT, heldVars>>
    PROVE  IInv'
<1>. DEFINE rest == Tail(Registration)
<1>0. PICK o, l, k :
        /\ o \in Objects /\ o = Registration[1].Object
        /\ l = Least(Pairs) /\ k = l + 1
  BY Serving
<1>1. /\ TypeOK /\ Places /\ Loops /\ Agreement
      /\ ~m_processing_now /\ ~m_processing_now'
      /\ ItemsProcessed = <<>> /\ m_current_step_obj = NoObject
      /\ UNCHANGED <<registered, doomed, ItemsProcessed, stage, it, running, updated>>
      /\ Registration # <<>> /\ 1 \in DOMAIN Registration
      /\ First(o, 1)
  BY <1>0, Serving
<1>2. Registration[1].OP
  OBVIOUS
<1>3. /\ DOMAIN rest = 1..(Len(Registration) - 1)
      /\ Len(Registration) \in Nat
      /\ DOMAIN Registration = 1..Len(Registration)
      /\ \A i \in DOMAIN rest : rest[i] = Registration[i + 1]
      /\ rest \in Seq([OP : BOOLEAN, RT : BOOLEAN, Object : Objects])
  <2>1. Registration \in Seq([OP : BOOLEAN, RT : BOOLEAN, Object : Objects])
    BY <1>1 DEF TypeOK
  <2>2. /\ rest \in Seq([OP : BOOLEAN, RT : BOOLEAN, Object : Objects])
        /\ Len(rest) = Len(Registration) - 1
        /\ \A i \in 1..Len(rest) : rest[i] = Registration[i + 1]
    BY <1>1, <2>1, HeadTailProperties
  <2>. HIDE DEF rest
  <2>. QED
    BY <1>1, <2>2, LenProperties, Positions
<1>4. l \in Pairs /\ \A i \in Pairs : l <= i
  <2>1. Pairs \in SUBSET (DOMAIN rest)
    OBVIOUS
  <2>. QED
    BY <1>0, <1>3, <2>1, LeastElement
<1>5. Pairs = {i \in DOMAIN rest : ~rest[i].OP /\ rest[i].Object = o}
  BY <1>0
<1>6. Registration' = RemoveAt(rest, l)
  BY <1>0
<1>7. /\ Registration' \in Seq([OP : BOOLEAN, RT : BOOLEAN, Object : Objects])
      /\ \E up : Loses({1, k}, up)
  <2>1. l \in DOMAIN Tail(Registration)
    BY <1>4, <1>5
  <2>. QED
    BY <1>0, <1>1, <1>6, <2>1, LosesPair
<1>8. PICK up : Loses({1, k}, up)
  BY <1>7
<1>. HIDE DEF rest
<1>9. k \in Requests(o) /\ ~Registration[k].OP /\ 1 < k /\ k \in Int
  <2>1. k = l + 1
    BY <1>0
  <2>2. l \in 1..(Len(Registration) - 1) /\ ~rest[l].OP /\ rest[l].Object = o
    BY <1>3, <1>4, <1>5
  <2>3. rest[l] = Registration[k]
    BY <1>3, <2>1, <2>2
  <2>4. k \in DOMAIN Registration /\ 1 < k /\ k \in Int
    BY <1>3, <2>1, <2>2
  <2>. QED
    BY <2>2, <2>3, <2>4 DEF Requests
<1>10. ASSUME NEW j \in Requests(o), j # 1, ~Registration[j].OP PROVE k <= j
  <2>1. j \in 2..Len(Registration) /\ Registration[j].Object = o
    BY <1>3, <1>10 DEF Requests
  <2>2. j - 1 \in DOMAIN rest /\ (j - 1) + 1 = j
    BY <1>3, <2>1
  <2>3. j - 1 \in Pairs
    BY <1>3, <1>5, <1>10, <2>1, <2>2
  <2>4. l \in Int /\ l <= j - 1
    BY <1>3, <1>4, <1>5, <2>3
  <2>5. k = l + 1
    BY <1>0
  <2>. QED
    BY <2>1, <2>4, <2>5
<1>11. Agrees(o) /\ 1 \in Requests(o)
  BY <1>0, <1>1 DEF Agreement, First
<1>12. Requests(o) \subseteq Int /\ \A j \in Requests(o) : 1 <= j
  BY <1>1, <1>3 DEF Requests, First
<1>13. ASSUME NEW j \in Requests(o), j # 1 PROVE k <= j
  <2>1. CASE ~Registration[j].OP
    BY <1>10, <1>13, <2>1
  <2>2. CASE Registration[j].OP
    <3>1. 1 < j
      BY <1>12, <1>13
    <3>2. PICK m \in Requests(o) : 1 < m /\ m < j /\ ~Registration[m].OP
      BY <1>2, <1>11, <2>2, <3>1 DEF Agrees
    <3>3. k <= m
      BY <1>10, <3>2
    <3>. QED
      BY <1>9, <1>12, <3>2, <3>3
  <2>. QED
    BY <2>1, <2>2
<1>14. ~IsHeld(o)
  BY <1>1, <1>2, <1>11 DEF Agrees
<1>15. \A x : /\ AtRT(x)' <=> AtRT(x)
              /\ AtNormal(x)' <=> AtNormal(x)
              /\ IsHeld(x)' <=> IsHeld(x)
  BY <1>1 DEF heldVars, AtRT, AtNormal, AtItems, AtProcessed, IsHeld
<1>16. Agrees(o)'
  <2>1. Requests(o) \subseteq {1, k} => o \notin registered
    <3>. SUFFICES ASSUME Requests(o) \subseteq {1, k} PROVE o \notin registered
      OBVIOUS
    <3>1. Final(o, k)
      BY <1>9 DEF Final
    <3>. QED
      BY <3>1, <1>9, <1>11 DEF Agrees
  <2>2. ASSUME NEW r \in {1, k} \cap Requests(o), NEW j \in Requests(o) \ {1, k}
        PROVE  r < j
    <3>1. k <= j /\ 1 <= j /\ j # 1 /\ j # k /\ j \in Int
      BY <1>12, <1>13
    <3>. QED
      BY <3>1, <1>9
  <2>3. \A r \in {1, k} \cap Requests(o), j \in Requests(o) \ {1, k} : r < j
    BY <2>2
  <2>. QED
    BY <1>0, <1>1, <1>7, <1>8, <1>14, <1>15, <2>1, <2>3, AgreesServed
<1>17. Agreement'
  <2>1. {1, k} \subseteq Requests(o)
    BY <1>9, <1>11
  <2>2. \A x \in Objects : x # o =>
          /\ AtRT(x)' <=> AtRT(x)
          /\ AtNormal(x)' <=> AtNormal(x)
          /\ b_RT'[x] = b_RT[x]
    BY <1>15
  <2>. QED
    BY <1>0, <1>1, <1>7, <1>8, <1>16, <2>1, <2>2, OthersServed
<1>18. TypeOK'
  BY <1>1, <1>7 DEF TypeOK, heldVars
<1>19. Loops'
  BY <1>1 DEF Loops, m_processing_now, heldVars
<1>20. Places'
  <2>1. \A x \in Objects : Apart(x)'
    BY <1>1 DEF heldVars, Places, Apart, AtRT, AtNormal, AtItems, AtProcessed
  <2>. QED
    BY <1>1, <2>1 DEF heldVars, Places
<1>. QED
  BY <1>17, <1>18, <1>19, <1>20 DEF IInv

\* An object is appended to the list of its priority.
LEMMA RegisterStep ==
    ASSUME TypeOK, Places, NEW o \in Objects, NEW rt \in BOOLEAN, ~IsHeld(o),
           internal_Register(o, rt), UNCHANGED <<ItemsProcessed, m_current_step_obj>>
    PROVE  /\ ItemsRT' \in Seq(Objects)
           /\ Items' \in Seq([Object : Objects \cup {NoObject}, due : Int])
           /\ b_RT' = [b_RT EXCEPT ![o] = rt]
           /\ Places'
           /\ \A x \in Objects : x # o => /\ AtRT(x)' <=> AtRT(x)
                                          /\ AtNormal(x)' <=> AtNormal(x)
           /\ IsHeld(o)' /\ HeldAs(o, rt)'
<1>1. \A x : AtProcessed(x)' <=> AtProcessed(x)
  BY DEF AtProcessed
<1>2. /\ ~AtRT(o) /\ ~AtItems(o) /\ ~AtProcessed(o) /\ m_current_step_obj # o
      /\ o # NoObject
  BY NoObjectAssumption DEF IsHeld, AtNormal
<1>3. CASE rt
  <2>1. ItemsRT' = Append(ItemsRT, o) /\ UNCHANGED Items /\ b_RT' = [b_RT EXCEPT ![o] = rt]
    BY <1>3 DEF internal_Register
  <2>. DEFINE n == Len(ItemsRT)
  <2>2. /\ n \in Nat /\ DOMAIN ItemsRT = 1..n /\ ItemsRT \in Seq(Objects)
    BY Positions DEF TypeOK
  <2>3. /\ ItemsRT' \in Seq(Objects) /\ Len(ItemsRT') = n + 1
        /\ \A i \in 1..n : ItemsRT'[i] = ItemsRT[i]
        /\ ItemsRT'[n + 1] = o
    BY <2>1, <2>2, AppendProperties
  <2>. HIDE DEF n
  <2>4. DOMAIN ItemsRT' = 1..(n + 1) /\ \A i : i \in 1..(n + 1) <=> i \in 1..n \/ i = n + 1
    BY <2>2, <2>3, LenProperties
  <2>5. \A x : AtRT(x)' <=> AtRT(x) \/ x = o
    BY <2>2, <2>3, <2>4 DEF AtRT
  <2>6. \A x : (AtItems(x)' <=> AtItems(x)) /\ (AtNormal(x)' <=> AtNormal(x))
    BY <2>1, <1>1 DEF AtItems, AtNormal
  <2>7. \A i, j \in DOMAIN ItemsRT' : ItemsRT'[i] = ItemsRT'[j] => i = j
    BY <2>2, <2>3, <2>4, <1>2 DEF Places, AtRT
  <2>8. ASSUME NEW x \in Objects PROVE Apart(x)'
    <3>1. Apart(x)
      BY DEF Places
    <3>. QED
      BY <3>1, <2>5, <2>6, <1>1, <1>2 DEF Apart, AtNormal
  <2>9. Places'
    BY <2>1, <2>7, <2>8 DEF Places
  <2>10. IsHeld(o)' /\ HeldAs(o, rt)'
    BY <2>5, <2>6, <1>2, <1>3 DEF IsHeld, HeldAs, AtNormal
  <2>. QED
    BY <2>1, <2>3, <2>5, <2>6, <2>9, <2>10 DEF TypeOK
<1>4. CASE ~rt
  <2>. DEFINE n == Len(Items)
              e == [Object |-> o, due |-> 0]
              Rec == [Object : Objects \cup {NoObject}, due : Int]
  <2>1. Items' = Append(Items, e) /\ UNCHANGED ItemsRT /\ b_RT' = [b_RT EXCEPT ![o] = rt]
    BY <1>4 DEF internal_Register
  <2>2. /\ n \in Nat /\ DOMAIN Items = 1..n /\ Items \in Seq(Rec) /\ e \in Rec /\ e.Object = o
    BY Positions DEF TypeOK
  <2>. HIDE DEF e, Rec
  <2>3. /\ Items' \in Seq(Rec) /\ Len(Items') = n + 1
        /\ \A i \in 1..n : Items'[i] = Items[i]
        /\ Items'[n + 1] = e
    BY <2>1, <2>2, AppendProperties
  <2>. HIDE DEF n
  <2>4. DOMAIN Items' = 1..(n + 1) /\ \A i : i \in 1..(n + 1) <=> i \in 1..n \/ i = n + 1
    BY <2>2, <2>3, LenProperties
  <2>5. \A x : AtItems(x)' <=> AtItems(x) \/ x = o
    BY <2>2, <2>3, <2>4 DEF AtItems
  <2>6. \A x : AtRT(x)' <=> AtRT(x)
    BY <2>1 DEF AtRT
  <2>7. \A i, j \in DOMAIN Items' :
          Items'[i].Object = Items'[j].Object /\ Items'[i].Object # NoObject => i = j
    BY <2>2, <2>3, <2>4, <1>2 DEF Places, AtItems
  <2>8. ASSUME NEW x \in Objects PROVE Apart(x)'
    <3>1. Apart(x)
      BY DEF Places
    <3>. QED
      BY <3>1, <2>5, <2>6, <1>1, <1>2 DEF Apart, AtNormal
  <2>9. Places'
    BY <2>1, <2>7, <2>8 DEF Places
  <2>10. IsHeld(o)' /\ HeldAs(o, rt)'
    BY <2>5, <2>6, <1>2, <1>4 DEF IsHeld, HeldAs, AtNormal
  <2>11. \A x \in Objects : x # o => (AtNormal(x)' <=> AtNormal(x))
    BY <2>5, <1>1 DEF AtNormal
  <2>. QED
    BY <2>1, <2>3, <2>6, <2>9, <2>10, <2>11 DEF TypeOK, Rec
<1>. QED
  BY <1>3, <1>4

\* The only request about an object registers it.
LEMMA ServeRegistration ==
    ASSUME IInv, ServeRequest, Registration[1].OP,
           {i \in DOMAIN Tail(Registration) :
              /\ ~Tail(Registration)[i].OP
              /\ Tail(Registration)[i].Object = Registration[1].Object} = {},
           Registration' = Tail(Registration),
           internal_Register(Registration[1].Object, Registration[1].RT),
           UNCHANGED <<m_current_step_obj, erased>>
    PROVE  IInv'
<1>0. PICK o \in Objects, rt \in BOOLEAN :
        o = Registration[1].Object /\ rt = Registration[1].RT
  BY Serving
<1>1. /\ TypeOK /\ Places /\ Loops /\ Agreement
      /\ ~m_processing_now /\ ~m_processing_now'
      /\ ItemsProcessed = <<>> /\ m_current_step_obj = NoObject
      /\ UNCHANGED <<registered, doomed, ItemsProcessed, stage, it, running, updated>>
      /\ Registration # <<>> /\ 1 \in DOMAIN Registration
      /\ First(o, 1) /\ Registration[1].OP
  BY <1>0, Serving
<1>2. internal_Register(o, rt) /\ UNCHANGED <<ItemsProcessed, m_current_step_obj, erased>>
  BY <1>0, <1>1
<1>3. /\ Registration' \in Seq([OP : BOOLEAN, RT : BOOLEAN, Object : Objects])
      /\ \E up : Loses({1}, up)
  BY <1>1, LosesHead
<1>4. PICK up : Loses({1}, up)
  BY <1>3
<1>5. Agrees(o) /\ 1 \in Requests(o)
  BY <1>1 DEF Agreement, First
<1>6. Requests(o) = {1}
  <2>. SUFFICES ASSUME NEW j \in Requests(o), j # 1 PROVE FALSE
    BY <1>5
  <2>. DEFINE rest == Tail(Registration)
  <2>1. /\ DOMAIN rest = 1..(Len(Registration) - 1) /\ Len(Registration) \in Nat
        /\ DOMAIN Registration = 1..Len(Registration)
        /\ \A i \in DOMAIN rest : rest[i] = Registration[i + 1]
    <3>1. Registration \in Seq([OP : BOOLEAN, RT : BOOLEAN, Object : Objects])
      BY <1>1 DEF TypeOK
    <3>2. /\ rest \in Seq([OP : BOOLEAN, RT : BOOLEAN, Object : Objects])
          /\ Len(rest) = Len(Registration) - 1
          /\ \A i \in 1..Len(rest) : rest[i] = Registration[i + 1]
      BY <1>1, <3>1, HeadTailProperties
    <3>. HIDE DEF rest
    <3>. QED
      BY <1>1, <3>2, LenProperties, Positions
  <2>2. {i \in DOMAIN rest : ~rest[i].OP /\ rest[i].Object = o} = {}
    BY <1>0
  <2>. HIDE DEF rest
  <2>3. ASSUME NEW m \in Requests(o), m # 1 PROVE Registration[m].OP
    <3>1. m - 1 \in DOMAIN rest /\ (m - 1) + 1 = m /\ Registration[m].Object = o
      BY <2>1, <2>3 DEF Requests
    <3>. QED
      BY <2>1, <2>2, <3>1
  <2>4. 1 < j
    BY <2>1 DEF Requests
  <2>5. PICK m \in Requests(o) : 1 < m /\ m < j /\ ~Registration[m].OP
    BY <1>1, <1>5, <2>3, <2>4 DEF Agrees
  <2>. QED
    BY <2>3, <2>5
<1>7. o \in registered
  <2>1. Final(o, 1)
    BY <1>6 DEF Final
  <2>. QED
    BY <2>1, <1>1, <1>5 DEF Agrees
<1>8. ~IsHeld(o)
  BY <1>1, <1>5 DEF Agrees
<1>9. /\ ItemsRT' \in Seq(Objects)
      /\ Items' \in Seq([Object : Objects \cup {NoObject}, due : Int])
      /\ b_RT' = [b_RT EXCEPT ![o] = rt]
      /\ Places'
      /\ \A x \in Objects : x # o => /\ AtRT(x)' <=> AtRT(x)
                                     /\ AtNormal(x)' <=> AtNormal(x)
      /\ IsHeld(o)' /\ HeldAs(o, rt)'
  BY <1>1, <1>2, <1>8, RegisterStep
<1>10. Requests(o)' = {}
  BY <1>4, <1>6 DEF Loses, Requests
<1>11. b_RT'[o] = rt /\ b_RT' \in [Objects -> BOOLEAN]
       /\ \A x \in Objects : x # o => b_RT'[x] = b_RT[x]
  BY <1>1, <1>9 DEF TypeOK
<1>12. Agrees(o)'
  BY <1>1, <1>7, <1>9, <1>10, <1>11 DEF Agrees, Final, First, HeldAs
<1>13. Agreement'
  <2>1. {1} \subseteq Requests(o)
    BY <1>5
  <2>2. \A x \in Objects : x # o =>
          /\ AtRT(x)' <=> AtRT(x)
          /\ AtNormal(x)' <=> AtNormal(x)
          /\ b_RT'[x] = b_RT[x]
    BY <1>9, <1>11
  <2>. QED
    BY <1>3, <1>4, <1>12, <2>1, <2>2, OthersServed
<1>14. TypeOK'
  BY <1>1, <1>2, <1>3, <1>9, <1>11 DEF TypeOK
<1>15. Loops'
  BY <1>1, <1>2 DEF Loops, m_processing_now
<1>. QED
  BY <1>9, <1>13, <1>14, <1>15 DEF IInv

LEMMA ServeRequestInv ==
    ASSUME IInv, ServeRequest
    PROVE  IInv'
<1>. DEFINE R == Head(Registration)
            rest == Tail(Registration)
            Pairs == {i \in DOMAIN rest : ~rest[i].OP /\ rest[i].Object = R.Object}
<1>1. R = Registration[1]
  BY Serving
<1>2. \/ /\ R.OP /\ Pairs # {}
         /\ Registration' = RemoveAt(rest, Least(Pairs))
         /\ UNCHANGED <<b_RT, heldVars>>
      \/ /\ R.OP /\ Pairs = {}
         /\ Registration' = rest
         /\ internal_Register(R.Object, R.RT)
         /\ UNCHANGED <<m_current_step_obj, erased>>
      \/ /\ ~R.OP
         /\ Registration' = rest
         /\ internal_Unregister(R.Object, R.RT)
         /\ UNCHANGED b_RT
  BY DEF ServeRequest
<1>3. Pairs = {i \in DOMAIN rest : ~rest[i].OP /\ rest[i].Object = Registration[1].Object}
  BY <1>1
<1>4. CASE /\ R.OP /\ Pairs # {}
           /\ Registration' = RemoveAt(rest, Least(Pairs))
           /\ UNCHANGED <<b_RT, heldVars>>
  <2>. HIDE DEF R
  <2>1. Registration[1].OP
    BY <1>1, <1>4
  <2>2. PICK P : P = Pairs
    OBVIOUS
  <2>3. /\ P # {}
        /\ P = {i \in DOMAIN Tail(Registration) :
                  /\ ~Tail(Registration)[i].OP
                  /\ Tail(Registration)[i].Object = Registration[1].Object}
        /\ Registration' = RemoveAt(Tail(Registration), Least(P))
    BY <1>3, <1>4, <2>2
  <2>. QED
    BY <1>4, <2>1, <2>3, ServePair
<1>5. CASE /\ R.OP /\ Pairs = {}
           /\ Registration' = rest
           /\ internal_Register(R.Object, R.RT)
           /\ UNCHANGED <<m_current_step_obj, erased>>
  BY <1>1, <1>3, <1>5, ServeRegistration
<1>6. CASE /\ ~R.OP
           /\ Registration' = rest
           /\ internal_Unregister(R.Object, R.RT)
           /\ UNCHANGED b_RT
  BY <1>1, <1>6, ServeWithdrawal
<1>. QED
  BY <1>2, <1>4, <1>5, <1>6

-----------------------------------------------------------------------------
(***************************************************************************)
(* The loop over the heap.                                                 *)
(***************************************************************************)

\* The entries in hand go back to the heap.
LEMMA PushedBack ==
    ASSUME TypeOK, Places, NEW P \in Seq([Object : Objects, due : Int]),
           \A i, j \in DOMAIN P : P[i].Object = P[j].Object => i = j,
           \A i \in DOMAIN P : ~AtItems(P[i].Object),
           Items' = Items \o Reverse(P)
    PROVE  /\ Items' \in Seq([Object : Objects \cup {NoObject}, due : Int])
           /\ \A i, j \in DOMAIN Items' :
                Items'[i].Object = Items'[j].Object /\ Items'[i].Object # NoObject => i = j
           /\ \A x : AtItems(x)' <=> AtItems(x) \/ \E i \in DOMAIN P : P[i].Object = x
<1>. DEFINE n == Len(Items)
            p == Len(P)
            R == Reverse(P)
            Rec == [Object : Objects \cup {NoObject}, due : Int]
<1>1. /\ n \in Nat /\ DOMAIN Items = 1..n /\ Items \in Seq(Rec)
      /\ \A i, j \in 1..n :
           Items[i].Object = Items[j].Object /\ Items[i].Object # NoObject => i = j
  BY Positions DEF TypeOK, Places
<1>2. /\ p \in Nat /\ DOMAIN P = 1..p /\ \A i \in 1..p : P[i] \in Rec
  <2>1. p \in Nat /\ DOMAIN P = 1..p
    BY LenProperties
  <2>2. \A i \in 1..p : P[i] \in [Object : Objects, due : Int]
    BY ElementOfSeq
  <2>. QED
    BY <2>1, <2>2
<1>3. R = [i \in 1..p |-> P[(p - i) + 1]]
  BY DEF Reverse
<1>. HIDE DEF n, p, R, Rec
<1>4. \A i \in 1..p : (p - i) + 1 \in 1..p /\ (p - ((p - i) + 1)) + 1 = i
  BY <1>2
<1>5. /\ R \in Seq(Rec) /\ Len(R) = p
      /\ \A i \in 1..p : R[i] = P[(p - i) + 1]
  <2>1. \A i \in 1..p : P[(p - i) + 1] \in Rec
    BY <1>2, <1>4
  <2>2. R \in [1..p -> Rec]
    BY <1>3, <2>1
  <2>. QED
    BY <1>2, <1>3, <2>2
<1>6. /\ Items' \in Seq(Rec) /\ Len(Items') = n + p
      /\ \A i \in 1..(n + p) : Items'[i] = IF i <= n THEN Items[i] ELSE R[i - n]
  <2>1. /\ Items \o R \in Seq(Rec) /\ Len(Items \o R) = Len(Items) + Len(R)
        /\ \A i \in 1..(Len(Items) + Len(R)) :
             (Items \o R)[i] = IF i <= Len(Items) THEN Items[i] ELSE R[i - Len(Items)]
    <3>1. Items \in Seq(Rec) /\ R \in Seq(Rec)
      BY <1>1, <1>5
    <3>. QED
      BY <3>1, ConcatProperties
  <2>. QED
    <3>1. Items' = Items \o R
      BY DEF R
    <3>2. Len(Items) = n
      BY DEF n
    <3>. QED
      BY <1>5, <2>1, <3>1, <3>2
<1>7. DOMAIN Items' = 1..(n + p)
  BY <1>6, LenProperties
<1>8. ASSUME NEW i \in 1..(n + p)
      PROVE  \/ i \in 1..n /\ Items'[i] = Items[i]
             \/ /\ i \notin 1..n /\ (p - (i - n)) + 1 \in 1..p
                /\ Items'[i] = P[(p - (i - n)) + 1]
  <2>1. CASE i <= n
    BY <2>1, <1>1, <1>6
  <2>2. CASE ~(i <= n)
    <3>1. i - n \in 1..p /\ i \notin 1..n
      BY <2>2, <1>1, <1>2
    <3>2. Items'[i] = R[i - n]
      BY <2>2, <1>6
    <3>. QED
      BY <3>1, <3>2, <1>4, <1>5
  <2>. QED
    BY <2>1, <2>2
<1>9. ASSUME NEW i \in 1..p
      PROVE  n + ((p - i) + 1) \in 1..(n + p) /\ Items'[n + ((p - i) + 1)] = P[i]
  <2>. DEFINE k == n + ((p - i) + 1)
  <2>1. k \in 1..(n + p) /\ ~(k <= n) /\ k - n = (p - i) + 1
    BY <1>1, <1>2
  <2>2. Items'[k] = R[k - n]
    BY <2>1, <1>6
  <2>3. R[(p - i) + 1] = P[i]
    BY <1>4, <1>5
  <2>. QED
    BY <2>1, <2>2, <2>3
<1>10. \A i \in 1..n : i \in 1..(n + p) /\ Items'[i] = Items[i]
  BY <1>1, <1>2, <1>6
<1>11. ASSUME NEW x PROVE AtItems(x)' <=> AtItems(x) \/ \E i \in DOMAIN P : P[i].Object = x
  <2>1. ASSUME NEW i \in 1..(n + p), Items'[i].Object = x
        PROVE  AtItems(x) \/ \E j \in DOMAIN P : P[j].Object = x
    BY <2>1, <1>1, <1>2, <1>8 DEF AtItems
  <2>2. ASSUME NEW i \in 1..n, Items[i].Object = x PROVE AtItems(x)'
    BY <2>2, <1>7, <1>10 DEF AtItems
  <2>3. ASSUME NEW i \in 1..p, P[i].Object = x PROVE AtItems(x)'
    BY <2>3, <1>7, <1>9 DEF AtItems
  <2>. QED
    BY <2>1, <2>2, <2>3, <1>1, <1>2, <1>7 DEF AtItems
<1>12. ASSUME NEW i \in 1..(n + p), NEW j \in 1..(n + p),
              Items'[i].Object = Items'[j].Object, Items'[i].Object # NoObject
       PROVE  i = j
  <2>1. CASE i \in 1..n /\ j \in 1..n
    BY <2>1, <1>1, <1>8, <1>12
  <2>2. CASE i \notin 1..n /\ j \notin 1..n
    <3>1. (p - (i - n)) + 1 = (p - (j - n)) + 1
      BY <2>2, <1>2, <1>8, <1>12
    <3>. QED
      BY <3>1, <1>1, <1>2
  <2>5. ASSUME NEW k \in 1..n, NEW l \in 1..(n + p), l \notin 1..n,
               Items'[k].Object = Items'[l].Object
        PROVE  FALSE
    <3>1. PICK m \in 1..p : Items'[l] = P[m]
      BY <2>5, <1>8
    <3>2. Items'[k] = Items[k]
      BY <1>10
    <3>3. AtItems(P[m].Object)
      BY <2>5, <3>1, <3>2, <1>1 DEF AtItems
    <3>. QED
      BY <3>3, <1>2
  <2>3. CASE i \in 1..n /\ j \notin 1..n
    BY <2>3, <2>5, <1>12
  <2>4. CASE i \notin 1..n /\ j \in 1..n
    BY <2>4, <2>5, <1>12
  <2>. QED
    BY <2>1, <2>2, <2>3, <2>4
<1>. QED
  BY <1>6, <1>7, <1>11, <1>12 DEF Rec

\* The entries P are those in hand and one of o.
Joined(P, o) ==
    /\ P \in Seq([Object : Objects, due : Int])
    /\ \A i, j \in DOMAIN P : P[i].Object = P[j].Object => i = j
    /\ \A x : (\E i \in DOMAIN P : P[i].Object = x) <=> AtProcessed(x) \/ x = o

LEMMA AppendedProcessed ==
    ASSUME TypeOK, Places, NEW P, NEW o \in Objects, NEW due \in Int, ~AtProcessed(o),
           P = Append(ItemsProcessed, [Object |-> o, due |-> due])
    PROVE  Joined(P, o)
<1>. DEFINE n == Len(ItemsProcessed)
            e == [Object |-> o, due |-> due]
            Rec == [Object : Objects, due : Int]
<1>1. /\ n \in Nat /\ DOMAIN ItemsProcessed = 1..n /\ ItemsProcessed \in Seq(Rec)
      /\ e \in Rec /\ e.Object = o
  BY Positions DEF TypeOK
<1>. HIDE DEF e, Rec
<1>2. /\ P \in Seq(Rec) /\ Len(P) = n + 1
      /\ \A i \in 1..n : P[i] = ItemsProcessed[i]
      /\ P[n + 1] = e
  <2>1. P = Append(ItemsProcessed, e)
    BY DEF e
  <2>. QED
    BY <1>1, <2>1, AppendProperties
<1>. HIDE DEF n
<1>3. DOMAIN P = 1..(n + 1) /\ \A i : i \in 1..(n + 1) <=> i \in 1..n \/ i = n + 1
  BY <1>1, <1>2, LenProperties
<1>4. \A x : (\E i \in DOMAIN P : P[i].Object = x) <=> AtProcessed(x) \/ x = o
  BY <1>1, <1>2, <1>3 DEF AtProcessed
<1>5. \A i, j \in DOMAIN P : P[i].Object = P[j].Object => i = j
  BY <1>1, <1>2, <1>3 DEF Places, AtProcessed
<1>. QED
  BY <1>2, <1>4, <1>5 DEF Rec, Joined

LEMMA NormalDropInv ==
    ASSUME IInv, NormalDrop
    PROVE  IInv'
<1>1. /\ TypeOK /\ Places /\ Loops /\ Agreement
      /\ stage = "normal" /\ running = NoObject /\ it' \in Nat
      /\ UNCHANGED <<registered, doomed, b_RT, Registration, ItemsRT, ItemsProcessed,
                     m_current_step_obj, erased, stage, running, updated>>
  <2>1. (it + 1) % CheckEvery \in Nat
    BY BoundAssumption DEF IInv, TypeOK
  <2>. QED
    BY <2>1 DEF IInv, NormalDrop, objectVars, CountEntry
<1>2. PICK k \in DOMAIN Items : /\ Items[k].Object = NoObject \/ ~shedule_Needed(Items[k].Object)
                                /\ Items' = RemoveAt(Items, k)
  BY DEF NormalDrop, Tops
<1>3. m_processing_now /\ m_processing_now'
  BY <1>1 DEF m_processing_now
<1>4. /\ Items' \in Seq([Object : Objects \cup {NoObject}, due : Int])
      /\ \A i, j \in DOMAIN Items' :
           Items'[i].Object = Items'[j].Object /\ Items'[i].Object # NoObject => i = j
      /\ \A x \in Objects : AtItems(x)' <=> AtItems(x) /\ x # Items[k].Object
      /\ \A i \in DOMAIN Items' : \E j \in DOMAIN Items : Items'[i] = Items[j]
  BY <1>1, <1>2, RemovedItem
<1>5. \A x : (AtRT(x)' <=> AtRT(x)) /\ (AtProcessed(x)' <=> AtProcessed(x))
  BY <1>1 DEF AtRT, AtProcessed
<1>6. TypeOK'
  BY <1>1, <1>4 DEF TypeOK
<1>7. Places'
  <2>1. \A x \in Objects : Apart(x)'
    BY <1>1, <1>4, <1>5 DEF Places, Apart, AtNormal
  <2>. QED
    BY <1>1, <1>4, <2>1 DEF Places
<1>8. Loops'
  BY <1>1, <1>3, <1>4 DEF Loops
<1>9. ASSUME NEW x \in Objects PROVE Agrees(x)'
  <2>1. Agrees(x)
    BY <1>1 DEF Agreement
  <2>2. CASE x # Items[k].Object
    <3>1. (AtItems(x)' <=> AtItems(x)) /\ (AtNormal(x)' <=> AtNormal(x))
      BY <1>1, <1>4, <1>5, <2>2 DEF AtNormal
    <3>2. m_processing_now' /\ Requests(x) # {} =>
            ~AtRT(x)' /\ ~AtItems(x)' /\ m_current_step_obj' # x
      BY <1>1, <1>3, <1>5, <2>1, <3>1 DEF Agrees
    <3>. QED
      BY <1>1, <1>5, <2>1, <3>1, <3>2, AgreesKept
  <2>3. CASE x = Items[k].Object
    <3>1. x \in doomed /\ AtItems(x)
      BY <1>2, <2>3, NoObjectAssumption DEF shedule_Needed, AtItems
    <3>2. Requests(x) = {} /\ Requests(x)' = {}
      BY <1>1, <1>3, <2>1, <3>1 DEF Agrees, Requests
    <3>3. ~IsHeld(x)'
      BY <1>1, <1>4, <1>5, <2>3, <3>1 DEF IsHeld, AtNormal, Places, Apart
    <3>. QED
      BY <1>1, <3>1, <3>2, <3>3 DEF Agrees, Final, First
  <2>. QED
    BY <2>2, <2>3
<1>. QED
  BY <1>6, <1>7, <1>8, <1>9 DEF IInv, Agreement

\* The object at the top of the heap is registered and was not updated in this frame.
LEMMA NormalUpdateInv ==
    ASSUME IInv, NormalUpdate
    PROVE  IInv' /\ running' \in registered \ updated
<1>1. /\ TypeOK /\ Places /\ Loops /\ Agreement
      /\ stage = "normal" /\ running = NoObject /\ m_current_step_obj = NoObject
      /\ UNCHANGED <<registered, doomed, b_RT, Registration, ItemsRT, ItemsProcessed,
                     erased, stage, it>>
  BY DEF IInv, NormalUpdate, objectVars, Loops
<1>2. PICK k \in DOMAIN Items :
        /\ Items[k].Object # NoObject
        /\ Items' = RemoveAt(Items, k)
        /\ m_current_step_obj' = Items[k].Object
        /\ Call(Items[k].Object)
  BY DEF NormalUpdate, Tops
<1>3. PICK o \in Objects : o = Items[k].Object
  BY <1>1, <1>2, Positions
<1>4. /\ m_current_step_obj' = o /\ running' = o /\ updated' = updated \cup {o} /\ o # NoObject
      /\ m_processing_now /\ m_processing_now' /\ AtItems(o)
  BY <1>1, <1>2, <1>3 DEF Call, m_processing_now, AtItems
<1>5. /\ Items' \in Seq([Object : Objects \cup {NoObject}, due : Int])
      /\ \A i, j \in DOMAIN Items' :
           Items'[i].Object = Items'[j].Object /\ Items'[i].Object # NoObject => i = j
      /\ \A x \in Objects : AtItems(x)' <=> AtItems(x) /\ x # o
      /\ \A i \in DOMAIN Items' : \E j \in DOMAIN Items : Items'[i] = Items[j]
  BY <1>1, <1>2, <1>3, RemovedItem
<1>6. \A x : (AtRT(x)' <=> AtRT(x)) /\ (AtProcessed(x)' <=> AtProcessed(x))
  BY <1>1 DEF AtRT, AtProcessed
<1>7. Agrees(o) /\ Apart(o)
  BY <1>1 DEF Agreement, Places
<1>8. o \in registered /\ o \notin updated
  BY <1>1, <1>3, <1>4, <1>7 DEF Agrees, IsHeld, AtNormal, Loops
<1>9. TypeOK'
  BY <1>1, <1>4, <1>5 DEF TypeOK
<1>10. \A x \in Objects : x # NoObject
  BY NoObjectAssumption
<1>11. \A x \in Objects : AtNormal(x)' <=> AtNormal(x)
  BY <1>1, <1>4, <1>5, <1>6, <1>10 DEF AtNormal
<1>12. Places'
  <2>1. \A x \in Objects : Apart(x)'
    BY <1>1, <1>4, <1>5, <1>6, <1>11 DEF Places, Apart
  <2>. QED
    BY <1>1, <1>5, <2>1 DEF Places
<1>13. Loops'
  <2>1. ASSUME NEW i \in DOMAIN Items' PROVE Items'[i].Object \notin updated'
    <3>1. PICK j \in DOMAIN Items : Items'[i] = Items[j]
      BY <1>5
    <3>2. Items'[i].Object \notin updated
      BY <1>1, <1>4, <3>1 DEF Loops
    <3>3. Items'[i].Object # o
      BY <1>5 DEF AtItems
    <3>. QED
      BY <1>4, <3>2, <3>3
  <2>. QED
    BY <1>1, <1>4, <2>1 DEF Loops
<1>14. ASSUME NEW x \in Objects PROVE Agrees(x)'
  <2>1. Agrees(x)
    BY <1>1 DEF Agreement
  <2>2. Requests(o) = {}
    BY <1>4, <1>7 DEF Agrees
  <2>3. m_processing_now' /\ Requests(x) # {} =>
          ~AtRT(x)' /\ ~AtItems(x)' /\ m_current_step_obj' # x
    BY <1>4, <1>5, <1>6, <2>1, <2>2 DEF Agrees
  <2>. QED
    BY <1>1, <1>6, <1>11, <2>1, <2>3, AgreesKept
<1>. QED
  BY <1>4, <1>8, <1>9, <1>12, <1>13, <1>14 DEF IInv, Agreement

LEMMA NormalReturnWithdrawnInv ==
    ASSUME IInv, NormalReturnWithdrawn
    PROVE  IInv'
<1>1. /\ TypeOK /\ Places /\ Loops /\ Agreement
      /\ stage = "normal" /\ m_current_step_obj = NoObject /\ running' = NoObject /\ it' \in Nat
      /\ UNCHANGED <<registered, doomed, b_RT, Registration, ItemsRT, Items, ItemsProcessed,
                     m_current_step_obj, erased, stage, updated>>
  <2>1. (it + 1) % CheckEvery \in Nat
    BY BoundAssumption DEF IInv, TypeOK
  <2>. QED
    BY <2>1 DEF IInv, NormalReturnWithdrawn, objectVars, listVars, heldVars, CountEntry
<1>2. m_processing_now' <=> m_processing_now
  BY <1>1 DEF m_processing_now
<1>3. Places' /\ Agreement'
  BY <1>1, <1>2, NoListChanges
<1>4. TypeOK'
  BY <1>1 DEF TypeOK
<1>5. Loops'
  BY <1>1, <1>2 DEF Loops
<1>. QED
  BY <1>3, <1>4, <1>5 DEF IInv

\* The loop ends with the entries P in hand, whose objects are o or were processed.
LEMMA PushBackInv ==
    ASSUME IInv, stage = "normal", NEW P \in Seq([Object : Objects, due : Int]),
           \A i, j \in DOMAIN P : P[i].Object = P[j].Object => i = j,
           \A x : (\E i \in DOMAIN P : P[i].Object = x)
                    <=> AtProcessed(x) \/ (x = m_current_step_obj /\ x # NoObject),
           PushBack(P), m_current_step_obj' = NoObject, running' = NoObject,
           UNCHANGED <<registered, doomed, b_RT, Registration, ItemsRT, erased, updated>>
    PROVE  IInv'
<1>1. /\ TypeOK /\ Places /\ Loops /\ Agreement
      /\ Items' = Items \o Reverse(P) /\ ItemsProcessed' = <<>> /\ stage' = "after" /\ it' = 0
  BY DEF IInv, PushBack
<1>2. ASSUME NEW i \in DOMAIN P PROVE ~AtItems(P[i].Object)
  <2>1. P[i].Object \in Objects
    <3>1. i \in 1..Len(P)
      BY LenProperties
    <3>2. P[i] \in [Object : Objects, due : Int]
      BY <3>1, ElementOfSeq
    <3>. QED
      BY <3>2
  <2>2. AtProcessed(P[i].Object) \/ P[i].Object = m_current_step_obj
    OBVIOUS
  <2>. QED
    BY <1>1, <2>1, <2>2 DEF Places, Apart
<1>3. /\ Items' \in Seq([Object : Objects \cup {NoObject}, due : Int])
      /\ \A i, j \in DOMAIN Items' :
           Items'[i].Object = Items'[j].Object /\ Items'[i].Object # NoObject => i = j
      /\ \A x : AtItems(x)' <=> AtItems(x) \/ \E i \in DOMAIN P : P[i].Object = x
  BY <1>1, <1>2, PushedBack
<1>4. \A x \in Objects : /\ x # NoObject
                         /\ AtRT(x)' <=> AtRT(x)
                         /\ ~AtProcessed(x)'
  BY <1>1, NoObjectAssumption DEF AtRT, AtProcessed
<1>5. \A x \in Objects : AtNormal(x)' <=> AtNormal(x)
  BY <1>3, <1>4 DEF AtNormal
<1>6. ~m_processing_now'
  BY <1>1 DEF m_processing_now
<1>7. <<>> \in Seq([Object : Objects, due : Int])
  BY EmptySeq
<1>8. TypeOK'
  BY <1>1, <1>3, <1>7 DEF TypeOK
<1>9. Places'
  <2>1. \A x \in Objects : Apart(x)'
    BY <1>1, <1>4, <1>5 DEF Places, Apart
  <2>. QED
    BY <1>1, <1>3, <2>1 DEF Places
<1>10. Loops'
  BY <1>1, <1>6 DEF Loops
<1>11. ASSUME NEW x \in Objects PROVE Agrees(x)'
  <2>1. Agrees(x)
    BY <1>1 DEF Agreement
  <2>2. UNCHANGED Registration /\ (x \in registered' <=> x \in registered)
        /\ b_RT'[x] = b_RT[x] /\ (x \in registered' \ doomed' => x \in registered \ doomed)
    OBVIOUS
  <2>. QED
    BY <1>4, <1>5, <1>6, <2>1, <2>2, AgreesKept
<1>. QED
  BY <1>8, <1>9, <1>10, <1>11 DEF IInv, Agreement

LEMMA NormalReturnInv ==
    ASSUME IInv, NormalReturn
    PROVE  IInv'
<1>1. /\ TypeOK /\ Places /\ Loops /\ Agreement
      /\ stage = "normal" /\ running # NoObject /\ m_current_step_obj # NoObject
      /\ running' = NoObject /\ m_current_step_obj' = NoObject
      /\ UNCHANGED <<registered, doomed, b_RT, Registration, ItemsRT, erased, updated>>
  BY DEF IInv, NormalReturn, objectVars
<1>2. PICK o \in Objects : o = running /\ o = m_current_step_obj /\ o # NoObject
  BY <1>1 DEF TypeOK, Loops
<1>3. PICK dwUpdate, P :
        /\ dwUpdate \in 1..MaxInterval
        /\ P = Append(ItemsProcessed, [Object |-> o, due |-> dwUpdate])
        /\ \/ ItemsProcessed' = P /\ CountEntry /\ UNCHANGED <<Items, stage>>
           \/ PushBack(P)
  BY <1>2 DEF NormalReturn
<1>4. ~AtItems(o) /\ ~AtProcessed(o) /\ ~AtRT(o)
  BY <1>1, <1>2 DEF Places, Apart, AtNormal
<1>5. /\ P \in Seq([Object : Objects, due : Int])
      /\ \A i, j \in DOMAIN P : P[i].Object = P[j].Object => i = j
      /\ \A x : (\E i \in DOMAIN P : P[i].Object = x) <=> AtProcessed(x) \/ x = o
  <2>1. dwUpdate \in Int
    BY <1>3, BoundAssumption
  <2>2. TypeOK /\ Places /\ ~AtProcessed(o)
    BY <1>1, <1>4
  <2>3. P = Append(ItemsProcessed, [Object |-> o, due |-> dwUpdate])
    BY <1>3
  <2>4. Joined(P, o)
    BY <2>1, <2>2, <2>3, AppendedProcessed
  <2>. QED
    BY <2>4 DEF Joined
<1>6. CASE PushBack(P)
  <2>1. \A x : (\E i \in DOMAIN P : P[i].Object = x)
                 <=> AtProcessed(x) \/ (x = m_current_step_obj /\ x # NoObject)
    <3>1. \A x : (x = m_current_step_obj /\ x # NoObject) <=> x = o
      BY <1>2
    <3>. QED
      BY <1>5, <3>1, Zenon
  <2>. QED
    BY <1>1, <1>5, <1>6, <2>1, PushBackInv
<1>7. CASE ItemsProcessed' = P /\ CountEntry /\ UNCHANGED <<Items, stage>>
  <2>1. it' \in Nat
    <3>1. (it + 1) % CheckEvery \in Nat
      BY <1>1, BoundAssumption DEF TypeOK
    <3>. QED
      BY <1>7, <3>1 DEF CountEntry
  <2>2. TypeOK'
    BY <1>1, <1>5, <1>7, <2>1 DEF TypeOK
  <2>3. \A x : /\ AtRT(x)' <=> AtRT(x)
               /\ AtItems(x)' <=> AtItems(x)
               /\ AtProcessed(x)' <=> AtProcessed(x) \/ x = o
    BY <1>1, <1>5, <1>7 DEF AtRT, AtItems, AtProcessed
  <2>4. \A x \in Objects : x # NoObject /\ (AtNormal(x)' <=> AtNormal(x))
    BY <1>1, <1>2, <2>3, NoObjectAssumption DEF AtNormal
  <2>5. Places'
    <3>1. \A x \in Objects : Apart(x)'
      BY <1>1, <1>4, <2>3, <2>4 DEF Places, Apart
    <3>. QED
      BY <1>1, <1>5, <1>7, <3>1 DEF Places
  <2>6. m_processing_now' <=> m_processing_now
    BY <1>7 DEF m_processing_now
  <2>7. Loops'
    BY <1>1, <1>7, <2>6 DEF Loops
  <2>8. ASSUME NEW x \in Objects PROVE Agrees(x)'
    <3>1. Agrees(x)
      BY <1>1 DEF Agreement
    <3>2. m_processing_now' /\ Requests(x) # {} =>
            ~AtRT(x)' /\ ~AtItems(x)' /\ m_current_step_obj' # x
      BY <1>1, <2>3, <2>4, <2>6, <3>1 DEF Agrees
    <3>. QED
      BY <1>1, <2>3, <2>4, <3>1, <3>2, AgreesKept
  <2>. QED
    BY <2>2, <2>5, <2>7, <2>8 DEF IInv, Agreement
<1>. QED
  BY <1>3, <1>6, <1>7

LEMMA NormalDoneInv ==
    ASSUME IInv, NormalDone
    PROVE  IInv'
<1>1. /\ TypeOK /\ Places /\ Loops
      /\ stage = "normal" /\ running = NoObject /\ m_current_step_obj = NoObject
      /\ PushBack(ItemsProcessed)
      /\ running' = NoObject /\ m_current_step_obj' = NoObject
      /\ UNCHANGED <<registered, doomed, b_RT, Registration, ItemsRT, erased, updated>>
  BY DEF IInv, NormalDone, objectVars, Loops
<1>2. PICK P : P = ItemsProcessed
  OBVIOUS
<1>3. /\ P \in Seq([Object : Objects, due : Int])
      /\ \A i, j \in DOMAIN P : P[i].Object = P[j].Object => i = j
      /\ PushBack(P)
  BY <1>1, <1>2 DEF TypeOK, Places
<1>4. \A x : (\E i \in DOMAIN P : P[i].Object = x)
               <=> AtProcessed(x) \/ (x = m_current_step_obj /\ x # NoObject)
  BY <1>1, <1>2 DEF AtProcessed
<1>. QED
  BY <1>1, <1>3, <1>4, PushBackInv

-----------------------------------------------------------------------------
(***************************************************************************)
(* Steps that leave the lists alone.                                       *)
(***************************************************************************)

\* The times that are over are finitely many: they lie between one of them and now.
LEMMA OverIsFinite ==
    ASSUME NEW i \in DOMAIN Items, Items[i].due \in Int, Items[i].due <= 0,
           \A j \in DOMAIN Items : Items[j].due \in Int
    PROVE  /\ IsFiniteSet(Over(i))
           /\ Cardinality(Over(i)) \in Nat
<1>. DEFINE T == Items[i].due..0
<1>1. IsFiniteSet(T)
  BY FS_Interval
<1>2. Over(i) \in SUBSET T
  BY DEF Over
<1>. HIDE DEF T
<1>3. IsFiniteSet(Over(i))
  BY <1>1, <1>2, FS_Subset
<1>. QED
  BY <1>3, FS_CardinalityType

\* What is left of a time is a time.
LEMMA RemainingType ==
    ASSUME NEW i \in DOMAIN Items, \A j \in DOMAIN Items : Items[j].due \in Int
    PROVE  Remaining(i) \in Int
<1>1. CASE Items[i].due > 0
  BY <1>1 DEF Remaining
<1>2. CASE ~(Items[i].due > 0)
  <2>1. Items[i].due \in Int /\ Items[i].due <= 0
    BY <1>2
  <2>2. Cardinality(Over(i)) \in Nat
    BY <2>1, OverIsFinite
  <2>. QED
    BY <1>2, <2>2 DEF Remaining
<1>. QED
  BY <1>1, <1>2

\* Of two times that are over, the earlier one has more times that are not before it.
LEMMA OverIsStrict ==
    ASSUME \A k \in DOMAIN Items : Items[k].due \in Int,
           NEW i \in DOMAIN Items, NEW j \in DOMAIN Items,
           Items[i].due < Items[j].due, Items[j].due <= 0
    PROVE  Cardinality(Over(j)) < Cardinality(Over(i))
<1>1. Items[i].due \in Int /\ Items[j].due \in Int /\ Items[i].due <= 0
  OBVIOUS
<1>2. /\ IsFiniteSet(Over(i)) /\ Cardinality(Over(i)) \in Nat
      /\ Cardinality(Over(j)) \in Nat
  BY <1>1, OverIsFinite
<1>3. Over(j) \in SUBSET Over(i)
  BY <1>1 DEF Over
<1>4. Items[i].due \in Over(i) /\ Items[i].due \notin Over(j)
  BY <1>1 DEF Over
<1>5. /\ Cardinality(Over(j)) <= Cardinality(Over(i))
      /\ (Cardinality(Over(i)) = Cardinality(Over(j)) => Over(i) = Over(j))
  BY <1>2, <1>3, FS_Subset
<1>. QED
  BY <1>2, <1>4, <1>5

\* Counting only the times that are over changes no comparison of the code: as
\* if each had lost one unit, the entries keep their order, and those are due
\* whose time was over.
LEMMA TickKeepsOrder ==
    ASSUME \A k \in DOMAIN Items : Items[k].due \in Int,
           NEW i \in DOMAIN Items, NEW j \in DOMAIN Items
    PROVE  /\ (Remaining(i) <= Remaining(j)) <=> (Items[i].due <= Items[j].due)
           /\ (Remaining(i) < 0) <=> (Items[i].due <= 0)
<1>. DEFINE a(k) == Items[k].due
            c(k) == Cardinality(Over(k))
            r(k) == Remaining(k)
<1>1. \A k \in DOMAIN Items : a(k) \in Int
  OBVIOUS
<1>2. \A k \in DOMAIN Items : a(k) > 0 => r(k) = a(k) - 1
  BY DEF Remaining
<1>3. \A k \in DOMAIN Items : a(k) <= 0 => r(k) = -c(k)
  BY <1>1 DEF Remaining
<1>4. \A k \in DOMAIN Items : a(k) <= 0 => c(k) \in Nat /\ c(k) > 0
  <2>. SUFFICES ASSUME NEW k \in DOMAIN Items, Items[k].due <= 0
                PROVE  Cardinality(Over(k)) \in Nat /\ Cardinality(Over(k)) > 0
    OBVIOUS
  <2>1. Items[k].due \in Int
    OBVIOUS
  <2>2. IsFiniteSet(Over(k)) /\ Cardinality(Over(k)) \in Nat
    BY <2>1, OverIsFinite
  <2>3. Items[k].due \in Over(k)
    BY <2>1 DEF Over
  <2>4. Cardinality(Over(k)) = 0 => Over(k) = {}
    BY <2>2, FS_EmptySet
  <2>. QED
    BY <2>2, <2>3, <2>4
<1>5. \A k, l \in DOMAIN Items : (a(k) < a(l) /\ a(l) <= 0) => c(l) < c(k)
  BY OverIsStrict
<1>6. \A k, l \in DOMAIN Items : (a(k) = a(l) /\ a(l) <= 0) => c(l) = c(k)
  BY DEF Over
<1>7. (r(i) <= r(j)) <=> (a(i) <= a(j))
  <2>. HIDE DEF a, c, r
  <2>. QED
    BY <1>1, <1>2, <1>3, <1>4, <1>5, <1>6
<1>8. (r(i) < 0) <=> (a(i) <= 0)
  <2>. HIDE DEF a, c, r
  <2>. QED
    BY <1>1, <1>2, <1>3, <1>4
<1>. QED
  BY <1>7, <1>8

\* Time changes only the time until the entries are due.
LEMMA TickInv ==
    ASSUME IInv, Tick
    PROVE  IInv'
<1>1. /\ TypeOK /\ Places /\ Loops /\ Agreement /\ stage = "idle"
      /\ Items' = [i \in DOMAIN Items |-> [Items[i] EXCEPT !.due = Remaining(i)]]
      /\ UNCHANGED <<registered, doomed, b_RT, Registration, ItemsRT, ItemsProcessed,
                     m_current_step_obj, erased, stage, it, running, updated>>
  BY DEF IInv, Tick, objectVars, loopVars
<1>2. /\ DOMAIN Items' = DOMAIN Items
      /\ \A i \in DOMAIN Items : Items'[i].Object = Items[i].Object
      /\ Items' \in Seq([Object : Objects \cup {NoObject}, due : Int])
  <2>1. /\ Len(Items) \in Nat /\ DOMAIN Items = 1..Len(Items)
        /\ \A i \in DOMAIN Items : Items[i] \in [Object : Objects \cup {NoObject}, due : Int]
    BY <1>1, Positions
  <2>2. \A i \in DOMAIN Items :
          /\ [Items[i] EXCEPT !.due = Remaining(i)] \in [Object : Objects \cup {NoObject}, due : Int]
          /\ [Items[i] EXCEPT !.due = Remaining(i)].Object = Items[i].Object
    <3>1. \A i \in DOMAIN Items : Items[i].due \in Int
      BY <2>1
    <3>2. \A i \in DOMAIN Items : Remaining(i) \in Int
      BY <3>1, RemainingType
    <3>3. \A E \in [Object : Objects \cup {NoObject}, due : Int], d \in Int :
            /\ [E EXCEPT !.due = d] \in [Object : Objects \cup {NoObject}, due : Int]
            /\ [E EXCEPT !.due = d].Object = E.Object
      OBVIOUS
    <3>. QED
      BY <2>1, <3>2, <3>3
  <2>3. Items' \in [1..Len(Items) -> [Object : Objects \cup {NoObject}, due : Int]]
    BY <1>1, <2>1, <2>2
  <2>4. \A S : \A n \in Nat : \A f \in [1..n -> S] : f \in Seq(S)
    OBVIOUS
  <2>. QED
    BY <1>1, <2>1, <2>2, <2>3, <2>4
<1>3. \A x : /\ AtRT(x)' <=> AtRT(x)
             /\ AtItems(x)' <=> AtItems(x)
             /\ AtProcessed(x)' <=> AtProcessed(x)
             /\ AtNormal(x)' <=> AtNormal(x)
  BY <1>1, <1>2 DEF AtRT, AtItems, AtProcessed, AtNormal
<1>4. ~m_processing_now'
  BY <1>1 DEF m_processing_now
<1>5. TypeOK'
  BY <1>1, <1>2 DEF TypeOK
<1>6. Places'
  <2>1. \A x \in Objects : Apart(x)'
    BY <1>1, <1>3 DEF Places, Apart
  <2>2. /\ Places /\ ItemsRT' = ItemsRT /\ ItemsProcessed' = ItemsProcessed
        /\ DOMAIN Items' = DOMAIN Items
        /\ \A i \in DOMAIN Items : Items'[i].Object = Items[i].Object
    BY <1>1, <1>2
  <2>. QED
    BY <2>1, <2>2 DEF Places
<1>7. Loops'
  BY <1>1, <1>4 DEF Loops, m_processing_now
<1>8. ASSUME NEW x \in Objects PROVE Agrees(x)'
  <2>1. Agrees(x)
    BY <1>1 DEF Agreement
  <2>. QED
    BY <1>1, <1>3, <1>4, <2>1, AgreesKept
<1>. QED
  BY <1>5, <1>6, <1>7, <1>8 DEF IInv, Agreement

\* The next object of the realtime loop is registered and was not updated in this frame.
LEMMA RealtimeUpdateInv ==
    ASSUME IInv, RealtimeUpdate
    PROVE  IInv' /\ running' \in registered \ updated
<1>1. /\ TypeOK /\ Places /\ Loops /\ Agreement
      /\ stage = "realtime" /\ running = NoObject /\ it < Len(ItemsRT)
      /\ Call(ItemsRT[it + 1])
      /\ UNCHANGED <<registered, doomed, b_RT, Registration, ItemsRT, Items, ItemsProcessed,
                     m_current_step_obj, erased, stage, it>>
  BY DEF IInv, RealtimeUpdate, AtRealtime, objectVars, listVars, heldVars
<1>2. /\ it \in Nat /\ Len(ItemsRT) \in Nat /\ DOMAIN ItemsRT = 1..Len(ItemsRT)
  BY <1>1, Positions DEF TypeOK
<1>3. it + 1 \in DOMAIN ItemsRT
  BY <1>1, <1>2
<1>4. PICK o \in Objects : o = ItemsRT[it + 1]
  BY <1>1, <1>3, Positions
<1>5. /\ running' = o /\ updated' = updated \cup {o} /\ o # NoObject
      /\ m_processing_now /\ m_processing_now'
  BY <1>1, <1>4, NoObjectAssumption DEF Call, m_processing_now
<1>6. AtRT(o) /\ Agrees(o) /\ Apart(o)
  BY <1>1, <1>3, <1>4 DEF AtRT, Agreement, Places
<1>7. o \in registered
  BY <1>5, <1>6 DEF Agrees, IsHeld
<1>8. o \notin updated
  BY <1>1, <1>2, <1>3, <1>4 DEF Loops
<1>9. TypeOK'
  BY <1>1, <1>5 DEF TypeOK
<1>10. Places' /\ Agreement'
  BY <1>1, <1>5, NoListChanges
<1>11. Loops'
  <2>1. ASSUME NEW i \in DOMAIN ItemsRT', i > it' + 1 PROVE ItemsRT'[i] \notin updated'
    <3>1. i \in DOMAIN ItemsRT /\ i > it /\ i # it + 1 /\ ItemsRT'[i] = ItemsRT[i]
      BY <1>1, <1>2, <2>1
    <3>2. ItemsRT[i] \notin updated
      BY <1>1, <1>2, <3>1 DEF Loops
    <3>3. ItemsRT[i] # o
      BY <1>1, <1>3, <1>4, <3>1 DEF Places
    <3>. QED
      BY <1>5, <3>1, <3>2, <3>3
  <2>2. ASSUME NEW i \in DOMAIN Items' PROVE Items'[i].Object \notin updated'
    <3>1. Items[i].Object \notin updated /\ Items[i].Object # o
      BY <1>1, <1>5, <1>6, <2>2 DEF Loops, Apart, AtNormal, AtItems
    <3>. QED
      BY <1>1, <1>5, <3>1
  <2>. QED
    BY <1>1, <1>5, <2>1, <2>2 DEF Loops
<1>. QED
  BY <1>5, <1>7, <1>8, <1>9, <1>10, <1>11 DEF IInv

LEMMA RealtimeGoesOnInv ==
    ASSUME IInv, RealtimeSkip \/ RealtimeReturn
    PROVE  IInv'
<1>1. /\ TypeOK /\ Places /\ Loops /\ Agreement
      /\ stage = "realtime" /\ it' = it + 1 /\ running' = NoObject
      /\ UNCHANGED <<registered, doomed, b_RT, Registration, ItemsRT, Items, ItemsProcessed,
                     m_current_step_obj, erased, stage, updated>>
  BY DEF IInv, RealtimeSkip, RealtimeReturn, AtRealtime, objectVars, listVars, heldVars
<1>2. m_processing_now /\ m_processing_now'
  BY <1>1 DEF m_processing_now
<1>3. it \in Nat /\ it + 1 \in Nat /\ DOMAIN ItemsRT \subseteq Int
  BY <1>1, Positions DEF TypeOK
<1>4. TypeOK'
  BY <1>1, <1>3 DEF TypeOK
<1>5. Places' /\ Agreement'
  BY <1>1, <1>2, NoListChanges
<1>6. ASSUME NEW i \in DOMAIN ItemsRT, i > it + 1 PROVE ItemsRT[i] \notin updated
  <2>1. i > it + (IF running = NoObject THEN 0 ELSE 1)
    BY <1>3, <1>6
  <2>. QED
    BY <1>1, <2>1 DEF Loops
<1>7. Loops'
  <2>1. \A i \in DOMAIN ItemsRT' : i > it' + 0 => ItemsRT'[i] \notin updated'
    BY <1>1, <1>3, <1>6
  <2>2. m_current_step_obj = NoObject /\ ItemsProcessed = <<>>
    BY <1>1 DEF Loops
  <2>. QED
    BY <1>1, <1>2, <2>1, <2>2 DEF Loops
<1>. QED
  BY <1>4, <1>5, <1>7 DEF IInv

\* From one stage of Update to the next.
LEMMA StagesInv ==
    ASSUME IInv, StartUpdate \/ EnterRealtime \/ EnterNormal \/ EndUpdate
    PROVE  IInv' /\ running' = NoObject
<1>1. /\ TypeOK /\ Places /\ Loops /\ Agreement
      /\ UNCHANGED <<registered, doomed, b_RT, Registration, ItemsRT, Items, ItemsProcessed,
                     m_current_step_obj, running>>
      /\ it' \in {it, 0} /\ erased' \in {erased, 0} /\ updated' \in {updated, {}}
      /\ stage' \in {"idle", "before", "realtime", "normal"}
      /\ running = NoObject
  BY DEF IInv, Loops, m_processing_now, StartUpdate, EnterRealtime, EnterNormal, EndUpdate,
         objectVars, listVars, heldVars
<1>2. m_processing_now' => m_processing_now \/ Registration = <<>>
  BY DEF StartUpdate, EnterRealtime, EnterNormal, EndUpdate, m_processing_now
<1>3. TypeOK'
  BY <1>1 DEF TypeOK
<1>4. Places' /\ Agreement'
  BY <1>1, <1>2, NoListChanges
<1>5. /\ stage' \in {"idle", "before", "realtime"} => updated' = {}
      /\ m_processing_now' => (m_processing_now /\ updated' = updated) \/ updated' = {}
      /\ stage # "normal"
  BY <1>1 DEF Loops, StartUpdate, EnterRealtime, EnterNormal, EndUpdate, m_processing_now
<1>6. m_current_step_obj = NoObject /\ ItemsProcessed = <<>>
  BY <1>1, <1>5 DEF Loops
<1>7. Loops'
  BY <1>1, <1>5, <1>6 DEF Loops
<1>. QED
  BY <1>1, <1>3, <1>4, <1>7 DEF IInv

LEMMA setDestroyInv ==
    ASSUME IInv, NEW o \in Objects, setDestroy(o)
    PROVE  IInv'
<1>1. /\ TypeOK /\ Places /\ Loops /\ Agreement
      /\ o \in registered /\ doomed' = doomed \cup {o}
      /\ UNCHANGED <<registered, b_RT, Registration, ItemsRT, Items, ItemsProcessed,
                     m_current_step_obj, erased, stage, it, running, updated>>
  BY DEF IInv, setDestroy, listVars, heldVars, loopVars
<1>2. m_processing_now' <=> m_processing_now
  BY <1>1 DEF m_processing_now
<1>3. TypeOK'
  BY <1>1 DEF TypeOK
<1>4. registered' \ doomed' \subseteq registered \ doomed
  BY <1>1
<1>5. Places' /\ Agreement'
  BY <1>1, <1>2, <1>4, NoListChanges
<1>6. Loops'
  BY <1>1, <1>2 DEF Loops
<1>. QED
  BY <1>3, <1>5, <1>6 DEF IInv

LEMMA UnregisterInv ==
    ASSUME IInv, NEW o \in Objects, Unregister(o)
    PROVE  IInv'
<1>1. b_RT \in [Objects -> BOOLEAN]
  BY DEF IInv, TypeOK
<1>2. PICK rt \in BOOLEAN : rt = b_RT[o]
  BY <1>1
<1>3. /\ Withdraw(o, rt) /\ registered' = registered \ {o} /\ doomed' = doomed \ {o}
      /\ b_RT' = [b_RT EXCEPT ![o] = FALSE]
      /\ UNCHANGED <<ItemsProcessed, loopVars>>
  BY <1>2 DEF Unregister
<1>4. b_RT' \in [Objects -> BOOLEAN] /\ \A x \in Objects : x # o => b_RT'[x] = b_RT[x]
  BY <1>1, <1>3
<1>. QED
  BY <1>2, <1>3, <1>4, WithdrawInv

LEMMA DestroyUnregisteredInv ==
    ASSUME IInv, NEW o \in Objects, DestroyUnregistered(o)
    PROVE  IInv'
<1>1. PICK rt \in BOOLEAN : Withdraw(o, rt)
  BY DEF DestroyUnregistered
<1>2. /\ o \notin registered /\ UNCHANGED <<registered, doomed, b_RT>>
      /\ UNCHANGED <<ItemsProcessed, loopVars>>
  BY DEF DestroyUnregistered, objectVars
<1>3. registered' = registered \ {o} /\ doomed' = doomed \ {o}
  BY <1>2 DEF IInv, TypeOK
<1>4. b_RT' \in [Objects -> BOOLEAN] /\ \A x \in Objects : x # o => b_RT'[x] = b_RT[x]
  BY <1>2 DEF IInv, TypeOK
<1>. QED
  BY <1>1, <1>2, <1>3, <1>4, WithdrawInv

LEMMA UpdateInv ==
    ASSUME IInv, Update
    PROVE  IInv'
BY ServeRequestInv, NormalDropInv, NormalUpdateInv, NormalReturnWithdrawnInv, NormalReturnInv,
   NormalDoneInv, RealtimeUpdateInv, RealtimeGoesOnInv, StagesInv
   DEF Update

LEMMA StutteringInv ==
    ASSUME IInv, UNCHANGED vars
    PROVE  IInv'
<1>1. UNCHANGED <<registered, doomed, b_RT, Registration, ItemsRT, Items, ItemsProcessed,
                  m_current_step_obj, erased, stage, it, running, updated>>
  BY DEF vars, objectVars, listVars, heldVars, loopVars
<1>2. m_processing_now' <=> m_processing_now
  BY <1>1 DEF m_processing_now
<1>3. TypeOK' /\ Loops'
  BY <1>1, <1>2 DEF IInv, TypeOK, Loops
<1>4. Places' /\ Agreement'
  BY <1>1, <1>2, NoListChanges
<1>. QED
  BY <1>3, <1>4 DEF IInv

LEMMA NextInvariant == IInv /\ [Next]_vars => IInv'
<1>. SUFFICES ASSUME IInv, [Next]_vars PROVE IInv'
  OBVIOUS
<1>1. ASSUME NEW o \in Objects, Unregister(o) PROVE IInv'
  BY <1>1, UnregisterInv
<1>2. ASSUME NEW o \in Objects, DestroyUnregistered(o) PROVE IInv'
  BY <1>2, DestroyUnregisteredInv
<1>3. ASSUME NEW o \in Objects, setDestroy(o) PROVE IInv'
  BY <1>3, setDestroyInv
<1>4. ASSUME NEW o \in Objects, NEW rt \in Priorities[o], Register(o, rt) PROVE IInv'
  BY <1>4, RegisterInv
<1>5. CASE Game
  BY <1>5, <1>1, <1>2, <1>3, <1>4, TickInv DEF Game
<1>. QED
  BY <1>5, UpdateInv, StutteringInv DEF Next

-----------------------------------------------------------------------------
(***************************************************************************)
(* The theorems.                                                           *)
(***************************************************************************)

\* The lists, the requests and the loops of Update stay consistent, whatever
\* the game registers and deletes between frames and within the updates.
THEOREM Invariance == Spec => []IInv
<1>. QED
  BY InitInvariant, NextInvariant, PTL DEF Spec

\* A step of the scheduler is one of its contract, or none at all.
LEMMA GameKeepsContract ==
    ASSUME IInv, Game
    PROVE  [Contract!Next]_(Contract!vars)
<1>1. ASSUME NEW o \in Objects, NEW rt \in Priorities[o], Register(o, rt)
      PROVE  Contract!Register(o)
  BY <1>1 DEF Register, loopVars, Contract!Register
<1>2. ASSUME NEW o \in Objects, Unregister(o) PROVE Contract!Unregister(o)
  BY <1>2 DEF Unregister, loopVars, Contract!Unregister
<1>3. ASSUME NEW o \in Objects, DestroyUnregistered(o) \/ setDestroy(o) PROVE UNCHANGED Contract!vars
  BY <1>3 DEF DestroyUnregistered, setDestroy, objectVars, loopVars, Contract!vars
<1>4. CASE Tick
  BY <1>4 DEF Tick, objectVars, loopVars, Contract!vars
<1>. QED
  BY <1>1, <1>2, <1>3, <1>4 DEF Game, Contract!Next

LEMMA UpdateKeepsContract ==
    ASSUME IInv, Update
    PROVE  [Contract!Next]_(Contract!vars)
<1>1. CASE StartUpdate \/ ServeRequest \/ EnterRealtime \/ EnterNormal \/ RealtimeSkip \/ NormalDrop
           \/ NormalDone
  BY <1>1 DEF StartUpdate, ServeRequest, EnterRealtime, EnterNormal, RealtimeSkip, NormalDrop,
              NormalDone, objectVars, loopVars, Contract!vars
<1>2. CASE EndUpdate
  <2>1. running = NoObject
    BY <1>2 DEF IInv, Loops, EndUpdate, m_processing_now
  <2>. QED
    BY <1>2, <2>1 DEF EndUpdate, objectVars, Contract!NewFrame, Contract!Next
<1>3. CASE RealtimeUpdate
  <2>1. running' \in registered \ updated /\ registered \subseteq Objects
    BY <1>3, RealtimeUpdateInv DEF IInv, TypeOK
  <2>2. /\ running = NoObject /\ updated' = updated \cup {running'} /\ registered' = registered
    BY <1>3 DEF RealtimeUpdate, AtRealtime, Call, objectVars
  <2>3. PICK o \in Objects : o = running'
    BY <2>1
  <2>4. Contract!Begin(o)
    BY <2>1, <2>2, <2>3 DEF Contract!Begin
  <2>. QED
    BY <2>4 DEF Contract!Next
<1>4. CASE NormalUpdate
  <2>1. running' \in registered \ updated /\ registered \subseteq Objects
    BY <1>4, NormalUpdateInv DEF IInv, TypeOK
  <2>2. /\ running = NoObject /\ updated' = updated \cup {running'} /\ registered' = registered
    BY <1>4 DEF NormalUpdate, Call, objectVars
  <2>3. PICK o \in Objects : o = running'
    BY <2>1
  <2>4. Contract!Begin(o)
    BY <2>1, <2>2, <2>3 DEF Contract!Begin
  <2>. QED
    BY <2>4 DEF Contract!Next
<1>5. CASE RealtimeReturn \/ NormalReturnWithdrawn \/ NormalReturn
  BY <1>5 DEF RealtimeReturn, NormalReturnWithdrawn, NormalReturn, objectVars,
              Contract!End, Contract!Next
<1>. QED
  BY <1>1, <1>2, <1>3, <1>4, <1>5 DEF Update

\* The scheduler implements its contract: an object is updated only while it
\* is registered, one at a time and at most once in a frame, although updates
\* register, unregister and delete objects under its loops
\* (xrSheduler.cpp:294-471).
THEOREM ImplementsUpdateSchedule == Spec => IsUpdateSchedule
<1>1. Init => Contract!Init
  BY DEF Init, Contract!Init
<1>2. IInv /\ [Next]_vars => [Contract!Next]_(Contract!vars)
  <2>1. IInv /\ UNCHANGED vars => UNCHANGED Contract!vars
    BY DEF vars, objectVars, loopVars, Contract!vars
  <2>. QED
    BY <2>1, GameKeepsContract, UpdateKeepsContract DEF Next
<1>. QED
  BY <1>1, <1>2, Invariance, PTL DEF Spec, IsUpdateSchedule, Contract!Spec

-----------------------------------------------------------------------------
(***************************************************************************)
(* What the invariant says of the objects.                                 *)
(***************************************************************************)

\* While Update runs, no request is about an object that the loops can read.
LEMMA ReadIsRegistered ==
    ASSUME IInv, m_processing_now, NEW o \in Objects,
           AtRT(o) \/ AtItems(o) \/ m_current_step_obj = o
    PROVE  o \in registered
<1>1. Agrees(o) /\ IsHeld(o)
  BY DEF IInv, Agreement, IsHeld, AtNormal
<1>. QED
  BY <1>1 DEF Agrees

\* What Update reads while it runs, after an update has returned as well, is
\* registered, and not memory of an object that was deleted meanwhile
\* (xrSheduler.cpp:299-402, 433-455).
THEOREM NothingFreed == Spec => []NothingFreedIsTouched
<1>1. IInv => NothingFreedIsTouched
  <2>. SUFFICES ASSUME IInv, m_processing_now
                PROVE  /\ Range(ItemsRT) \subseteq registered
                       /\ \A i \in DOMAIN Items : Items[i].Object \in registered \cup {NoObject}
                       /\ m_current_step_obj # NoObject =>
                            m_current_step_obj = running /\ running \in registered
    BY DEF NothingFreedIsTouched
  <2>1. TypeOK
    BY DEF IInv
  <2>2. Range(ItemsRT) \subseteq registered
    <3>1. ASSUME NEW i \in DOMAIN ItemsRT PROVE ItemsRT[i] \in registered
      <4>1. ItemsRT[i] \in Objects /\ AtRT(ItemsRT[i])
        BY <2>1, Positions DEF AtRT
      <4>. QED
        BY <4>1, ReadIsRegistered
    <3>. QED
      BY <3>1 DEF Range
  <2>3. ASSUME NEW i \in DOMAIN Items PROVE Items[i].Object \in registered \cup {NoObject}
    <3>1. Items[i].Object \in Objects \cup {NoObject} /\ AtItems(Items[i].Object)
      BY <2>1, Positions DEF AtItems
    <3>. QED
      BY <3>1, ReadIsRegistered
  <2>4. m_current_step_obj # NoObject =>
          m_current_step_obj = running /\ running \in registered
    BY <2>1, ReadIsRegistered DEF IInv, Loops, TypeOK
  <2>. QED
    BY <2>2, <2>3, <2>4
<1>. QED
  BY <1>1, Invariance, PTL

IsIn(x, s) == \E i \in DOMAIN s : s[i] = x

\* No object is twice in s.
Once(s) == \A i, j \in DOMAIN s : i # j /\ s[i] = s[j] => s[i] = NoObject

\* Two lists in a row.
LEMMA InARow ==
    ASSUME NEW T, NEW s \in Seq(T), NEW t \in Seq(T), Once(s), Once(t),
           \A x : IsIn(x, s) /\ IsIn(x, t) => x = NoObject
    PROVE  /\ s \o t \in Seq(T) /\ Once(s \o t)
           /\ \A x : IsIn(x, s \o t) <=> IsIn(x, s) \/ IsIn(x, t)
<1>1. /\ Len(s) \in Nat /\ DOMAIN s = 1..Len(s) /\ Len(t) \in Nat /\ DOMAIN t = 1..Len(t)
  BY LenProperties
<1>2. /\ s \o t \in Seq(T) /\ Len(s \o t) = Len(s) + Len(t)
      /\ \A i \in 1..(Len(s) + Len(t)) :
           (s \o t)[i] = IF i <= Len(s) THEN s[i] ELSE t[i - Len(s)]
  BY ConcatProperties
<1>3. DOMAIN (s \o t) = 1..(Len(s) + Len(t))
  BY <1>2, LenProperties
<1>. DEFINE c == s \o t
<1>. HIDE DEF c
<1>4. \A i \in DOMAIN c : \/ i \in DOMAIN s /\ c[i] = s[i]
                          \/ i - Len(s) \in DOMAIN t /\ c[i] = t[i - Len(s)] /\ i \in Int
  BY <1>1, <1>2, <1>3 DEF c
<1>5. ASSUME NEW i \in DOMAIN c, NEW j \in DOMAIN c, i # j, c[i] = c[j] PROVE c[i] = NoObject
  <2>1. CASE i \in DOMAIN s /\ c[i] = s[i]
    BY <2>1, <1>4, <1>5 DEF Once, IsIn
  <2>2. CASE i - Len(s) \in DOMAIN t /\ c[i] = t[i - Len(s)] /\ i \in Int
    <3>1. CASE j \in DOMAIN s /\ c[j] = s[j]
      BY <2>2, <3>1, <1>5 DEF IsIn
    <3>2. CASE j - Len(s) \in DOMAIN t /\ c[j] = t[j - Len(s)] /\ j \in Int
      <4>1. i - Len(s) # j - Len(s)
        BY <1>1, <1>5, <2>2, <3>2
      <4>. QED
        BY <4>1, <1>5, <2>2, <3>2 DEF Once
    <3>. QED
      BY <3>1, <3>2, <1>4
  <2>. QED
    BY <2>1, <2>2, <1>4
<1>6. ASSUME NEW i \in DOMAIN s PROVE i \in DOMAIN c /\ c[i] = s[i]
  BY <1>1, <1>2, <1>3 DEF c
<1>7. ASSUME NEW i \in DOMAIN t PROVE \E k \in DOMAIN c : c[k] = t[i]
  <2>1. i + Len(s) \in 1..(Len(s) + Len(t)) /\ ~(i + Len(s) <= Len(s))
        /\ (i + Len(s)) - Len(s) = i
    BY <1>1
  <2>2. c[i + Len(s)] = t[i]
    BY <2>1, <1>2 DEF c
  <2>. QED
    BY <2>1, <2>2, <1>3 DEF c
<1>8. \A x : IsIn(x, c) <=> IsIn(x, s) \/ IsIn(x, t)
  BY <1>4, <1>6, <1>7 DEF IsIn
<1>9. Once(c)
  BY <1>5 DEF Once
<1>. QED
  BY <1>2, <1>8, <1>9 DEF c

\* The lists in a row hold each object once, and those that are held.
LEMMA HeldProperties ==
    ASSUME IInv
    PROVE  /\ OnePlace
           /\ \A o \in Objects : o \in Range(Held) <=> IsHeld(o)
<1>. DEFINE T == Objects \cup {NoObject}
            I == [i \in DOMAIN Items |-> Items[i].Object]
            P == [i \in DOMAIN ItemsProcessed |-> ItemsProcessed[i].Object]
            c == <<m_current_step_obj>>
<1>1. TypeOK /\ Places /\ NoObject \notin Objects
  BY NoObjectAssumption DEF IInv
<1>2. /\ ItemsRT \in Seq(T) /\ I \in Seq(T) /\ P \in Seq(T) /\ c \in Seq(T)
      /\ DOMAIN I = DOMAIN Items /\ DOMAIN P = DOMAIN ItemsProcessed /\ DOMAIN c = {1}
  <2>1. ItemsRT \in Seq(T)
    <3>1. ItemsRT \in Seq(Objects) /\ Objects \subseteq T
      BY <1>1 DEF TypeOK
    <3>. QED
      BY <3>1
  <2>2. I \in [1..Len(Items) -> T] /\ P \in [1..Len(ItemsProcessed) -> T]
    BY <1>1, Positions
  <2>3. I \in Seq(T) /\ P \in Seq(T)
    BY <2>2, <1>1, Positions, IsASeq
  <2>4. c \in Seq(T) /\ DOMAIN c = {1}
    BY <1>1 DEF TypeOK
  <2>. QED
    BY <2>1, <2>3, <2>4
<1>3. /\ \A i \in DOMAIN I : I[i] = Items[i].Object
      /\ \A i \in DOMAIN P : P[i] = ItemsProcessed[i].Object
      /\ c[1] = m_current_step_obj
  OBVIOUS
<1>4. Held = ((ItemsRT \o I) \o P) \o c
  BY DEF Held
<1>. HIDE DEF I, P, c, T
<1>5. /\ \A x : IsIn(x, ItemsRT) <=> AtRT(x)
      /\ \A x : IsIn(x, I) <=> AtItems(x)
      /\ \A x : IsIn(x, P) <=> AtProcessed(x)
      /\ \A x : IsIn(x, c) <=> m_current_step_obj = x
  BY <1>2, <1>3 DEF IsIn, AtRT, AtItems, AtProcessed
<1>6. /\ \A x : AtRT(x) \/ AtItems(x) \/ AtProcessed(x) \/ m_current_step_obj = x
                  => x \in Objects \cup {NoObject}
      /\ \A x \in Objects : Apart(x)
  <2>1. \A i \in DOMAIN ItemsRT : ItemsRT[i] \in Objects
    BY <1>1, Positions
  <2>2. \A i \in DOMAIN Items : Items[i].Object \in Objects \cup {NoObject}
    BY <1>1, Positions
  <2>3. \A i \in DOMAIN ItemsProcessed : ItemsProcessed[i].Object \in Objects
    BY <1>1, Positions
  <2>4. m_current_step_obj \in Objects \cup {NoObject}
    BY <1>1 DEF TypeOK
  <2>. QED
    BY <2>1, <2>2, <2>3, <2>4, <1>1 DEF AtRT, AtItems, AtProcessed, Places
<1>7. Once(ItemsRT) /\ Once(I) /\ Once(P) /\ Once(c)
  <2>1. Once(ItemsRT) /\ Once(c)
    BY <1>1, <1>2 DEF Places, Once
  <2>2. Once(I) /\ Once(P)
    BY <1>1, <1>2, <1>3 DEF Places, Once
  <2>. QED
    BY <2>1, <2>2
<1>. DEFINE a == ItemsRT \o I
            b == a \o P
            d == b \o c
<1>8. /\ a \in Seq(T) /\ Once(a)
      /\ \A x : IsIn(x, a) <=> AtRT(x) \/ AtItems(x)
  <2>1. \A x : IsIn(x, ItemsRT) /\ IsIn(x, I) => x = NoObject
    BY <1>5, <1>6 DEF Apart, AtNormal
  <2>2. /\ a \in Seq(T) /\ Once(a)
        /\ \A x : IsIn(x, a) <=> IsIn(x, ItemsRT) \/ IsIn(x, I)
    BY <1>2, <1>7, <2>1, InARow
  <2>. QED
    BY <1>5, <2>2
<1>. HIDE DEF a
<1>9. /\ b \in Seq(T) /\ Once(b)
      /\ \A x : IsIn(x, b) <=> AtRT(x) \/ AtItems(x) \/ AtProcessed(x)
  <2>1. \A x : IsIn(x, a) /\ IsIn(x, P) => x = NoObject
    BY <1>5, <1>6, <1>8 DEF Apart, AtNormal
  <2>2. /\ b \in Seq(T) /\ Once(b)
        /\ \A x : IsIn(x, b) <=> IsIn(x, a) \/ IsIn(x, P)
    BY <1>2, <1>7, <1>8, <2>1, InARow
  <2>. QED
    BY <1>5, <1>8, <2>2
<1>. HIDE DEF b
<1>10. /\ Once(d)
       /\ \A x : IsIn(x, d) <=> IsHeld(x)
  <2>1. \A x : IsIn(x, b) /\ IsIn(x, c) => x = NoObject
    BY <1>5, <1>6, <1>9 DEF Apart, AtNormal
  <2>2. /\ d \in Seq(T) /\ Once(d)
        /\ \A x : IsIn(x, d) <=> IsIn(x, b) \/ IsIn(x, c)
    BY <1>2, <1>7, <1>9, <2>1, InARow
  <2>. QED
    BY <1>5, <1>9, <2>2 DEF IsHeld, AtNormal
<1>11. Held = d
  BY <1>4 DEF a, b
<1>. HIDE DEF d
<1>. QED
  BY <1>10, <1>11 DEF OnePlace, Once, IsIn, Range

\* No object is ever in two places (the VERIFYs of Registered,
\* xrSheduler.cpp:161-225): none is updated twice in a frame, and none leaves
\* an entry behind when it is unregistered.
THEOREM OnlyOnePlace == Spec => []OnePlace
<1>. QED
  BY HeldProperties, Invariance, PTL

\* However objects unregister and register again while Update runs, serving
\* the requests gives the owners what they asked for last; only an object that
\* is no longer needed may have been dropped (xrSheduler.cpp:47-158, 228-264).
THEOREM OwnersAreAlwaysHeard == Spec => []OwnersAreHeard
<1>1. ASSUME IInv PROVE OwnersAreHeard
  <2>. SUFFICES ASSUME NEW o \in Objects
                PROVE  /\ Registered(o) => o \in registered
                       /\ o \in registered \ doomed => Registered(o)
    BY DEF OwnersAreHeard
  <2>1. Agrees(o) /\ (o \in Range(Held) <=> IsHeld(o)) /\ TypeOK
    BY <1>1, HeldProperties DEF IInv, Agreement
  <2>2. CASE Requests(o) = {}
    BY <2>1, <2>2 DEF Agrees, Registered
  <2>3. CASE Requests(o) # {}
    <3>1. Requests(o) \in SUBSET (DOMAIN Registration)
      BY DEF Requests
    <3>2. PICK m \in Requests(o) : \A j \in Requests(o) : j <= m
      BY <2>1, <2>3, <3>1, LastPosition DEF TypeOK
    <3>3. ASSUME NEW i \in Requests(o), \A j \in Requests(o) : j <= i
          PROVE  Registration[i].OP <=> o \in registered
      BY <2>1, <3>3 DEF Agrees, Final
    <3>. QED
      BY <2>3, <3>2, <3>3 DEF Registered
  <2>. QED
    BY <2>2, <2>3
<1>. QED
  BY <1>1, Invariance, PTL

-----------------------------------------------------------------------------
(***************************************************************************)
(* What the realtime loop has passed over.                                 *)
(***************************************************************************)

\* The entries that the loop will not look at any more.
Passed == IF running = NoObject THEN it ELSE it + 1

MissedAt(i) == i <= Passed /\ shedule_Needed(ItemsRT[i]) /\ ItemsRT[i] \notin updated

Missed == {ItemsRT[i] : i \in {j \in DOMAIN ItemsRT : MissedAt(j)}}

\* Each entry that has left the list moved at most one behind the loop.
SkipInv ==
    stage = "realtime" => IsFiniteSet(Missed) /\ Cardinality(Missed) <= erased

LEMMA MissedGrows ==
    ASSUME SkipInv, stage = "realtime", NEW o, NEW d \in Nat, erased \in Nat,
           erased' = erased + d,
           Missed' \subseteq Missed \/ (d = 1 /\ Missed' \subseteq Missed \cup {o})
    PROVE  SkipInv'
<1>1. /\ IsFiniteSet(Missed) /\ Cardinality(Missed) <= erased
      /\ Cardinality(Missed) \in Nat
  BY FS_CardinalityType DEF SkipInv
<1>2. ASSUME NEW S, IsFiniteSet(S), Cardinality(S) \in Nat, Cardinality(S) <= erased',
             Missed' \subseteq S
      PROVE  SkipInv'
  <2>1. /\ IsFiniteSet(Missed') /\ Cardinality(Missed') <= Cardinality(S)
        /\ Cardinality(Missed') \in Nat
    BY <1>2, FS_Subset, FS_CardinalityType
  <2>2. Cardinality(Missed') <= erased'
    BY <1>2, <2>1
  <2>. QED
    BY <2>1, <2>2 DEF SkipInv
<1>3. CASE Missed' \subseteq Missed
  <2>1. Cardinality(Missed) <= erased'
    BY <1>1
  <2>. QED
    BY <1>1, <1>2, <1>3, <2>1
<1>4. CASE d = 1 /\ Missed' \subseteq Missed \cup {o}
  <2>1. /\ IsFiniteSet(Missed \cup {o})
        /\ Cardinality(Missed \cup {o}) = Cardinality(Missed)
             \/ Cardinality(Missed \cup {o}) = Cardinality(Missed) + 1
    BY <1>1, FS_AddElement
  <2>2. Cardinality(Missed \cup {o}) \in Nat /\ Cardinality(Missed \cup {o}) <= erased'
    BY <1>1, <1>4, <2>1
  <2>. QED
    BY <1>2, <1>4, <2>1, <2>2
<1>. QED
  BY <1>3, <1>4

\* An object leaves within an update.
LEMMA WithdrawnSkipInv ==
    ASSUME IInv, SkipInv, stage = "realtime", NEW o \in Objects, NEW rt \in BOOLEAN,
           Withdraw(o, rt), UNCHANGED loopVars,
           doomed' = doomed \/ (doomed' = doomed \ {o} /\ o \in registered /\ rt = b_RT[o])
    PROVE  SkipInv'
<1>1. /\ TypeOK /\ Places /\ Agrees(o) /\ m_processing_now
      /\ UNCHANGED <<stage, it, running, updated>> /\ Passed' = Passed
      /\ it \in Nat /\ Passed \in Nat /\ erased \in Nat
  BY DEF IInv, Agreement, TypeOK, m_processing_now, loopVars, Passed
<1>2. doomed' # doomed => (AtRT(o) => rt)
  BY <1>1 DEF Agrees, HeldAs, IsHeld
<1>3. CASE rt /\ RTEntries(o) # {}
  <2>1. ItemsRT' = RemoveAt(ItemsRT, Least(RTEntries(o))) /\ erased' = erased + 1
    BY <1>1, <1>3 DEF Withdraw, Findable, Listed, internal_Unregister
  <2>2. /\ ~AtRT(o)'
        /\ \A i \in DOMAIN ItemsRT' : \E j \in DOMAIN ItemsRT :
              i <= j /\ j <= i + 1 /\ ItemsRT'[i] = ItemsRT[j]
    BY <1>1, <1>3, <2>1, ErasedRT
  <2>3. DOMAIN ItemsRT \subseteq Nat /\ DOMAIN ItemsRT' \subseteq Nat
    BY <1>1, <1>3, <2>1, ErasedRT, Positions, LenProperties
  <2>4. ASSUME NEW i \in DOMAIN ItemsRT', MissedAt(i)'
        PROVE  ItemsRT'[i] \in Missed \cup {ItemsRT[Passed + 1]}
    <3>1. PICK j \in DOMAIN ItemsRT : i <= j /\ j <= i + 1 /\ ItemsRT'[i] = ItemsRT[j]
      BY <2>2
    <3>2. i <= Passed /\ ItemsRT[j] # o /\ ItemsRT[j] \notin doomed' /\ ItemsRT[j] \notin updated
      BY <1>1, <2>2, <2>4, <3>1 DEF MissedAt, shedule_Needed, AtRT
    <3>3. ItemsRT[j] \notin doomed
      BY <3>2
    <3>4. j <= Passed \/ j = Passed + 1
      BY <1>1, <2>3, <3>1, <3>2
    <3>. QED
      BY <3>1, <3>2, <3>3, <3>4 DEF Missed, MissedAt, shedule_Needed
  <2>5. Missed' \subseteq Missed \cup {ItemsRT[Passed + 1]}
    BY <2>4 DEF Missed
  <2>. QED
    BY <1>1, <2>1, <2>5, MissedGrows
<1>4. CASE ~(rt /\ RTEntries(o) # {})
  <2>1. ItemsRT' = ItemsRT /\ erased' = erased
    BY <1>4 DEF Withdraw, Findable, Listed, internal_Unregister, heldVars
  <2>2. AtRT(o) <=> RTEntries(o) # {}
    BY DEF AtRT, RTEntries
  <2>3. \A i \in DOMAIN ItemsRT : ItemsRT[i] \notin doomed' => ItemsRT[i] \notin doomed
    BY <1>2, <1>4, <2>2 DEF AtRT
  <2>4. Missed' \subseteq Missed
    BY <1>1, <2>1, <2>3 DEF Missed, MissedAt, shedule_Needed
  <2>. QED
    BY <1>1, <2>1, <2>4, MissedGrows
<1>. QED
  BY <1>3, <1>4

LEMMA SkipInvInit == Init => SkipInv
BY DEF Init, SkipInv

LEMMA SkipInvStep == IInv /\ SkipInv /\ [Next]_vars => SkipInv'
<1>. SUFFICES ASSUME IInv, SkipInv, [Next]_vars PROVE SkipInv'
  OBVIOUS
<1>1. TypeOK /\ Loops /\ it \in Nat /\ erased \in Nat /\ DOMAIN ItemsRT \subseteq Nat \ {0}
  BY Positions DEF IInv, TypeOK
<1>2. CASE stage' # "realtime"
  BY <1>2 DEF SkipInv
<1>3. ASSUME stage = "realtime", UNCHANGED <<ItemsRT, erased>>, doomed' = doomed,
             updated \subseteq updated',
             \A i \in DOMAIN ItemsRT : i <= Passed' =>
                i <= Passed \/ ItemsRT[i] \in updated' \/ ~shedule_Needed(ItemsRT[i])
      PROVE  SkipInv'
  <2>1. Missed' \subseteq Missed
    BY <1>3 DEF Missed, MissedAt, shedule_Needed
  <2>. QED
    BY <1>1, <1>3, <2>1, MissedGrows
<1>4. ASSUME NEW o \in Objects, NEW rt \in Priorities[o], Register(o, rt) PROVE SkipInv'
  <2>1. UNCHANGED <<ItemsRT, erased, doomed, stage, it, running, updated>> /\ Passed' = Passed
    BY <1>4 DEF Register, heldVars, loopVars, Passed
  <2>. QED
    BY <1>2, <1>3, <2>1
<1>5. ASSUME NEW o \in Objects, Unregister(o) PROVE SkipInv'
  <2>1. b_RT[o] \in BOOLEAN
    BY <1>1 DEF TypeOK
  <2>2. /\ Withdraw(o, b_RT[o]) /\ UNCHANGED loopVars /\ stage' = stage
        /\ doomed' = doomed \ {o} /\ o \in registered
    BY <1>5 DEF Unregister, loopVars
  <2>. QED
    BY <1>2, <2>1, <2>2, WithdrawnSkipInv
<1>6. ASSUME NEW o \in Objects, DestroyUnregistered(o) PROVE SkipInv'
  <2>1. PICK rt \in BOOLEAN : Withdraw(o, rt)
    BY <1>6 DEF DestroyUnregistered
  <2>2. UNCHANGED loopVars /\ stage' = stage /\ doomed' = doomed
    BY <1>6 DEF DestroyUnregistered, loopVars, objectVars
  <2>. QED
    BY <1>2, <2>1, <2>2, WithdrawnSkipInv
<1>7. CASE Tick \/ (\E o \in Objects : setDestroy(o)) \/ StartUpdate \/ ServeRequest
           \/ EndUpdate \/ EnterNormal \/ NormalDrop \/ NormalUpdate
           \/ NormalReturnWithdrawn \/ NormalReturn \/ NormalDone
  <2>1. stage' # "realtime"
    BY <1>7 DEF Tick, setDestroy, StartUpdate, ServeRequest, EndUpdate, EnterNormal, NormalDrop,
                NormalUpdate, NormalReturnWithdrawn, NormalReturn, NormalDone, PushBack, loopVars
  <2>. QED
    BY <1>2, <2>1
<1>8. CASE EnterRealtime
  <2>1. /\ ItemsRT' = ItemsRT /\ running' = NoObject /\ it' = 0 /\ erased' = erased
    BY <1>1, <1>8 DEF EnterRealtime, Loops, m_processing_now, listVars, heldVars
  <2>2. Missed' = {}
    BY <1>1, <2>1 DEF Missed, MissedAt, Passed
  <2>3. IsFiniteSet(Missed') /\ Cardinality(Missed') = 0
    BY <2>2, FS_EmptySet
  <2>. QED
    BY <1>1, <2>1, <2>3 DEF SkipInv
<1>9. CASE RealtimeSkip
  <2>1. /\ UNCHANGED <<ItemsRT, erased, doomed, running, updated>> /\ stage = "realtime"
        /\ running = NoObject /\ it' = it + 1 /\ ~shedule_Needed(ItemsRT[it + 1])
    BY <1>9 DEF RealtimeSkip, AtRealtime, objectVars, listVars, heldVars
  <2>2. \A i \in DOMAIN ItemsRT : i <= it + 1 => i <= it \/ i = it + 1
    BY <1>1
  <2>. QED
    BY <1>3, <2>1, <2>2 DEF Passed
<1>10. CASE RealtimeUpdate
  <2>1. /\ UNCHANGED <<ItemsRT, erased, doomed, it>> /\ stage = "realtime"
        /\ running = NoObject /\ updated' = updated \cup {ItemsRT[it + 1]}
    BY <1>10 DEF RealtimeUpdate, AtRealtime, Call, objectVars, listVars, heldVars
  <2>2. \A i \in DOMAIN ItemsRT : i <= it + 1 => i <= it \/ i = it + 1
    BY <1>1
  <2>3. Passed = it /\ Passed' \in {it, it + 1}
    BY <2>1 DEF Passed
  <2>4. \A i \in DOMAIN ItemsRT : i <= Passed' => i <= Passed \/ ItemsRT[i] \in updated'
    BY <2>1, <2>2, <2>3
  <2>. QED
    BY <1>3, <2>1, <2>4
<1>11. CASE RealtimeReturn
  <2>1. /\ UNCHANGED <<ItemsRT, erased, doomed, updated>> /\ stage = "realtime"
        /\ Passed' = Passed
    BY <1>11 DEF RealtimeReturn, Passed, objectVars, listVars, heldVars
  <2>. QED
    BY <1>3, <2>1
<1>12. CASE UNCHANGED vars
  <2>1. /\ UNCHANGED <<ItemsRT, erased, doomed, updated, stage>> /\ Passed' = Passed
    BY <1>12 DEF vars, Passed, objectVars, listVars, heldVars, loopVars
  <2>. QED
    BY <1>2, <1>3, <2>1
<1>. QED
  BY <1>4, <1>5, <1>6, <1>7, <1>8, <1>9, <1>10, <1>11, <1>12 DEF Next, Game, Update

\* However many realtime objects unregister or delete themselves and each other
\* within their updates, each costs at most one other its update of this frame
\* (xrSheduler.cpp:433-455).
THEOREM ErasingSkipsOneAlways == Spec => []ErasingSkipsOne
<1>1. Spec => []SkipInv
  BY SkipInvInit, SkipInvStep, Invariance, PTL DEF Spec
<1>2. IInv /\ SkipInv => ErasingSkipsOne
  <2>. DEFINE I == {i \in DOMAIN ItemsRT :
                       shedule_Needed(ItemsRT[i]) /\ ItemsRT[i] \notin updated}
              f == [i \in I |-> ItemsRT[i]]
  <2>. SUFFICES ASSUME IInv, SkipInv, stage = "realtime", running = NoObject,
                       it >= Len(ItemsRT)
                PROVE  Cardinality(I) <= erased
    BY DEF ErasingSkipsOne
  <2>1. /\ TypeOK /\ it \in Nat /\ erased \in Nat
        /\ \A i \in DOMAIN ItemsRT : i <= it
        /\ \A i, j \in DOMAIN ItemsRT : ItemsRT[i] = ItemsRT[j] => i = j
    BY Positions DEF IInv, TypeOK, Places
  <2>2. /\ IsFiniteSet(Missed) /\ Cardinality(Missed) <= erased
        /\ Cardinality(Missed) \in Nat
    BY FS_CardinalityType DEF SkipInv
  <2>3. f \in [I -> Missed]
    BY <2>1 DEF Missed, MissedAt, Passed
  <2>4. f \in Injection(I, Missed)
    BY <2>1, <2>3 DEF Injection, IsInjective
  <2>. HIDE DEF I, f
  <2>5. IsFiniteSet(I) /\ Cardinality(I) <= Cardinality(Missed)
    BY <2>2, <2>4, FS_Injection
  <2>6. Cardinality(I) \in Nat
    BY <2>5, FS_CardinalityType
  <2>. QED
    BY <2>1, <2>2, <2>5, <2>6
<1>. QED
  BY <1>1, <1>2, Invariance, PTL

-----------------------------------------------------------------------------
(***************************************************************************)
(* The loops of Update end.                                                *)
(***************************************************************************)

\* How many steps the present loop of Update may still take.
StepsLeft ==
    IF stage = "realtime"
    THEN IF running = NoObject
         THEN IF it < Len(ItemsRT) THEN 2 * (Len(ItemsRT) - it) ELSE 0
         ELSE IF it < Len(ItemsRT) THEN 2 * (Len(ItemsRT) - it) - 1 ELSE 1
    ELSE IF stage = "normal"
    THEN 2 * Len(Items) + (IF running = NoObject THEN 0 ELSE 1)
    ELSE Len(Registration)

\* A step keeps StepsLeft a number and goes on with the loop, or to the next one.
Advances ==
    /\ StepsLeft \in Nat /\ StepsLeft' \in Nat
    /\ stage' = stage => StepsLeft' <= StepsLeft /\ (Update => StepsLeft' < StepsLeft)
    /\ stage' # stage =>
         <<stage, stage'>> \in {<<"before", "realtime">>, <<"realtime", "normal">>,
                                <<"normal", "after">>, <<"after", "idle">>}

LEMMA StepsAreNumbers == (TypeOK => StepsLeft \in Nat) /\ (TypeOK' => StepsLeft' \in Nat)
<1>1. \A n, i \in Nat : i < n => 2 * (n - i) \in Nat /\ 2 * (n - i) - 1 \in Nat
  OBVIOUS
<1>2. ASSUME TypeOK PROVE StepsLeft \in Nat
  <2>1. it \in Nat /\ Len(ItemsRT) \in Nat /\ Len(Items) \in Nat /\ Len(Registration) \in Nat
    BY <1>2, Positions DEF TypeOK
  <2>. QED  BY <1>1, <2>1 DEF StepsLeft
<1>3. ASSUME TypeOK' PROVE StepsLeft' \in Nat
  <2>1. it' \in Nat /\ Len(ItemsRT') \in Nat /\ Len(Items') \in Nat /\ Len(Registration') \in Nat
    BY <1>3, LenProperties DEF TypeOK
  <2>2. CASE stage' = "realtime"
    BY <1>1, <2>1, <2>2 DEF StepsLeft
  <2>3. CASE stage' # "realtime"
    BY <2>1, <2>3 DEF StepsLeft
  <2>. QED  BY <2>2, <2>3
<1>. QED
  BY <1>2, <1>3

\* RemoveAt takes one entry.
LEMMA OneEntryLess ==
    ASSUME NEW T, NEW s \in Seq(T), NEW k \in DOMAIN s
    PROVE  Len(RemoveAt(s, k)) = Len(s) - 1 /\ Len(s) \in Nat
<1>. DEFINE t == RemoveAt(s, k)
            n == Len(s)
<1>1. n \in Nat /\ k \in 1..n
  BY LenProperties
<1>2. t \in Seq(T) /\ DOMAIN t = 1..(n - 1)
  BY RemoveAtSeq
<1>. HIDE DEF t, n
<1>3. Len(t) \in Nat /\ DOMAIN t = 1..Len(t)
  BY <1>2, LenProperties
<1>4. Len(t) = n - 1
  BY <1>1, <1>2, <1>3
<1>. QED
  BY <1>1, <1>4 DEF t, n

LEMMA HeadGone ==
    ASSUME NEW T, NEW s \in Seq(T), s # <<>>
    PROVE  Tail(s) \in Seq(T) /\ Len(Tail(s)) = Len(s) - 1 /\ Len(s) \in Nat
BY HeadTailProperties, LenProperties

\* What leaves the lists makes none longer.
LEMMA WithdrawLengths ==
    ASSUME TypeOK, TypeOK', NEW o, NEW rt, Withdraw(o, rt)
    PROVE  /\ Len(ItemsRT) \in Nat /\ Len(ItemsRT') \in Nat /\ Len(ItemsRT') <= Len(ItemsRT)
           /\ Len(Items) \in Nat /\ Len(Items') = Len(Items)
<1>1. /\ Len(ItemsRT) \in Nat /\ DOMAIN ItemsRT = 1..Len(ItemsRT) /\ ItemsRT \in Seq(Objects)
      /\ Len(Items) \in Nat /\ DOMAIN Items = 1..Len(Items)
      /\ Items \in Seq([Object : Objects \cup {NoObject}, due : Int])
  BY Positions DEF TypeOK
<1>2. CASE UNCHANGED <<ItemsRT, Items>>
  BY <1>1, <1>2
<1>3. CASE RTEntries(o) # {} /\ ItemsRT' = RemoveAt(ItemsRT, Least(RTEntries(o))) /\ UNCHANGED Items
  <2>1. RTEntries(o) \in SUBSET (DOMAIN ItemsRT)
    BY DEF RTEntries
  <2>2. Least(RTEntries(o)) \in DOMAIN ItemsRT
    BY <1>1, <1>3, <2>1, LeastElement
  <2>3. Len(ItemsRT') = Len(ItemsRT) - 1 /\ Len(ItemsRT) >= 1
    <3>1. Len(RemoveAt(ItemsRT, Least(RTEntries(o)))) = Len(ItemsRT) - 1
      <4>1. ItemsRT \in Seq(Objects)
        BY <1>1
      <4>. QED  BY <2>2, <4>1, OneEntryLess, Zenon
    <3>2. Len(ItemsRT) >= 1
      BY <1>1, <2>2
    <3>. QED  BY <1>3, <3>1, <3>2
  <2>. QED
    BY <1>1, <1>3, <2>3
<1>4. CASE Items' = [Items EXCEPT ![Least(Entries(o))].Object = NoObject] /\ UNCHANGED ItemsRT
  <2>1. DOMAIN Items' = DOMAIN Items
    BY <1>4
  <2>2. Items' \in Seq([Object : Objects \cup {NoObject}, due : Int])
    BY DEF TypeOK
  <2>3. Len(Items') \in Nat /\ DOMAIN Items' = 1..Len(Items')
    BY <2>2, LenProperties
  <2>. QED
    BY <1>1, <1>4, <2>1, <2>3
<1>. QED
  BY <1>2, <1>3, <1>4 DEF Withdraw, Findable, Listed, internal_Unregister, heldVars

\* Where the game runs within Update, it cannot lengthen the loop it runs in.
LEMMA GameAdvances ==
    ASSUME IInv, Game, stage # "idle"
    PROVE  stage' = stage /\ StepsLeft' <= StepsLeft
<1>1. TypeOK'
  BY NextInvariant DEF IInv, Next
<1>2. TypeOK /\ it \in Nat /\ Len(ItemsRT) \in Nat /\ Len(Items) \in Nat
  BY Positions DEF IInv, TypeOK
<1>3. ASSUME GameRuns, UNCHANGED loopVars, Len(ItemsRT') \in Nat, Len(ItemsRT') <= Len(ItemsRT), Len(Items') = Len(Items)
      PROVE  stage' = stage /\ StepsLeft' <= StepsLeft
  <2>1. stage \in {"realtime", "normal"} /\ UNCHANGED <<stage, it, running>>
    BY <1>3 DEF IInv, Loops, GameRuns, m_processing_now, loopVars
  <2>2. CASE stage = "realtime"
    BY <1>2, <1>3, <2>1, <2>2 DEF StepsLeft
  <2>3. CASE stage = "normal"
    BY <1>2, <1>3, <2>1, <2>3 DEF StepsLeft
  <2>. QED  BY <2>1, <2>2, <2>3
<1>4. ASSUME NEW o \in Objects, NEW rt \in Priorities[o], Register(o, rt)
      PROVE  stage' = stage /\ StepsLeft' <= StepsLeft
  <2>1. GameRuns /\ UNCHANGED loopVars /\ UNCHANGED <<ItemsRT, Items>>
    BY <1>4 DEF Register, heldVars
  <2>. QED  BY <1>2, <1>3, <2>1
<1>5. ASSUME NEW o \in Objects, Unregister(o) PROVE stage' = stage /\ StepsLeft' <= StepsLeft
  <2>1. GameRuns /\ UNCHANGED loopVars /\ Withdraw(o, b_RT[o])
    BY <1>5 DEF Unregister
  <2>. QED  BY <1>1, <1>2, <1>3, <2>1, WithdrawLengths
<1>6. ASSUME NEW o \in Objects, DestroyUnregistered(o) PROVE stage' = stage /\ StepsLeft' <= StepsLeft
  <2>1. PICK rt \in BOOLEAN : GameRuns /\ UNCHANGED loopVars /\ Withdraw(o, rt)
    BY <1>6 DEF DestroyUnregistered
  <2>. QED  BY <1>1, <1>2, <1>3, <2>1, WithdrawLengths
<1>7. ~Tick /\ \A o \in Objects : ~setDestroy(o)
  BY DEF Tick, setDestroy
<1>. QED
  BY <1>4, <1>5, <1>6, <1>7 DEF Game

\* A step of Update goes on with its loop, or to the next one.
LEMMA UpdateAdvances ==
    ASSUME IInv, Update, stage # "idle"
    PROVE  /\ stage' = stage => StepsLeft' < StepsLeft
           /\ stage' # stage =>
                <<stage, stage'>> \in {<<"before", "realtime">>, <<"realtime", "normal">>,
                                       <<"normal", "after">>, <<"after", "idle">>}
<1>0. /\ TypeOK /\ it \in Nat /\ Len(ItemsRT) \in Nat /\ Len(Items) \in Nat /\ Len(Registration) \in Nat
      /\ DOMAIN ItemsRT = 1..Len(ItemsRT) /\ DOMAIN Items = 1..Len(Items)
      /\ \A i \in DOMAIN ItemsRT : ItemsRT[i] \in Objects
      /\ Items \in Seq([Object : Objects \cup {NoObject}, due : Int])
      /\ NoObject \notin Objects
  BY Positions, NoObjectAssumption DEF IInv, TypeOK
<1>1. CASE ServeRequest
  <2>. DEFINE rest == Tail(Registration)
              Reqs == [OP : BOOLEAN, RT : BOOLEAN, Object : Objects]
              P == {i \in DOMAIN rest : ~rest[i].OP /\ rest[i].Object = Head(Registration).Object}
  <2>1. Registration \in Seq(Reqs) /\ Registration # <<>> /\ stage \in {"before", "after"} /\ stage' = stage
    BY <1>1, <1>0 DEF ServeRequest, TypeOK, loopVars
  <2>2. rest \in Seq(Reqs) /\ Len(rest) = Len(Registration) - 1
    BY <2>1, HeadGone
  <2>3. Registration' = rest \/ (P # {} /\ Registration' = RemoveAt(rest, Least(P)))
    BY <1>1, Zenon DEF ServeRequest
  <2>4. P # {} => Least(P) \in DOMAIN rest
    <3>1. P \in SUBSET (DOMAIN rest)
      OBVIOUS
    <3>2. DOMAIN rest = 1..Len(rest) /\ Len(rest) \in Nat
      BY <2>2, LenProperties
    <3>. HIDE DEF P, rest
    <3>. QED  BY <2>2, <3>1, <3>2, LeastElement
  <2>. HIDE DEF P, rest, Reqs
  <2>5. Len(Registration') < Len(Registration)
    <3>1. CASE Registration' = rest
      BY <1>0, <2>2, <3>1
    <3>2. CASE P # {} /\ Registration' = RemoveAt(rest, Least(P))
      <4>1. Len(RemoveAt(rest, Least(P))) = Len(rest) - 1
        <5>1. rest \in Seq(Reqs) /\ Least(P) \in DOMAIN rest
          BY <2>2, <2>4, <3>2
        <5>. QED  BY <5>1, OneEntryLess, Zenon
      <4>. QED  BY <1>0, <2>2, <3>2, <4>1
    <3>. QED  BY <2>3, <3>1, <3>2
  <2>. QED
    BY <2>1, <2>5 DEF StepsLeft
<1>2. CASE StartUpdate \/ EnterRealtime \/ EndUpdate \/ EnterNormal \/ NormalDone
  BY <1>2 DEF StartUpdate, EnterRealtime, EndUpdate, EnterNormal, NormalDone, PushBack
<1>3. CASE RealtimeSkip
  <2>1. stage = "realtime" /\ UNCHANGED <<stage, running, ItemsRT>> /\ it' = it + 1
        /\ running = NoObject /\ it < Len(ItemsRT)
    BY <1>3 DEF RealtimeSkip, AtRealtime, listVars, heldVars
  <2>2. StepsLeft = 2 * (Len(ItemsRT) - it)
    BY <1>0, <2>1 DEF StepsLeft
  <2>3. StepsLeft' = (IF it + 1 < Len(ItemsRT) THEN 2 * (Len(ItemsRT) - (it + 1)) ELSE 0)
    BY <1>0, <2>1 DEF StepsLeft
  <2>. QED
    BY <1>0, <2>1, <2>2, <2>3
<1>4. CASE RealtimeUpdate
  <2>1. stage = "realtime" /\ UNCHANGED <<stage, it, ItemsRT>> /\ running = NoObject
        /\ running' = ItemsRT[it + 1] /\ it < Len(ItemsRT)
    BY <1>4 DEF RealtimeUpdate, AtRealtime, Call, listVars, heldVars
  <2>2. it + 1 \in DOMAIN ItemsRT
    BY <1>0, <2>1
  <2>3. running' # NoObject
    BY <1>0, <2>1, <2>2
  <2>. QED
    BY <1>0, <2>1, <2>3 DEF StepsLeft
<1>5. CASE RealtimeReturn
  <2>1. stage = "realtime" /\ UNCHANGED <<stage, ItemsRT>> /\ it' = it + 1 /\ running # NoObject /\ running' = NoObject
    BY <1>5 DEF RealtimeReturn, listVars, heldVars
  <2>2. StepsLeft = (IF it < Len(ItemsRT) THEN 2 * (Len(ItemsRT) - it) - 1 ELSE 1)
    BY <1>0, <2>1 DEF StepsLeft
  <2>3. StepsLeft' = (IF it + 1 < Len(ItemsRT) THEN 2 * (Len(ItemsRT) - (it + 1)) ELSE 0)
    BY <1>0, <2>1 DEF StepsLeft
  <2>. QED
    BY <1>0, <2>1, <2>2, <2>3
<1>6. ASSUME NEW i \in Tops, Items' = RemoveAt(Items, i), stage = "normal", stage' = stage, running = NoObject
      PROVE  StepsLeft' < StepsLeft
  <2>1. i \in DOMAIN Items
    BY DEF Tops
  <2>2. Len(Items') = Len(Items) - 1
    <3>1. Items \in Seq([Object : Objects \cup {NoObject}, due : Int])
      BY <1>0
    <3>2. Len(RemoveAt(Items, i)) = Len(Items) - 1
      BY <2>1, <3>1, OneEntryLess, Zenon
    <3>. QED  BY <1>6, <3>2
  <2>. QED
    BY <1>0, <1>6, <2>2 DEF StepsLeft
<1>7. CASE NormalDrop \/ NormalUpdate
  BY <1>6, <1>7 DEF NormalDrop, NormalUpdate
<1>8. CASE NormalReturnWithdrawn \/ NormalReturn
  <2>1. stage = "normal" /\ running # NoObject /\ running' = NoObject
    BY <1>8 DEF NormalReturnWithdrawn, NormalReturn
  <2>2. stage' = "after" \/ (stage' = stage /\ Items' = Items)
    BY <1>8 DEF NormalReturnWithdrawn, NormalReturn, PushBack, listVars, heldVars
  <2>. QED
    BY <1>0, <2>1, <2>2 DEF StepsLeft
<1>. QED
  BY <1>1, <1>2, <1>3, <1>4, <1>5, <1>7, <1>8 DEF Update

\* Update returns however its objects behave: each step of it goes on with its
\* loop or to the next one, and what the updates do meanwhile, which may register
\* and destroy any object, makes no loop longer (xrSheduler.cpp:417-471).
UpdateGoesOn == [][stage # "idle" => Advances]_vars

\* Each loop of Update comes to its end: while one goes on, StepsLeft is a number
\* that each of its steps makes smaller and that nothing else makes larger.
THEOREM UpdateAlwaysGoesOn == Spec => UpdateGoesOn
<1>1. ASSUME IInv, Next, stage # "idle" PROVE Advances
  <2>0. StepsLeft \in Nat /\ StepsLeft' \in Nat
    <3>1. TypeOK /\ TypeOK'
      BY <1>1, NextInvariant DEF IInv
    <3>. QED  BY <3>1, StepsAreNumbers
  <2>1. CASE Update
    <3>1. /\ stage' = stage => StepsLeft' < StepsLeft
          /\ stage' # stage =>
               <<stage, stage'>> \in {<<"before", "realtime">>, <<"realtime", "normal">>,
                                      <<"normal", "after">>, <<"after", "idle">>}
      BY <1>1, <2>1, UpdateAdvances
    <3>. QED  BY <2>0, <3>1 DEF Advances
  <2>2. CASE Game /\ ~Update
    <3>1. stage' = stage /\ StepsLeft' <= StepsLeft
      BY <1>1, <2>2, GameAdvances
    <3>. QED  BY <2>0, <2>2, <3>1 DEF Advances
  <2>. QED
    BY <1>1, <2>1, <2>2 DEF Next
<1>2. IInv /\ [Next]_vars => [stage # "idle" => Advances]_vars
  BY <1>1
<1>. QED
  BY <1>2, Invariance, PTL DEF Spec, UpdateGoesOn

=============================================================================

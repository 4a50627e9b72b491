------------------------ MODULE ServerEntitiesProofs ------------------------
(* Proofs about ServerEntities: IndInv is an inductive invariant, hence the *)
(* variables keep their types, the forest that xrServer::verify_entities    *)
(* asserts is kept by every handler, and a held bag stays in front.  With   *)
(* ClientsInv, what the game has made for a player is the player's for as   *)
(* long as he is there, and never longer.                                   *)
EXTENDS ServerEntities, SubsequencesProofs

(***************************************************************************)
(* What each operation of the registry does to the forest of entities, for *)
(* every registry.                                                         *)
(***************************************************************************)

\* A well-formed registry.
Registry(e) ==
    /\ e \in [Ids -> Entity]
    /\ FreeIsEmpty(e)
    /\ ParentsList(e)
    /\ ChildrenPointBack(e)
    /\ ListedOnce(e)
    /\ KindsFit(e)

\* The vector of children without repetition.
Distinct(s) == \A i, j \in DOMAIN s : s[i] = s[j] => i = j

\* A sequence over Ids, its domain and its members.
LEMMA SeqOfIds ==
    ASSUME NEW s \in Seq(Ids)
    PROVE  /\ Len(s) \in Nat
           /\ DOMAIN s = 1..Len(s)
           /\ \A i \in 1..Len(s) : s[i] \in Ids
           /\ ToSet(s) \subseteq Ids
           /\ s = <<>> <=> Len(s) = 0
           /\ s = <<>> <=> ToSet(s) = {}
<1>1. Len(s) \in Nat /\ DOMAIN s = 1..Len(s) /\ \A i \in 1..Len(s) : s[i] \in Ids
  BY ElementOfSeq, LenProperties
<1>2. s = <<>> <=> Len(s) = 0
  BY EmptySeq, <1>1
<1>3. ToSet(s) \subseteq Ids
  BY <1>1 DEF ToSet
<1>4. s = <<>> <=> ToSet(s) = {}
  <2>1. CASE Len(s) = 0
    BY <1>1, <1>2, <2>1 DEF ToSet
  <2>2. CASE Len(s) # 0
    <3>1. s[1] \in ToSet(s)
      BY <1>1, <2>2 DEF ToSet
    <3>. QED
      BY <3>1, <1>2, <2>2
  <2>. QED
    BY <2>1, <2>2
<1>. QED
  BY <1>1, <1>2, <1>3, <1>4

\* What a registry says of one entity.
LEMMA RegistryFields ==
    ASSUME NEW e, Registry(e), NEW x \in Ids
    PROVE  /\ e[x] \in Entity
           /\ e[x].kind \in ItemKinds \cup BodyKinds \cup {"free"}
           /\ e[x].parent \in Ids \cup {NoId}
           /\ e[x].kids \in Seq(Ids)
           /\ e[x].owner \in Clients \cup {SvClient, NoClient}
           /\ e[x].alive \in BOOLEAN
BY DEF Registry, Entity

\* The links of a registry, in terms of sets: who is a child of whom.
LEMMA RegistryLinks ==
    ASSUME NEW e, Registry(e), NEW x \in Ids
    PROVE  /\ \A y \in ToSet(e[x].kids) : y \in Ids /\ e[y].parent = x
           /\ e[x].parent # NoId =>
                /\ e[x].parent \in Ids
                /\ e[e[x].parent].kind # "free"
                /\ x \in ToSet(e[e[x].parent].kids)
           /\ Distinct(e[x].kids)
           /\ e[x].kids # <<>> => e[x].kind \in {"actor", "bag"}
           /\ e[x].kind = "free" => e[x].parent = NoId /\ e[x].kids = <<>>
           /\ e[x].kind \in BodyKinds => e[x].parent = NoId
<1>1. e[x].kids \in Seq(Ids) /\ e[x].parent \in Ids \cup {NoId}
  BY RegistryFields
<1>2. \A y \in ToSet(e[x].kids) : y \in Ids /\ e[y].parent = x
  BY <1>1, SeqOfIds DEF Registry, ChildrenPointBack, ToSet
<1>3. e[x].parent # NoId => /\ e[x].parent \in Ids
                            /\ e[e[x].parent].kind # "free"
                            /\ x \in ToSet(e[e[x].parent].kids)
  BY <1>1 DEF Registry, ParentsList, Live
<1>4. Distinct(e[x].kids)
  BY DEF Registry, ListedOnce, Distinct
<1>5. e[x].kids # <<>> => e[x].kind \in {"actor", "bag"}
  <2>. SUFFICES ASSUME e[x].kids # <<>> PROVE e[x].kind \in {"actor", "bag"}
    OBVIOUS
  <2>1. PICK y \in ToSet(e[x].kids) : TRUE
    BY <1>1, SeqOfIds
  <2>2. y \in Ids /\ e[y].parent = x /\ x # NoId
    BY <1>2, <2>1, SentinelAssumption
  <2>. QED
    BY <2>2 DEF Registry, KindsFit
<1>6. e[x].kind = "free" => e[x].parent = NoId /\ e[x].kids = <<>>
  BY DEF Registry, FreeIsEmpty, NoEntity
<1>7. e[x].kind \in BodyKinds => e[x].parent = NoId
  BY DEF Registry, KindsFit, BodyKinds, ItemKinds, GearKinds
<1>. QED
  BY <1>2, <1>3, <1>4, <1>5, <1>6, <1>7

\* A registry from its links.
LEMMA RegistryIntro ==
    ASSUME NEW e, e \in [Ids -> Entity], FreeIsEmpty(e),
           \A x \in Ids : \A y \in ToSet(e[x].kids) : e[y].parent = x,
           \A x \in Ids : Distinct(e[x].kids),
           \A x \in Ids : e[x].parent # NoId =>
              /\ e[x].parent \in Ids
              /\ e[e[x].parent].kind # "free"
              /\ x \in ToSet(e[e[x].parent].kids),
           KindsFit(e)
    PROVE  Registry(e)
<1>1. ParentsList(e)
  BY DEF ParentsList, Live
<1>2. ChildrenPointBack(e)
  BY DEF ChildrenPointBack, ToSet
<1>3. ListedOnce(e)
  BY DEF ListedOnce, Distinct
<1>. QED
  BY <1>1, <1>2, <1>3 DEF Registry


\* KeptProperties for sequences of ids.
LEMMA KeptIds ==
    ASSUME NEW s \in Seq(Ids), NEW S
    PROVE  /\ Kept(s, S) \in Seq(Ids)
           /\ ToSet(Kept(s, S)) = ToSet(s) \cap S
           /\ Distinct(s) => Distinct(Kept(s, S))
           /\ (s # <<>> /\ s[1] \in S) => (Kept(s, S) # <<>> /\ Kept(s, S)[1] = s[1])
<1>1. Kept(s, S) \in Seq(Ids \cap S)
  BY KeptProperties
<1>2. Kept(s, S) \in Seq(Ids)
  BY <1>1, SeqMonotonic
<1>3. ToSet(Kept(s, S)) = ToSet(s) \cap S
  BY KeptProperties
<1>4. (\A i, j \in DOMAIN s : s[i] = s[j] => i = j)
        => \A i, j \in DOMAIN Kept(s, S) : Kept(s, S)[i] = Kept(s, S)[j] => i = j
  BY KeptProperties, ZenonT(30)
<1>5. (Len(s) >= 1 /\ s[1] \in S) => (Len(Kept(s, S)) >= 1 /\ Kept(s, S)[1] = s[1])
  BY KeptProperties
<1>6. (s # <<>> => Len(s) >= 1) /\ (Len(Kept(s, S)) >= 1 => Kept(s, S) # <<>>)
  BY <1>2, SeqOfIds
<1>. QED
  BY <1>2, <1>3, <1>4, <1>5, <1>6 DEF Distinct

\* The empty vector.
LEMMA EmptyVector ==
    /\ <<>> \in Seq(Ids)
    /\ ToSet(<<>>) = {}
    /\ Distinct(<<>>)
    /\ \A S : Kept(<<>>, S) = <<>>
<1>1. <<>> \in Seq(Ids) /\ ToSet(<<>>) = {} /\ Distinct(<<>>)
  BY EmptySeq DEF ToSet, Distinct
<1>2. ASSUME NEW S PROVE Kept(<<>>, S) = <<>>
  <2>1. Kept(<<>>, S) \in Seq(Ids) /\ ToSet(Kept(<<>>, S)) = {}
    BY <1>1, KeptIds
  <2>. QED
    BY <2>1, SeqOfIds
<1>. QED
  BY <1>1, <1>2

\* The slot of a free id has the type of an entity.
LEMMA NoEntityType == NoEntity \in Entity
BY EmptySeq DEF NoEntity, Entity

\* A new body disturbs nothing.
LEMMA CreatedRegistry ==
    ASSUME NEW e, Registry(e), NEW x \in Ids, e[x].kind = "free",
           NEW k \in BodyKinds, NEW c \in Clients
    PROVE  /\ Registry(Created(e, x, k, c))
           /\ BagFirst(e) => BagFirst(Created(e, x, k, c))
           /\ Created(e, x, k, c)[x].kind = k
           /\ Created(e, x, k, c)[x].kids = <<>>
           /\ \A y \in Ids \ {x} : Created(e, x, k, c)[y] = e[y]
<1>. DEFINE n == [kind |-> k, parent |-> NoId, kids |-> <<>>,
                  owner |-> c, alive |-> (k = "actor")]
            d == Created(e, x, k, c)
<1>1. n \in Entity
  BY EmptySeq DEF Entity
<1>2. e \in [Ids -> Entity]
  BY DEF Registry
<1>3. d = [e EXCEPT ![x] = n]
  BY DEF Created
<1>4. n.kind = k /\ n.parent = NoId /\ n.kids = <<>>
  OBVIOUS
<1>. HIDE DEF n, d
<1>5. d \in [Ids -> Entity] /\ d[x] = n /\ \A y \in Ids \ {x} : d[y] = e[y]
  BY <1>1, <1>2, <1>3
<1>6. k # "free" /\ k # "bag"
  BY DEF BodyKinds
<1>7. ToSet(<<>>) = {} /\ Distinct(<<>>)
  BY EmptySeq DEF ToSet, Distinct
<1>8. \A y \in Ids : e[y].parent # x
  BY RegistryLinks, SentinelAssumption
<1>9. FreeIsEmpty(d)
  BY <1>4, <1>5, <1>6 DEF FreeIsEmpty, Registry
<1>10. \A y \in Ids : \A z \in ToSet(d[y].kids) : d[z].parent = y
  <2>. SUFFICES ASSUME NEW y \in Ids, NEW z \in ToSet(d[y].kids) PROVE d[z].parent = y
    OBVIOUS
  <2>1. y # x
    BY <1>4, <1>5, <1>7
  <2>2. z \in Ids /\ e[z].parent = y
    BY <2>1, <1>5, RegistryLinks
  <2>3. z # x
    BY <2>2, RegistryLinks, SentinelAssumption
  <2>. QED
    BY <2>2, <2>3, <1>5
<1>11. \A y \in Ids : Distinct(d[y].kids)
  BY <1>4, <1>5, <1>7, RegistryLinks
<1>12. \A y \in Ids : d[y].parent # NoId =>
          /\ d[y].parent \in Ids
          /\ d[d[y].parent].kind # "free"
          /\ y \in ToSet(d[d[y].parent].kids)
  BY <1>4, <1>5, <1>8, RegistryLinks
<1>13. KindsFit(d)
  BY <1>4, <1>5, <1>8, <1>12 DEF KindsFit, Registry
<1>14. BagFirst(e) => BagFirst(d)
  BY <1>4, <1>5, <1>6, <1>8, <1>12 DEF BagFirst
<1>. QED
  BY <1>4, <1>5, <1>9, <1>10, <1>11, <1>12, <1>13, <1>14, RegistryIntro DEF d

\* A change of owner leaves the forest as it is.
LEMMA DisownedRegistry ==
    ASSUME NEW e, Registry(e), NEW x
    PROVE  /\ Registry(Disowned(e, x))
           /\ BagFirst(e) => BagFirst(Disowned(e, x))
           /\ \A y \in Ids : /\ Disowned(e, x)[y].kind = e[y].kind
                             /\ Disowned(e, x)[y].parent = e[y].parent
                             /\ Disowned(e, x)[y].kids = e[y].kids
<1>. DEFINE d == Disowned(e, x)
<1>1. CASE x \notin Live(e)
  BY <1>1 DEF Disowned
<1>2. CASE x \in Live(e)
  <2>1. e \in [Ids -> Entity] /\ x \in Ids /\ e[x].kind # "free"
    BY <1>2 DEF Registry, Live
  <2>2. d = [e EXCEPT ![x].owner = SvClient]
    BY <1>2 DEF Disowned
  <2>. HIDE DEF d
  <2>3. d \in [Ids -> Entity]
    BY <2>1, <2>2 DEF Entity
  <2>4. \A y \in Ids : d[y].kind = e[y].kind /\ d[y].parent = e[y].parent /\ d[y].kids = e[y].kids
    BY <2>1, <2>2 DEF Entity
  <2>5. FreeIsEmpty(d)
    <3>1. \A y \in Ids \ {x} : d[y] = e[y]
      BY <2>1, <2>2
    <3>. QED
      BY <2>1, <2>4, <3>1 DEF FreeIsEmpty, Registry
  <2>6. \A y \in Ids : \A z \in ToSet(d[y].kids) : d[z].parent = y
    BY <2>4, RegistryLinks
  <2>7. \A y \in Ids : Distinct(d[y].kids)
    BY <2>4, RegistryLinks
  <2>8. \A y \in Ids : d[y].parent # NoId =>
          /\ d[y].parent \in Ids
          /\ d[d[y].parent].kind # "free"
          /\ y \in ToSet(d[d[y].parent].kids)
    BY <2>4, RegistryLinks
  <2>9. KindsFit(d)
    BY <2>4, <2>8 DEF KindsFit, Registry
  <2>10. BagFirst(e) => BagFirst(d)
    BY <2>4, <2>8 DEF BagFirst
  <2>. QED
    BY <2>3, <2>4, <2>5, <2>6, <2>7, <2>8, <2>9, <2>10, RegistryIntro DEF d
<1>. QED
  BY <1>1, <1>2

\* Destroying entities together with what they hold keeps the forest.
LEMMA DestroyedRegistry ==
    ASSUME NEW e, Registry(e), NEW S \in SUBSET Ids,
           \A x \in S : ToSet(e[x].kids) \subseteq S
    PROVE  /\ Registry(Destroyed(e, S))
           /\ BagFirst(e) => BagFirst(Destroyed(e, S))
           /\ \A x \in S : Destroyed(e, S)[x] = NoEntity
           /\ \A x \in Ids \ S : /\ Destroyed(e, S)[x].kind = e[x].kind
                                 /\ Destroyed(e, S)[x].parent = e[x].parent
                                 /\ Destroyed(e, S)[x].kids = Kept(e[x].kids, Ids \ S)
<1>. DEFINE d == Destroyed(e, S)
<1>1. e \in [Ids -> Entity]
  BY DEF Registry
<1>2. d = [x \in Ids |-> IF x \in S THEN NoEntity
                         ELSE [e[x] EXCEPT !.kids = Kept(@, Ids \ S)]]
  BY DEF Destroyed
<1>. HIDE DEF d
<1>3. \A x \in Ids : Kept(e[x].kids, Ids \ S) \in Seq(Ids)
  BY RegistryFields, KeptIds
<1>4. d \in [Ids -> Entity]
  BY <1>1, <1>2, <1>3, NoEntityType DEF Entity
<1>5. \A x \in S : d[x] = NoEntity
  BY <1>2
<1>6. \A x \in Ids \ S : /\ d[x].kind = e[x].kind
                         /\ d[x].parent = e[x].parent
                         /\ d[x].kids = Kept(e[x].kids, Ids \ S)
  BY <1>1, <1>2 DEF Entity
<1>7. \A x \in Ids \ S : ToSet(d[x].kids) = ToSet(e[x].kids) \cap (Ids \ S)
  BY <1>6, RegistryFields, KeptIds
<1>8. \A x \in S : d[x].kind = "free" /\ d[x].parent = NoId /\ d[x].kids = <<>>
  BY <1>5 DEF NoEntity
<1>9. ToSet(<<>>) = {} /\ Distinct(<<>>)
  BY EmptyVector
<1>10. FreeIsEmpty(d)
  <2>. SUFFICES ASSUME NEW x \in Ids \ S, d[x].kind = "free" PROVE d[x] = NoEntity
    BY <1>5 DEF FreeIsEmpty
  <2>1. e[x] = NoEntity
    BY <1>6 DEF Registry, FreeIsEmpty
  <2>2. Kept(<<>>, Ids \ S) = <<>>
    BY EmptyVector
  <2>. QED
    BY <2>1, <2>2, <1>2 DEF NoEntity
<1>11. \A x \in Ids : \A y \in ToSet(d[x].kids) : d[y].parent = x
  <2>. SUFFICES ASSUME NEW x \in Ids, NEW y \in ToSet(d[x].kids) PROVE d[y].parent = x
    OBVIOUS
  <2>1. x \notin S
    BY <1>8, <1>9
  <2>. QED
    BY <2>1, <1>6, <1>7, RegistryLinks
<1>12. \A x \in Ids : Distinct(d[x].kids)
  <2>. SUFFICES ASSUME NEW x \in Ids \ S PROVE Distinct(d[x].kids)
    BY <1>8, <1>9
  <2>1. Distinct(e[x].kids) /\ e[x].kids \in Seq(Ids)
    BY RegistryLinks, RegistryFields
  <2>. QED
    BY <2>1, <1>6, KeptIds
<1>13. \A x \in Ids : d[x].parent # NoId =>
          /\ x \notin S
          /\ d[x].parent \in Ids \ S
          /\ d[d[x].parent].kind # "free"
          /\ x \in ToSet(d[d[x].parent].kids)
  <2>. SUFFICES ASSUME NEW x \in Ids, d[x].parent # NoId
                PROVE  /\ x \notin S
                       /\ d[x].parent \in Ids \ S
                       /\ d[d[x].parent].kind # "free"
                       /\ x \in ToSet(d[d[x].parent].kids)
    OBVIOUS
  <2>1. x \notin S
    BY <1>8
  <2>2. d[x].parent = e[x].parent
    BY <2>1, <1>6
  <2>3. e[x].parent \in Ids /\ e[e[x].parent].kind # "free" /\ x \in ToSet(e[e[x].parent].kids)
    BY <2>2, RegistryLinks
  <2>4. e[x].parent \notin S
    BY <2>1, <2>3
  <2>. QED
    BY <2>1, <2>2, <2>3, <2>4, <1>6, <1>7
<1>14. KindsFit(d)
  BY <1>6, <1>13 DEF KindsFit, Registry
<1>15. BagFirst(e) => BagFirst(d)
  <2>. SUFFICES ASSUME BagFirst(e), NEW x \in Ids, d[x].kind = "bag", d[x].parent # NoId
                PROVE  /\ d[x].kids = <<>>
                       /\ d[d[x].parent].kind = "actor"
                       /\ d[d[x].parent].kids[1] = x
    BY DEF BagFirst
  <2>. DEFINE p == e[x].parent
  <2>1. x \notin S /\ d[x].parent = p /\ p \in Ids \ S /\ d[x].kind = e[x].kind
    BY <1>6, <1>13
  <2>2. e[x].kids = <<>> /\ e[p].kind = "actor" /\ e[p].kids[1] = x
    BY <2>1 DEF BagFirst
  <2>3. ToSet(d[x].kids) = {} /\ d[x].kids \in Seq(Ids)
    BY <2>1, <2>2, <1>3, <1>6, <1>7, <1>9
  <2>4. x \in ToSet(e[p].kids) /\ e[p].kids \in Seq(Ids)
    BY <2>1, RegistryLinks, RegistryFields
  <2>5. e[p].kids # <<>>
    BY <2>4, SeqOfIds
  <2>6. Kept(e[p].kids, Ids \ S)[1] = x
    <3>1. e[p].kids[1] \in Ids \ S /\ e[p].kids \in Seq(Ids)
      BY <2>1, <2>2, <2>4
    <3>. HIDE DEF p
    <3>2. Kept(e[p].kids, Ids \ S)[1] = e[p].kids[1]
      BY <3>1, <2>5, KeptIds
    <3>. QED
      BY <3>2, <2>2
  <2>. QED
    BY <2>1, <2>2, <2>3, <2>6, <1>6, SeqOfIds
<1>. QED
  <2>1. \A x \in Ids : d[x].parent # NoId =>
          /\ d[x].parent \in Ids
          /\ d[d[x].parent].kind # "free"
          /\ x \in ToSet(d[d[x].parent].kids)
    BY <1>13
  <2>2. Registry(d)
    BY <1>4, <1>10, <1>11, <1>12, <1>14, <2>1, RegistryIntro
  <2>. QED
    BY <2>2, <1>5, <1>6, <1>15 DEF d


\* Concatenation of vectors of ids.
LEMMA ConcatIds ==
    ASSUME NEW s \in Seq(Ids), NEW t \in Seq(Ids)
    PROVE  /\ s \o t \in Seq(Ids)
           /\ ToSet(s \o t) = ToSet(s) \cup ToSet(t)
           /\ Distinct(s) /\ Distinct(t) /\ ToSet(s) \cap ToSet(t) = {} => Distinct(s \o t)
           /\ s # <<>> => (s \o t)[1] = s[1]
           /\ s = <<>> => s \o t = t
<1>. DEFINE u == s \o t
            m == Len(s)
            n == Len(t)
<1>1. /\ u \in Seq(Ids) /\ Len(u) = m + n
      /\ \A i \in 1..(m + n) : u[i] = IF i <= m THEN s[i] ELSE t[i - m]
  BY ConcatProperties
<1>2. m \in Nat /\ n \in Nat /\ DOMAIN s = 1..m /\ DOMAIN t = 1..n /\ DOMAIN u = 1..(m + n)
  BY <1>1, SeqOfIds
<1>. HIDE DEF u, m, n
<1>3. \A i \in 1..m : u[i] = s[i]
  BY <1>1, <1>2
<1>4. \A j \in 1..n : u[m + j] = t[j] /\ m + j \in 1..(m + n)
  <2>. SUFFICES ASSUME NEW j \in 1..n PROVE u[m + j] = t[j] /\ m + j \in 1..(m + n)
    OBVIOUS
  <2>1. m + j \in 1..(m + n) /\ ~(m + j <= m) /\ (m + j) - m = j
    BY <1>2
  <2>. QED
    BY <2>1, <1>1
<1>5. \A i \in 1..(m + n) : i \in 1..m \/ (i - m \in 1..n /\ i = m + (i - m))
  BY <1>2
<1>6. ToSet(u) = ToSet(s) \cup ToSet(t)
  <2>1. ASSUME NEW i \in 1..(m + n) PROVE u[i] \in ToSet(s) \cup ToSet(t)
    BY <1>2, <1>3, <1>4, <1>5 DEF ToSet
  <2>2. ASSUME NEW i \in 1..m PROVE s[i] \in ToSet(u)
    <3>1. i \in 1..(m + n)
      BY <1>2
    <3>. QED
      BY <3>1, <1>2, <1>3 DEF ToSet
  <2>3. ASSUME NEW j \in 1..n PROVE t[j] \in ToSet(u)
    BY <1>2, <1>4 DEF ToSet
  <2>. QED
    BY <2>1, <2>2, <2>3, <1>2 DEF ToSet
<1>7. ASSUME Distinct(s), Distinct(t), ToSet(s) \cap ToSet(t) = {} PROVE Distinct(u)
  <2>. SUFFICES ASSUME NEW i \in 1..(m + n), NEW j \in 1..(m + n), u[i] = u[j] PROVE i = j
    BY <1>2 DEF Distinct
  <2>1. CASE i \in 1..m /\ j \in 1..m
    BY <2>1, <1>2, <1>3, <1>7 DEF Distinct
  <2>2. CASE i \in 1..m /\ j - m \in 1..n
    <3>1. s[i] \in ToSet(s) /\ t[j - m] \in ToSet(t) /\ j = m + (j - m)
      BY <2>2, <1>2 DEF ToSet
    <3>2. s[i] = t[j - m]
      BY <2>2, <3>1, <1>3, <1>4
    <3>. QED
      BY <3>1, <3>2, <1>7
  <2>3. CASE i - m \in 1..n /\ j \in 1..m
    <3>1. s[j] \in ToSet(s) /\ t[i - m] \in ToSet(t) /\ i = m + (i - m)
      BY <2>3, <1>2 DEF ToSet
    <3>2. s[j] = t[i - m]
      BY <2>3, <3>1, <1>3, <1>4
    <3>. QED
      BY <3>1, <3>2, <1>7
  <2>4. CASE i - m \in 1..n /\ j - m \in 1..n
    <3>1. i = m + (i - m) /\ j = m + (j - m)
      BY <1>2
    <3>2. t[i - m] = t[j - m]
      BY <2>4, <3>1, <1>4
    <3>3. i - m = j - m
      BY <2>4, <3>2, <1>2, <1>7 DEF Distinct
    <3>. QED
      BY <3>1, <3>3
  <2>. QED
    BY <2>1, <2>2, <2>3, <2>4, <1>5
<1>8. s # <<>> => u[1] = s[1]
  <2>1. s # <<>> => 1 \in 1..m
    BY SeqOfIds DEF m
  <2>. QED
    BY <2>1, <1>3
<1>9. s = <<>> => u = t
  BY ConcatEmptySeq DEF u
<1>. QED
  BY <1>1, <1>6, <1>7, <1>8, <1>9 DEF u

\* Append on vectors of ids.
LEMMA AppendIds ==
    ASSUME NEW s \in Seq(Ids), NEW x \in Ids
    PROVE  /\ Append(s, x) \in Seq(Ids)
           /\ ToSet(Append(s, x)) = ToSet(s) \cup {x}
           /\ Distinct(s) /\ x \notin ToSet(s) => Distinct(Append(s, x))
           /\ s # <<>> => Append(s, x)[1] = s[1]
<1>. DEFINE t == <<x>>
<1>1. t \in Seq(Ids) /\ ToSet(t) = {x} /\ Distinct(t)
  BY DEF ToSet, Distinct
<1>2. Append(s, x) = s \o t
  BY AppendIsConcat
<1>. HIDE DEF t
<1>. QED
  BY <1>1, <1>2, ConcatIds

\* RemoveAt on vectors of ids.
LEMMA RemoveAtIds ==
    ASSUME NEW s \in Seq(Ids), NEW i \in 1..Len(s)
    PROVE  /\ RemoveAt(s, i) \in Seq(Ids)
           /\ ToSet(RemoveAt(s, i)) \subseteq ToSet(s)
           /\ Distinct(s) => /\ Distinct(RemoveAt(s, i))
                             /\ ToSet(RemoveAt(s, i)) = ToSet(s) \ {s[i]}
           /\ i # 1 => RemoveAt(s, i)[1] = s[1]
<1>. DEFINE u == SubSeq(s, 1, i - 1)
            v == SubSeq(s, i + 1, Len(s))
            n == Len(s)
<1>1. n \in Nat /\ DOMAIN s = 1..n /\ \A j \in 1..n : s[j] \in Ids
  BY SeqOfIds
<1>2. /\ u \in Seq(Ids) /\ Len(u) = i - 1
      /\ \A j \in 1..(i - 1) : u[j] = s[j]
  <2>1. i - 1 \in Int /\ 1 \in Int /\ \A j \in 1..(i - 1) : s[j] \in Ids
    BY <1>1
  <2>2. /\ u \in Seq(Ids) /\ Len(u) = IF 1 <= i - 1 THEN (i - 1) - 1 + 1 ELSE 0
        /\ \A j \in 1..((i - 1) - 1 + 1) : u[j] = s[1 + j - 1]
    BY <2>1, SubSeqProperties
  <2>. QED
    BY <2>2, <1>1
<1>3. /\ v \in Seq(Ids) /\ Len(v) = n - i
      /\ \A j \in 1..(n - i) : v[j] = s[i + j]
  <2>1. i + 1 \in Int /\ n \in Int /\ \A j \in (i + 1)..n : s[j] \in Ids
    BY <1>1
  <2>2. /\ v \in Seq(Ids) /\ Len(v) = IF i + 1 <= n THEN n - (i + 1) + 1 ELSE 0
        /\ \A j \in 1..(n - (i + 1) + 1) : v[j] = s[(i + 1) + j - 1]
    BY <2>1, SubSeqProperties
  <2>3. n - (i + 1) + 1 = n - i /\ \A j \in 1..(n - i) : (i + 1) + j - 1 = i + j
    BY <1>1
  <2>4. i \in 1..n
    OBVIOUS
  <2>. HIDE DEF v, n
  <2>5. Len(v) = n - i
    BY <2>2, <2>4, <1>1
  <2>6. \A j \in 1..(n - i) : v[j] = s[i + j]
    BY <2>2, <2>3, <2>4, <1>1
  <2>. QED
    BY <2>2, <2>5, <2>6
<1>4. RemoveAt(s, i) = u \o v
  BY DEF RemoveAt
<1>5. DOMAIN u = 1..(i - 1) /\ DOMAIN v = 1..(n - i)
  BY <1>2, <1>3, SeqOfIds
<1>. HIDE DEF u, v, n
<1>6. ToSet(u) = {s[j] : j \in 1..(i - 1)}
  BY <1>2, <1>5 DEF ToSet
<1>7. ToSet(v) = {s[j] : j \in (i + 1)..n}
  <2>1. ASSUME NEW j \in 1..(n - i) PROVE v[j] \in {s[k] : k \in (i + 1)..n}
    <3>1. i + j \in (i + 1)..n
      BY <1>1
    <3>. QED
      BY <3>1, <1>3
  <2>2. ASSUME NEW k \in (i + 1)..n PROVE s[k] \in ToSet(v)
    <3>1. k - i \in 1..(n - i) /\ i + (k - i) = k
      BY <1>1
    <3>. QED
      BY <3>1, <1>3, <1>5 DEF ToSet
  <2>. QED
    BY <2>1, <2>2, <1>5 DEF ToSet
<1>8. ToSet(s) = ToSet(u) \cup ToSet(v) \cup {s[i]}
  <2>1. i \in 1..n /\ \A j \in 1..n : j \in 1..(i - 1) \/ j \in (i + 1)..n \/ j = i
    BY <1>1 DEF n
  <2>2. \A j \in 1..(i - 1) : j \in 1..n
    BY <2>1, <1>1
  <2>3. \A j \in (i + 1)..n : j \in 1..n
    BY <2>1, <1>1
  <2>4. ToSet(s) = {s[j] : j \in 1..n}
    BY <1>1 DEF ToSet
  <2>. QED
    BY <2>1, <2>2, <2>3, <2>4, <1>6, <1>7
<1>9. i \in 1..n /\ n \in Nat
  BY <1>1 DEF n
<1>10. ASSUME Distinct(s)
       PROVE  Distinct(u \o v) /\ s[i] \notin ToSet(u) \cup ToSet(v)
  <2>1. \A j, k \in 1..n : s[j] = s[k] => j = k
    BY <1>1, <1>10 DEF Distinct
  <2>2. Distinct(u)
    <3>. SUFFICES ASSUME NEW j \in 1..(i - 1), NEW k \in 1..(i - 1), u[j] = u[k] PROVE j = k
      BY <1>5 DEF Distinct
    <3>. QED
      BY <2>1, <1>2, <1>9
  <2>3. Distinct(v)
    <3>. SUFFICES ASSUME NEW j \in 1..(n - i), NEW k \in 1..(n - i), v[j] = v[k] PROVE j = k
      BY <1>5 DEF Distinct
    <3>1. i + j \in 1..n /\ i + k \in 1..n /\ s[i + j] = s[i + k]
      BY <1>3, <1>9
    <3>2. i + j = i + k
      BY <3>1, <2>1
    <3>. QED
      BY <3>2, <1>9
  <2>4. ToSet(u) \cap ToSet(v) = {}
    <3>. SUFFICES ASSUME NEW j \in 1..(i - 1), NEW k \in (i + 1)..n, s[j] = s[k] PROVE FALSE
      BY <1>6, <1>7
    <3>. QED
      BY <2>1, <1>9
  <2>5. s[i] \notin ToSet(u) \cup ToSet(v)
    <3>1. \A j \in 1..(i - 1) : s[j] # s[i]
      BY <2>1, <1>9
    <3>2. \A j \in (i + 1)..n : s[j] # s[i]
      BY <2>1, <1>9
    <3>. QED
      BY <3>1, <3>2, <1>6, <1>7
  <2>. QED
    BY <2>2, <2>3, <2>4, <2>5, <1>2, <1>3, ConcatIds
<1>11. u \o v \in Seq(Ids) /\ ToSet(u \o v) = ToSet(u) \cup ToSet(v)
  BY <1>2, <1>3, ConcatIds
<1>12. i # 1 => (u \o v)[1] = s[1]
  <2>. SUFFICES ASSUME i # 1 PROVE (u \o v)[1] = s[1]
    OBVIOUS
  <2>1. 1 \in 1..(i - 1) /\ Len(u) # 0
    BY <1>2, <1>9
  <2>2. u # <<>>
    BY <2>1, <1>2, SeqOfIds
  <2>3. (u \o v)[1] = u[1]
    BY <2>2, <1>2, <1>3, ConcatIds
  <2>. QED
    BY <2>1, <2>3, <1>2
<1>. QED
  BY <1>4, <1>8, <1>10, <1>11, <1>12

\* The position std::find returns.
LEMMA PositionOf ==
    ASSUME NEW s, NEW x \in ToSet(s)
    PROVE  Position(s, x) \in DOMAIN s /\ s[Position(s, x)] = x
<1>1. \E i \in DOMAIN s : s[i] = x
  BY DEF ToSet
<1>. QED
  BY <1>1 DEF Position


\* New items in the hands of an actor keep the forest; a bag among them must be
\* the first thing the actor gets.
LEMMA EquippedRegistry ==
    ASSUME NEW e, Registry(e), NEW a \in Ids, e[a].kind = "actor",
           NEW xs \in Seq(Ids), Distinct(xs), \A x \in ToSet(xs) : e[x].kind = "free",
           NEW ks \in Seq(ItemKinds), Len(ks) = Len(xs),
           \A i \in 1..Len(ks) : ks[i] = "bag" => i = 1 /\ e[a].kids = <<>>
    PROVE  /\ Registry(Equipped(e, a, xs, ks))
           /\ BagFirst(e) => BagFirst(Equipped(e, a, xs, ks))
<1>. DEFINE d == Equipped(e, a, xs, ks)
            N == ToSet(xs)
<1>1. e \in [Ids -> Entity] /\ e[a].kids \in Seq(Ids) /\ e[a].parent = NoId
  BY RegistryFields, RegistryLinks DEF Registry, BodyKinds
<1>2. N \subseteq Ids /\ a \notin N
  BY SeqOfIds
<1>3. \A x \in N : Position(xs, x) \in 1..Len(xs) /\ xs[Position(xs, x)] = x
  BY PositionOf, SeqOfIds
<1>4. \A i \in 1..Len(ks) : ks[i] \in ItemKinds
  BY ElementOfSeq
<1>5. \A x \in N : ks[Position(xs, x)] \in ItemKinds
  BY <1>3, <1>4
<1>6. /\ e[a].kids \o xs \in Seq(Ids)
      /\ ToSet(e[a].kids \o xs) = ToSet(e[a].kids) \cup N
  BY <1>1, ConcatIds
<1>7. ToSet(e[a].kids) \cap N = {}
  <2>1. \A x \in ToSet(e[a].kids) : x \in Ids /\ e[x].parent # NoId
    BY RegistryLinks, SentinelAssumption
  <2>. QED
    BY <2>1, RegistryLinks
<1>8. Distinct(e[a].kids \o xs)
  BY <1>1, <1>7, RegistryLinks, ConcatIds
<1>9. d = [x \in Ids |->
            IF x = a THEN [e[a] EXCEPT !.kids = @ \o xs]
            ELSE IF x \in N
                 THEN [kind |-> ks[Position(xs, x)], parent |-> a, kids |-> <<>>,
                       owner |-> SvClient, alive |-> FALSE]
                 ELSE e[x]]
  BY DEF Equipped
<1>. HIDE DEF d, N
<1>10. d \in [Ids -> Entity]
  <2>1. ASSUME NEW x \in Ids PROVE d[x] \in Entity
    <3>1. CASE x = a
      <4>1. d[x] = [e[a] EXCEPT !.kids = @ \o xs] /\ e[a] \in Entity
        BY <3>1, <1>1, <1>9
      <4>. QED
        BY <4>1, <1>6 DEF Entity
    <3>2. CASE x # a /\ x \in N
      BY <3>2, <1>5, <1>9, EmptyVector DEF Entity
    <3>3. CASE x # a /\ x \notin N
      BY <3>3, <1>1, <1>9
    <3>. QED
      BY <3>1, <3>2, <3>3
  <2>2. d = [x \in Ids |-> d[x]]
    BY <1>9
  <2>. QED
    BY <2>1, <2>2
<1>11. d[a].kind = "actor" /\ d[a].parent = NoId /\ d[a].kids = e[a].kids \o xs
  BY <1>1, <1>9 DEF Entity
<1>12. \A x \in N : d[x].kind = ks[Position(xs, x)] /\ d[x].parent = a /\ d[x].kids = <<>>
  BY <1>2, <1>9
<1>13. \A x \in Ids \ (N \cup {a}) : d[x] = e[x]
  BY <1>9
<1>14. FreeIsEmpty(d)
  <2>1. \A x \in N : d[x].kind # "free"
    BY <1>5, <1>12 DEF ItemKinds, GearKinds
  <2>. QED
    BY <2>1, <1>11, <1>13 DEF FreeIsEmpty, Registry
<1>15. \A x \in Ids : \A y \in ToSet(d[x].kids) : d[y].parent = x
  <2>. SUFFICES ASSUME NEW x \in Ids, NEW y \in ToSet(d[x].kids) PROVE d[y].parent = x
    OBVIOUS
  <2>1. CASE x = a
    <3>1. y \in ToSet(e[a].kids) \cup N
      BY <2>1, <1>6, <1>11
    <3>2. CASE y \in ToSet(e[a].kids)
      <4>1. y \in Ids /\ e[y].parent = a /\ y # a
        BY <3>2, <1>1, RegistryLinks, SentinelAssumption
      <4>. QED
        BY <4>1, <3>2, <2>1, <1>7, <1>13
    <3>. QED
      BY <3>1, <3>2, <2>1, <1>12
  <2>2. CASE x # a
    <3>1. x \notin N
      BY <1>12, EmptyVector
    <3>2. y \in ToSet(e[x].kids) /\ y \in Ids /\ e[y].parent = x
      BY <2>2, <3>1, <1>13, RegistryLinks
    <3>3. y # a
      BY <3>2, <1>1, SentinelAssumption
    <3>4. y \notin N
      BY <3>2, RegistryLinks, SentinelAssumption DEF N
    <3>. QED
      BY <3>2, <3>3, <3>4, <1>13
  <2>. QED
    BY <2>1, <2>2
<1>16. \A x \in Ids : Distinct(d[x].kids)
  <2>1. \A x \in Ids \ (N \cup {a}) : Distinct(d[x].kids)
    BY <1>13, RegistryLinks
  <2>2. \A x \in N : Distinct(d[x].kids)
    BY <1>12, EmptyVector
  <2>. QED
    BY <2>1, <2>2, <1>8, <1>11
<1>17. \A x \in Ids : d[x].parent # NoId =>
          /\ d[x].parent \in Ids
          /\ d[d[x].parent].kind # "free"
          /\ x \in ToSet(d[d[x].parent].kids)
  <2>. SUFFICES ASSUME NEW x \in Ids, d[x].parent # NoId
                PROVE  /\ d[x].parent \in Ids
                       /\ d[d[x].parent].kind # "free"
                       /\ x \in ToSet(d[d[x].parent].kids)
    OBVIOUS
  <2>1. CASE x \in N
    BY <2>1, <1>6, <1>11, <1>12
  <2>2. CASE x \notin N
    <3>1. x # a /\ d[x].parent = e[x].parent
      BY <2>2, <1>11, <1>13
    <3>2. e[x].parent \in Ids /\ e[e[x].parent].kind # "free" /\ x \in ToSet(e[e[x].parent].kids)
      BY <3>1, RegistryLinks
    <3>3. e[x].parent \notin N
      BY <3>2 DEF N
    <3>4. CASE e[x].parent = a
      BY <3>1, <3>2, <3>4, <1>6, <1>11
    <3>5. CASE e[x].parent # a
      BY <3>1, <3>2, <3>3, <3>5, <1>13
    <3>. QED
      BY <3>4, <3>5
  <2>. QED
    BY <2>1, <2>2
<1>18. KindsFit(d)
  <2>. SUFFICES ASSUME NEW x \in Ids, d[x].parent # NoId
                PROVE  /\ d[x].kind \in ItemKinds
                       /\ \/ d[d[x].parent].kind = "actor"
                          \/ d[d[x].parent].kind = "bag" /\ d[x].kind # "bag"
    BY DEF KindsFit
  <2>1. CASE x \in N
    BY <2>1, <1>5, <1>11, <1>12
  <2>2. CASE x \notin N
    <3>1. x # a /\ d[x] = e[x]
      BY <2>2, <1>11, <1>13
    <3>2. e[x].parent \in Ids /\ e[e[x].parent].kind # "free"
      BY <3>1, RegistryLinks
    <3>3. d[e[x].parent].kind = e[e[x].parent].kind
      BY <3>2, <1>11, <1>13 DEF N
    <3>. QED
      BY <3>1, <3>3 DEF Registry, KindsFit
  <2>. QED
    BY <2>1, <2>2
<1>19. BagFirst(e) => BagFirst(d)
  <2>. SUFFICES ASSUME BagFirst(e), NEW x \in Ids, d[x].kind = "bag", d[x].parent # NoId
                PROVE  /\ d[x].kids = <<>>
                       /\ d[d[x].parent].kind = "actor"
                       /\ d[d[x].parent].kids[1] = x
    BY DEF BagFirst
  <2>1. CASE x \in N
    <3>1. Position(xs, x) = 1 /\ e[a].kids = <<>>
      BY <2>1, <1>3, <1>12
    <3>2. xs[1] = x /\ d[a].kids = xs
      BY <2>1, <3>1, <1>1, <1>3, <1>11, ConcatIds
    <3>. QED
      BY <2>1, <3>2, <1>11, <1>12
  <2>2. CASE x \notin N
    <3>1. x # a /\ d[x] = e[x]
      BY <2>2, <1>11, <1>13
    <3>2. e[x].kids = <<>> /\ e[e[x].parent].kind = "actor" /\ e[e[x].parent].kids[1] = x
      BY <3>1 DEF BagFirst
    <3>3. e[x].parent \in Ids /\ x \in ToSet(e[e[x].parent].kids)
      BY <3>1, RegistryLinks
    <3>4. e[x].parent \notin N
      BY <3>2 DEF N
    <3>5. CASE e[x].parent = a
      <4>1. e[a].kids # <<>>
        BY <3>3, <3>5, <1>1, SeqOfIds
      <4>2. (e[a].kids \o xs)[1] = x
        BY <4>1, <3>2, <3>5, <1>1, ConcatIds
      <4>3. d[x].kids = <<>> /\ d[x].parent = a
        BY <3>1, <3>2, <3>5
      <4>. QED
        BY <4>2, <4>3, <1>11
    <3>6. CASE e[x].parent # a
      BY <3>1, <3>2, <3>3, <3>4, <3>6, <1>13
    <3>. QED
      BY <3>5, <3>6
  <2>. QED
    BY <2>1, <2>2
<1>. QED
  BY <1>10, <1>14, <1>15, <1>16, <1>17, <1>18, <1>19, RegistryIntro DEF d


\* Items that pass from one holder to another keep the forest, if the new holder
\* may hold them.
LEMMA MovedRegistry ==
    ASSUME NEW e, Registry(e), NEW from \in Ids, NEW to \in Ids, from # to,
           NEW xs \in Seq(Ids), Distinct(xs), ToSet(xs) \subseteq ToSet(e[from].kids),
           \/ e[to].kind = "actor"
           \/ e[to].kind = "bag" /\ \A x \in ToSet(xs) : e[x].kind # "bag",
           to \notin ToSet(xs)
    PROVE  /\ Registry(Moved(e, xs, from, to))
           /\ \A x \in Ids : Moved(e, xs, from, to)[x].kind = e[x].kind
           /\ Moved(e, xs, from, to)[from].kids = Kept(e[from].kids, Ids \ ToSet(xs))
           /\ Moved(e, xs, from, to)[to].kids = e[to].kids \o xs
           /\ \A x \in Ids \ {from, to} : Moved(e, xs, from, to)[x].kids = e[x].kids
           /\ \A x \in Ids \ ToSet(xs) : Moved(e, xs, from, to)[x].parent = e[x].parent
<1>. DEFINE d == Moved(e, xs, from, to)
            N == ToSet(xs)
            left == Kept(e[from].kids, Ids \ N)
<1>1. e \in [Ids -> Entity] /\ e[to].kids \in Seq(Ids) /\ e[from].kids \in Seq(Ids)
  BY RegistryFields DEF Registry
<1>2. N \subseteq Ids /\ to \notin N /\ \A x \in N : e[x].parent = from
  BY SeqOfIds, RegistryLinks
<1>3. from \notin N
  <2>. SUFFICES ASSUME from \in N PROVE FALSE
    OBVIOUS
  <2>1. e[from].parent = from /\ from # NoId /\ from \in ToSet(e[from].kids)
    BY <1>2, SentinelAssumption
  <2>2. e[from].kids # <<>>
    BY <2>1, EmptyVector
  <2>3. e[from].kind = "bag" /\ e[from].kind \in ItemKinds
    BY <2>1, <2>2, RegistryLinks DEF Registry, KindsFit, BodyKinds, ItemKinds, GearKinds
  <2>. QED
    BY <2>1, <2>3 DEF Registry, KindsFit
<1>4. /\ left \in Seq(Ids) /\ ToSet(left) = ToSet(e[from].kids) \cap (Ids \ N)
      /\ Distinct(left)
  <2>1. Distinct(e[from].kids)
    BY RegistryLinks
  <2>. QED
    BY <2>1, <1>1, KeptIds
<1>5. ToSet(e[to].kids) \cap N = {}
  BY <1>2, RegistryLinks
<1>6. /\ e[to].kids \o xs \in Seq(Ids)
      /\ ToSet(e[to].kids \o xs) = ToSet(e[to].kids) \cup N
      /\ Distinct(e[to].kids \o xs)
  BY <1>1, <1>5, RegistryLinks, ConcatIds
<1>7. d = [x \in Ids |->
            IF x = from THEN [e[x] EXCEPT !.kids = left]
            ELSE IF x = to THEN [e[x] EXCEPT !.kids = @ \o xs]
            ELSE IF x \in N THEN [e[x] EXCEPT !.parent = to]
            ELSE e[x]]
  BY DEF Moved
<1>. HIDE DEF d, N, left
<1>8. d \in [Ids -> Entity]
  <2>1. ASSUME NEW x \in Ids PROVE d[x] \in Entity
    <3>1. CASE x = from
      <4>1. d[x] = [e[x] EXCEPT !.kids = left] /\ e[x] \in Entity
        BY <3>1, <1>1, <1>7
      <4>. QED
        BY <4>1, <1>4 DEF Entity
    <3>2. CASE x = to
      BY <3>2, <1>1, <1>6, <1>7 DEF Entity
    <3>3. CASE x \notin {from, to}
      BY <3>3, <1>1, <1>7 DEF Entity
    <3>. QED
      BY <3>1, <3>2, <3>3
  <2>2. d = [x \in Ids |-> d[x]]
    BY <1>7
  <2>. QED
    BY <2>1, <2>2
<1>9. \A x \in Ids : d[x].kind = e[x].kind
  BY <1>1, <1>7 DEF Entity
<1>10. \A x \in Ids \ N : d[x].parent = e[x].parent
  BY <1>1, <1>7 DEF Entity
<1>11. \A x \in N : d[x].parent = to /\ d[x].kids = e[x].kids
  <2>1. ASSUME NEW x \in N PROVE d[x].parent = to /\ d[x].kids = e[x].kids
    <3>1. x \in Ids /\ x # from /\ x # to
      BY <1>1, <1>2, <1>3
    <3>2. d[x] = [e[x] EXCEPT !.parent = to] /\ e[x] \in Entity
      BY <3>1, <1>1, <1>7
    <3>. QED
      BY <3>2 DEF Entity
  <2>. QED
    BY <2>1
<1>12. d[from].kids = left /\ d[to].kids = e[to].kids \o xs
  BY <1>1, <1>7 DEF Entity
<1>13. \A x \in Ids \ {from, to} : d[x].kids = e[x].kids
  BY <1>1, <1>7 DEF Entity
<1>14. FreeIsEmpty(d)
  <2>. SUFFICES ASSUME NEW x \in Ids, d[x].kind = "free" PROVE d[x] = NoEntity
    BY DEF FreeIsEmpty
  <2>1. e[x].kind = "free" /\ e[x] = NoEntity
    BY <1>9 DEF Registry, FreeIsEmpty
  <2>2. x \notin N /\ x # to
    BY <2>1, <1>2, RegistryLinks, SentinelAssumption
  <2>3. CASE x = from
    <3>1. e[from].kids = <<>>
      BY <2>1, <2>3 DEF NoEntity
    <3>2. left = <<>>
      BY <3>1, EmptyVector DEF left
    <3>. QED
      BY <2>1, <2>3, <3>2, <1>7 DEF NoEntity
  <2>4. CASE x # from
    BY <2>1, <2>2, <2>4, <1>7
  <2>. QED
    BY <2>3, <2>4
<1>15. \A x \in Ids : \A y \in ToSet(d[x].kids) : d[y].parent = x
  <2>. SUFFICES ASSUME NEW x \in Ids, NEW y \in ToSet(d[x].kids) PROVE d[y].parent = x
    OBVIOUS
  <2>1. CASE x = from
    BY <2>1, <1>4, <1>10, <1>12, RegistryLinks
  <2>2. CASE x = to
    <3>1. y \in ToSet(e[to].kids) \cup N
      BY <2>2, <1>6, <1>12
    <3>2. CASE y \in N
      BY <3>2, <2>2, <1>11
    <3>3. CASE y \notin N
      BY <3>1, <3>3, <2>2, <1>10, RegistryLinks
    <3>. QED
      BY <3>2, <3>3
  <2>3. CASE x \notin {from, to}
    <3>1. y \in ToSet(e[x].kids) /\ y \in Ids /\ e[y].parent = x
      BY <2>3, <1>13, RegistryLinks
    <3>2. y \notin N
      BY <3>1, <2>3, <1>2
    <3>. QED
      BY <3>1, <3>2, <1>10
  <2>. QED
    BY <2>1, <2>2, <2>3
<1>16. \A x \in Ids : Distinct(d[x].kids)
  <2>1. \A x \in Ids : Distinct(e[x].kids)
    BY RegistryLinks
  <2>. QED
    BY <2>1, <1>4, <1>6, <1>12, <1>13
<1>17. \A x \in Ids : d[x].parent # NoId =>
          /\ d[x].parent \in Ids
          /\ d[d[x].parent].kind # "free"
          /\ x \in ToSet(d[d[x].parent].kids)
  <2>. SUFFICES ASSUME NEW x \in Ids, d[x].parent # NoId
                PROVE  /\ d[x].parent \in Ids
                       /\ d[d[x].parent].kind # "free"
                       /\ x \in ToSet(d[d[x].parent].kids)
    OBVIOUS
  <2>1. CASE x \in N
    <3>1. d[to].kind # "free"
      BY <1>9
    <3>. QED
      BY <2>1, <3>1, <1>6, <1>11, <1>12
  <2>2. CASE x \notin N
    <3>1. d[x].parent = e[x].parent
      BY <2>2, <1>10
    <3>2. e[x].parent \in Ids /\ e[e[x].parent].kind # "free" /\ x \in ToSet(e[e[x].parent].kids)
      BY <3>1, RegistryLinks
    <3>3. x \in ToSet(d[e[x].parent].kids)
      BY <2>2, <3>2, <1>4, <1>6, <1>12, <1>13
    <3>. QED
      BY <3>1, <3>2, <3>3, <1>9
  <2>. QED
    BY <2>1, <2>2
<1>18. KindsFit(d)
  <2>. SUFFICES ASSUME NEW x \in Ids, d[x].parent # NoId
                PROVE  /\ d[x].kind \in ItemKinds
                       /\ \/ d[d[x].parent].kind = "actor"
                          \/ d[d[x].parent].kind = "bag" /\ d[x].kind # "bag"
    BY DEF KindsFit
  <2>1. CASE x \in N
    <3>1. e[x].kind \in ItemKinds
      BY <2>1, <1>2, SentinelAssumption DEF Registry, KindsFit
    <3>. QED
      BY <2>1, <3>1, <1>9, <1>11 DEF N
  <2>2. CASE x \notin N
    <3>1. d[x].parent = e[x].parent /\ e[x].parent \in Ids
      BY <2>2, <1>10, RegistryLinks
    <3>. QED
      BY <3>1, <1>9 DEF Registry, KindsFit
  <2>. QED
    BY <2>1, <2>2
<1>19. Registry(d)
  BY <1>8, <1>14, <1>15, <1>16, <1>17, <1>18, RegistryIntro
<1>. QED
  BY <1>9, <1>10, <1>12, <1>13, <1>19 DEF d, N, left


\* A free item taken by an actor keeps the forest.
LEMMA TakenRegistry ==
    ASSUME NEW e, Registry(e), NEW a \in Ids, e[a].kind = "actor",
           NEW x \in Ids, e[x].kind \in GearKinds, e[x].parent = NoId
    PROVE  /\ Registry(Taken(e, a, x))
           /\ BagFirst(e) => BagFirst(Taken(e, a, x))
<1>. DEFINE d == Taken(e, a, x)
            more == Append(e[a].kids, x)
<1>1. e \in [Ids -> Entity] /\ e[a].kids \in Seq(Ids) /\ e[a].parent = NoId /\ x # a
  BY RegistryFields, RegistryLinks DEF Registry, BodyKinds, GearKinds
<1>2. x \notin ToSet(e[a].kids)
  BY RegistryLinks, SentinelAssumption
<1>3. more \in Seq(Ids) /\ ToSet(more) = ToSet(e[a].kids) \cup {x} /\ Distinct(more)
  BY <1>1, <1>2, RegistryLinks, AppendIds
<1>4. e[a].kids # <<>> => more[1] = e[a].kids[1]
  BY <1>1, AppendIds
<1>5. d = [e EXCEPT ![x].parent = a, ![a].kids = Append(@, x)]
  BY DEF Taken
<1>6. d = [y \in Ids |-> IF y = a THEN [e[a] EXCEPT !.kids = more]
                         ELSE IF y = x THEN [e[x] EXCEPT !.parent = a] ELSE e[y]]
  BY <1>1, <1>5
<1>. HIDE DEF d, more
<1>7. d \in [Ids -> Entity]
  <2>1. ASSUME NEW y \in Ids PROVE d[y] \in Entity
    <3>1. e[a] \in Entity /\ e[x] \in Entity /\ e[y] \in Entity
      BY <1>1
    <3>2. [e[a] EXCEPT !.kids = more] \in Entity
      BY <3>1, <1>3 DEF Entity
    <3>3. [e[x] EXCEPT !.parent = a] \in Entity
      BY <3>1 DEF Entity
    <3>. QED
      BY <3>1, <3>2, <3>3, <1>6
  <2>2. d = [y \in Ids |-> d[y]]
    BY <1>6
  <2>. QED
    BY <2>1, <2>2
<1>8. \A y \in Ids : d[y].kind = e[y].kind
  BY <1>1, <1>6 DEF Entity
<1>9. d[x].parent = a /\ \A y \in Ids \ {x} : d[y].parent = e[y].parent
  BY <1>1, <1>6 DEF Entity
<1>10. d[a].kids = more /\ \A y \in Ids \ {a} : d[y].kids = e[y].kids
  BY <1>1, <1>6 DEF Entity
<1>11. FreeIsEmpty(d)
  <2>1. e[x].kind # "free"
    BY DEF GearKinds
  <2>2. \A y \in Ids \ {a, x} : d[y] = e[y]
    BY <1>6
  <2>. QED
    BY <2>1, <2>2, <1>8 DEF FreeIsEmpty, Registry
<1>12. \A y \in Ids : \A z \in ToSet(d[y].kids) : d[z].parent = y
  <2>. SUFFICES ASSUME NEW y \in Ids, NEW z \in ToSet(d[y].kids) PROVE d[z].parent = y
    OBVIOUS
  <2>1. CASE z = x
    <3>1. y = a
      BY <2>1, <1>10, RegistryLinks, SentinelAssumption
    <3>. QED
      BY <2>1, <3>1, <1>9
  <2>2. CASE z # x
    <3>1. z \in ToSet(e[y].kids)
      BY <2>2, <1>3, <1>10
    <3>. QED
      BY <2>2, <3>1, <1>9, RegistryLinks
  <2>. QED
    BY <2>1, <2>2
<1>13. \A y \in Ids : Distinct(d[y].kids)
  BY <1>3, <1>10, RegistryLinks
<1>14. \A y \in Ids : d[y].parent # NoId =>
          /\ d[y].parent \in Ids
          /\ d[d[y].parent].kind # "free"
          /\ y \in ToSet(d[d[y].parent].kids)
  <2>. SUFFICES ASSUME NEW y \in Ids, d[y].parent # NoId
                PROVE  /\ d[y].parent \in Ids
                       /\ d[d[y].parent].kind # "free"
                       /\ y \in ToSet(d[d[y].parent].kids)
    OBVIOUS
  <2>1. CASE y = x
    BY <2>1, <1>3, <1>8, <1>9, <1>10
  <2>2. CASE y # x
    <3>1. d[y].parent = e[y].parent
      BY <2>2, <1>9
    <3>2. e[y].parent \in Ids /\ e[e[y].parent].kind # "free" /\ y \in ToSet(e[e[y].parent].kids)
      BY <3>1, RegistryLinks
    <3>3. y \in ToSet(d[e[y].parent].kids)
      BY <3>2, <1>3, <1>10
    <3>. QED
      BY <3>1, <3>2, <3>3, <1>8
  <2>. QED
    BY <2>1, <2>2
<1>15. KindsFit(d)
  <2>1. \A y \in Ids \ {x} : d[y].parent = e[y].parent /\ e[y].parent \in Ids \cup {NoId}
    BY <1>9, RegistryFields
  <2>2. d[x].kind \in ItemKinds /\ d[d[x].parent].kind = "actor"
    BY <1>8, <1>9 DEF ItemKinds
  <2>. QED
    BY <2>1, <2>2, <1>8 DEF Registry, KindsFit
<1>16. BagFirst(e) => BagFirst(d)
  <2>. SUFFICES ASSUME BagFirst(e), NEW y \in Ids, d[y].kind = "bag", d[y].parent # NoId
                PROVE  /\ d[y].kids = <<>>
                       /\ d[d[y].parent].kind = "actor"
                       /\ d[d[y].parent].kids[1] = y
    BY DEF BagFirst
  <2>1. y # x /\ e[y].kind = "bag"
    BY <1>8 DEF GearKinds
  <2>2. d[y].parent = e[y].parent
    BY <2>1, <1>9
  <2>3. e[y].kids = <<>> /\ e[e[y].parent].kind = "actor" /\ e[e[y].parent].kids[1] = y
    BY <2>1, <2>2 DEF BagFirst
  <2>4. e[y].parent \in Ids /\ y \in ToSet(e[e[y].parent].kids)
    BY <2>2, RegistryLinks
  <2>5. d[e[y].parent].kids[1] = y
    <3>1. e[e[y].parent].kids # <<>>
      BY <2>4, EmptyVector
    <3>. QED
      BY <3>1, <2>3, <2>4, <1>4, <1>10
  <2>6. y # a
    BY <2>1
  <2>. QED
    BY <2>2, <2>3, <2>4, <2>5, <2>6, <1>8, <1>10
<1>. QED
  BY <1>7, <1>11, <1>12, <1>13, <1>14, <1>15, <1>16, RegistryIntro DEF d

\* Items released by their holder keep the forest.
LEMMA ReleasedRegistry ==
    ASSUME NEW e, Registry(e), NEW a \in Ids, NEW S \in SUBSET Ids,
           S \subseteq ToSet(e[a].kids), a \notin S
    PROVE  /\ Registry(Released(e, a, S))
           /\ \A x \in Ids : Released(e, a, S)[x].kind = e[x].kind
           /\ Released(e, a, S)[a].kids = Kept(e[a].kids, Ids \ S)
           /\ \A x \in Ids \ {a} : Released(e, a, S)[x].kids = e[x].kids
           /\ \A x \in S : Released(e, a, S)[x].parent = NoId
           /\ \A x \in Ids \ S : Released(e, a, S)[x].parent = e[x].parent
<1>. DEFINE d == Released(e, a, S)
            left == Kept(e[a].kids, Ids \ S)
<1>1. e \in [Ids -> Entity] /\ e[a].kids \in Seq(Ids) /\ Distinct(e[a].kids)
  BY RegistryFields, RegistryLinks DEF Registry
<1>2. left \in Seq(Ids) /\ ToSet(left) = ToSet(e[a].kids) \cap (Ids \ S) /\ Distinct(left)
  BY <1>1, KeptIds
<1>3. d = [x \in Ids |-> IF x \in S THEN [e[x] EXCEPT !.parent = NoId]
                         ELSE IF x = a THEN [e[x] EXCEPT !.kids = left] ELSE e[x]]
  BY DEF Released
<1>. HIDE DEF d, left
<1>4. d \in [Ids -> Entity]
  <2>1. ASSUME NEW x \in Ids PROVE d[x] \in Entity
    <3>1. e[x] \in Entity
      BY <1>1
    <3>2. [e[x] EXCEPT !.kids = left] \in Entity /\ [e[x] EXCEPT !.parent = NoId] \in Entity
      BY <3>1, <1>2 DEF Entity
    <3>. QED
      BY <3>1, <3>2, <1>3
  <2>2. d = [x \in Ids |-> d[x]]
    BY <1>3
  <2>. QED
    BY <2>1, <2>2
<1>5. \A x \in Ids : d[x].kind = e[x].kind
  BY <1>1, <1>3 DEF Entity
<1>6. (\A x \in S : d[x].parent = NoId) /\ \A x \in Ids \ S : d[x].parent = e[x].parent
  BY <1>1, <1>3 DEF Entity
<1>7. d[a].kids = left /\ \A x \in Ids \ {a} : d[x].kids = e[x].kids
  BY <1>1, <1>3 DEF Entity
<1>8. FreeIsEmpty(d)
  <2>. SUFFICES ASSUME NEW x \in Ids, d[x].kind = "free" PROVE d[x] = NoEntity
    BY DEF FreeIsEmpty
  <2>1. e[x].kind = "free" /\ e[x] = NoEntity
    BY <1>5 DEF Registry, FreeIsEmpty
  <2>2. x \notin S
    BY <2>1, RegistryLinks, SentinelAssumption
  <2>3. x = a => left = <<>>
    BY <2>1, EmptyVector DEF left, NoEntity
  <2>. QED
    BY <2>1, <2>2, <2>3, <1>3 DEF NoEntity
<1>9. \A x \in Ids : \A y \in ToSet(d[x].kids) : d[y].parent = x
  <2>. SUFFICES ASSUME NEW x \in Ids, NEW y \in ToSet(d[x].kids) PROVE d[y].parent = x
    OBVIOUS
  <2>1. y \in ToSet(e[x].kids) /\ y \in Ids /\ e[y].parent = x
    BY <1>2, <1>7, RegistryLinks
  <2>2. y \notin S
    BY <2>1, <1>2, <1>7, RegistryLinks
  <2>. QED
    BY <2>1, <2>2, <1>6
<1>10. \A x \in Ids : Distinct(d[x].kids)
  BY <1>2, <1>7, RegistryLinks
<1>11. \A x \in Ids : d[x].parent # NoId =>
          /\ d[x].parent \in Ids
          /\ d[d[x].parent].kind # "free"
          /\ x \in ToSet(d[d[x].parent].kids)
  <2>. SUFFICES ASSUME NEW x \in Ids, d[x].parent # NoId
                PROVE  /\ d[x].parent \in Ids
                       /\ d[d[x].parent].kind # "free"
                       /\ x \in ToSet(d[d[x].parent].kids)
    OBVIOUS
  <2>1. x \notin S /\ d[x].parent = e[x].parent
    BY <1>6
  <2>2. e[x].parent \in Ids /\ e[e[x].parent].kind # "free" /\ x \in ToSet(e[e[x].parent].kids)
    BY <2>1, RegistryLinks
  <2>3. x \in ToSet(d[e[x].parent].kids)
    BY <2>1, <2>2, <1>2, <1>7
  <2>. QED
    BY <2>1, <2>2, <2>3, <1>5
<1>12. KindsFit(d)
  <2>1. \A x \in Ids : d[x].parent # NoId => d[x].parent = e[x].parent /\ e[x].parent \in Ids
    BY <1>6, RegistryLinks
  <2>. QED
    BY <2>1, <1>5 DEF Registry, KindsFit
<1>13. Registry(d)
  BY <1>4, <1>8, <1>9, <1>10, <1>11, <1>12, RegistryIntro
<1>. QED
  BY <1>5, <1>6, <1>7, <1>13 DEF d, left

\* `ID_Parent = 0xffff' with `C.erase(c)' keeps the forest when c is the position
\* of the child.
LEMMA UnlinkedRegistry ==
    ASSUME NEW e, Registry(e), NEW p \in Ids, NEW i \in 1..Len(e[p].kids),
           NEW x, x = e[p].kids[i], x # p
    PROVE  /\ Registry(Unlinked(e, p, x, i))
           /\ \A y \in Ids : Unlinked(e, p, x, i)[y].kind = e[y].kind
           /\ Unlinked(e, p, x, i)[p].kids = RemoveAt(e[p].kids, i)
           /\ \A y \in Ids \ {p} : Unlinked(e, p, x, i)[y].kids = e[y].kids
           /\ Unlinked(e, p, x, i)[x].parent = NoId
           /\ \A y \in Ids \ {x} : Unlinked(e, p, x, i)[y].parent = e[y].parent
<1>. DEFINE d == Unlinked(e, p, x, i)
            left == RemoveAt(e[p].kids, i)
<1>1. e \in [Ids -> Entity] /\ e[p].kids \in Seq(Ids) /\ Distinct(e[p].kids)
  BY RegistryFields, RegistryLinks DEF Registry
<1>2. left \in Seq(Ids) /\ ToSet(left) = ToSet(e[p].kids) \ {x} /\ Distinct(left)
  BY <1>1, RemoveAtIds
<1>3. x \in Ids /\ x \in ToSet(e[p].kids) /\ e[x].parent = p
  <2>1. x \in ToSet(e[p].kids)
    BY <1>1, SeqOfIds DEF ToSet
  <2>. QED
    BY <2>1, RegistryLinks
<1>4. d = [e EXCEPT ![x].parent = NoId, ![p].kids = RemoveAt(@, i)]
  BY DEF Unlinked
<1>5. d = [y \in Ids |-> IF y = p THEN [e[p] EXCEPT !.kids = left]
                         ELSE IF y = x THEN [e[x] EXCEPT !.parent = NoId] ELSE e[y]]
  BY <1>1, <1>3, <1>4
<1>. HIDE DEF d, left
<1>6. d \in [Ids -> Entity]
  <2>1. ASSUME NEW y \in Ids PROVE d[y] \in Entity
    <3>1. e[p] \in Entity /\ e[x] \in Entity /\ e[y] \in Entity
      BY <1>1, <1>3
    <3>2. [e[p] EXCEPT !.kids = left] \in Entity
      BY <3>1, <1>2 DEF Entity
    <3>3. [e[x] EXCEPT !.parent = NoId] \in Entity
      BY <3>1 DEF Entity
    <3>. QED
      BY <3>1, <3>2, <3>3, <1>5
  <2>2. d = [y \in Ids |-> d[y]]
    BY <1>5
  <2>. QED
    BY <2>1, <2>2
<1>7. \A y \in Ids : d[y].kind = e[y].kind
  BY <1>1, <1>5 DEF Entity
<1>8. d[x].parent = NoId /\ \A y \in Ids \ {x} : d[y].parent = e[y].parent
  BY <1>1, <1>3, <1>5 DEF Entity
<1>9. d[p].kids = left /\ \A y \in Ids \ {p} : d[y].kids = e[y].kids
  BY <1>1, <1>5 DEF Entity
<1>10. FreeIsEmpty(d)
  <2>1. e[x].kind # "free" /\ e[p].kind # "free"
    BY <1>3, RegistryLinks, SentinelAssumption, EmptyVector
  <2>2. \A y \in Ids \ {p, x} : d[y] = e[y]
    BY <1>5
  <2>. QED
    BY <2>1, <2>2, <1>7 DEF FreeIsEmpty, Registry
<1>11. \A y \in Ids : \A z \in ToSet(d[y].kids) : d[z].parent = y
  <2>. SUFFICES ASSUME NEW y \in Ids, NEW z \in ToSet(d[y].kids) PROVE d[z].parent = y
    OBVIOUS
  <2>1. z \in ToSet(e[y].kids) /\ z \in Ids /\ e[z].parent = y
    BY <1>2, <1>9, RegistryLinks
  <2>2. z # x
    BY <2>1, <1>2, <1>3, <1>9
  <2>. QED
    BY <2>1, <2>2, <1>8
<1>12. \A y \in Ids : Distinct(d[y].kids)
  BY <1>2, <1>9, RegistryLinks
<1>13. \A y \in Ids : d[y].parent # NoId =>
          /\ d[y].parent \in Ids
          /\ d[d[y].parent].kind # "free"
          /\ y \in ToSet(d[d[y].parent].kids)
  <2>. SUFFICES ASSUME NEW y \in Ids, d[y].parent # NoId
                PROVE  /\ d[y].parent \in Ids
                       /\ d[d[y].parent].kind # "free"
                       /\ y \in ToSet(d[d[y].parent].kids)
    OBVIOUS
  <2>1. y # x /\ d[y].parent = e[y].parent
    BY <1>8
  <2>2. e[y].parent \in Ids /\ e[e[y].parent].kind # "free" /\ y \in ToSet(e[e[y].parent].kids)
    BY <2>1, RegistryLinks
  <2>3. y \in ToSet(d[e[y].parent].kids)
    BY <2>1, <2>2, <1>2, <1>9
  <2>. QED
    BY <2>1, <2>2, <2>3, <1>7
<1>14. KindsFit(d)
  <2>1. \A y \in Ids : d[y].parent # NoId => d[y].parent = e[y].parent /\ e[y].parent \in Ids
    BY <1>8, RegistryLinks
  <2>. QED
    BY <2>1, <1>7 DEF Registry, KindsFit
<1>15. Registry(d)
  BY <1>6, <1>10, <1>11, <1>12, <1>13, <1>14, RegistryIntro
<1>. QED
  BY <1>7, <1>8, <1>9, <1>15 DEF d, left


\* A spectator for each client of C, in free slots, disturbs nothing.
LEMMA WithSpectatorsRegistry ==
    ASSUME NEW e, Registry(e), NEW C \in SUBSET Clients, NEW f \in FreshFor(C, e)
    PROVE  /\ Registry(WithSpectators(e, C, f))
           /\ BagFirst(e) => BagFirst(WithSpectators(e, C, f))
<1>. DEFINE d == WithSpectators(e, C, f)
            New == {f[c] : c \in C}
            owner(x) == CHOOSE c \in C : f[c] = x
<1>1. e \in [Ids -> Entity]
  BY DEF Registry
<1>2. New \subseteq Ids /\ \A x \in New : e[x].kind = "free"
  BY DEF FreshFor, Free, Live
<1>3. \A x \in New : owner(x) \in Clients
  <2>1. \A x \in New : \E c \in C : f[c] = x
    OBVIOUS
  <2>. QED
    BY <2>1
<1>4. d = [x \in Ids |-> IF x \in New
                         THEN [NoEntity EXCEPT !.kind = "spectator", !.owner = owner(x)]
                         ELSE e[x]]
  <2>1. \A x \in Ids : (\E c \in C : f[c] = x) <=> x \in New
    OBVIOUS
  <2>. QED
    BY <2>1 DEF WithSpectators
<1>. HIDE DEF d, New, owner
<1>5. \A x \in New : /\ d[x] \in Entity
                     /\ d[x].kind = "spectator"
                     /\ d[x].parent = NoId
                     /\ d[x].kids = <<>>
  BY <1>2, <1>3, <1>4, EmptyVector DEF NoEntity, Entity, BodyKinds
<1>6. \A x \in Ids \ New : d[x] = e[x]
  BY <1>4
<1>7. d \in [Ids -> Entity]
  <2>1. d = [x \in Ids |-> d[x]]
    BY <1>4
  <2>. QED
    BY <2>1, <1>1, <1>5, <1>6
<1>8. \A x \in New : e[x].parent = NoId /\ e[x].kids = <<>>
  BY <1>2, RegistryLinks
<1>9. \A x \in Ids : e[x].parent \notin New
  <2>. SUFFICES ASSUME NEW x \in Ids, e[x].parent \in New PROVE FALSE
    OBVIOUS
  <2>1. e[x].parent # NoId
    BY <1>2, SentinelAssumption
  <2>. QED
    BY <2>1, <1>2, RegistryLinks
<1>10. FreeIsEmpty(d)
  BY <1>5, <1>6 DEF FreeIsEmpty, Registry
<1>11. \A x \in Ids : \A y \in ToSet(d[x].kids) : d[y].parent = x
  <2>. SUFFICES ASSUME NEW x \in Ids, NEW y \in ToSet(d[x].kids) PROVE d[y].parent = x
    OBVIOUS
  <2>1. x \notin New
    BY <1>5, EmptyVector
  <2>2. y \in Ids /\ e[y].parent = x
    BY <2>1, <1>6, RegistryLinks
  <2>3. y \notin New
    BY <2>2, <1>8, SentinelAssumption
  <2>. QED
    BY <2>2, <2>3, <1>6
<1>12. \A x \in Ids : Distinct(d[x].kids)
  <2>1. \A x \in New : Distinct(d[x].kids)
    BY <1>5, EmptyVector
  <2>2. \A x \in Ids \ New : Distinct(d[x].kids)
    BY <1>6, RegistryLinks
  <2>. QED
    BY <2>1, <2>2
<1>13. \A x \in Ids : d[x].parent # NoId =>
          /\ x \notin New
          /\ d[x].parent \in Ids \ New
          /\ d[d[x].parent].kind # "free"
          /\ x \in ToSet(d[d[x].parent].kids)
  <2>. SUFFICES ASSUME NEW x \in Ids, d[x].parent # NoId
                PROVE  /\ x \notin New
                       /\ d[x].parent \in Ids \ New
                       /\ d[d[x].parent].kind # "free"
                       /\ x \in ToSet(d[d[x].parent].kids)
    OBVIOUS
  <2>1. x \notin New /\ d[x] = e[x]
    BY <1>5, <1>6
  <2>2. e[x].parent \in Ids \ New /\ e[e[x].parent].kind # "free" /\ x \in ToSet(e[e[x].parent].kids)
    BY <2>1, <1>9, RegistryLinks
  <2>. QED
    BY <2>1, <2>2, <1>6
<1>14. KindsFit(d)
  BY <1>6, <1>13 DEF KindsFit, Registry
<1>15. BagFirst(e) => BagFirst(d)
  BY <1>6, <1>13 DEF BagFirst
<1>. QED
  <2>1. \A x \in Ids : d[x].parent # NoId =>
          /\ d[x].parent \in Ids
          /\ d[d[x].parent].kind # "free"
          /\ x \in ToSet(d[d[x].parent].kids)
    BY <1>13
  <2>. QED
    BY <2>1, <1>7, <1>10, <1>11, <1>12, <1>14, <1>15, RegistryIntro DEF d

\* The registry SLS_Clear leaves.
LEMMA EmptyRegistry ==
    LET e == [x \in Ids |-> NoEntity] IN Registry(e) /\ BagFirst(e)
<1>. DEFINE e == [x \in Ids |-> NoEntity]
<1>1. \A x \in Ids : e[x] = NoEntity
  OBVIOUS
<1>2. e \in [Ids -> Entity]
  BY NoEntityType
<1>. HIDE DEF e
<1>3. \A x \in Ids : e[x].kind = "free" /\ e[x].parent = NoId /\ e[x].kids = <<>>
  BY <1>1 DEF NoEntity
<1>4. Registry(e)
  <2>1. FreeIsEmpty(e) /\ KindsFit(e)
    BY <1>1, <1>3 DEF FreeIsEmpty, KindsFit
  <2>. QED
    BY <2>1, <1>2, <1>3, EmptyVector, RegistryIntro
<1>5. BagFirst(e)
  BY <1>3 DEF BagFirst
<1>. QED
  BY <1>4, <1>5 DEF e

-----------------------------------------------------------------------------
(***************************************************************************)
(* The invariant of the server.                                            *)
(***************************************************************************)


\* The part of IndInv about the registry, and the part about everything else.
RegistryInv == Registry(ents) /\ BagFirst(ents)

OthersInv ==
    /\ status \in [Clients -> {"absent", "joining", "ready"}]
    /\ mainId \in [Clients -> Ids \cup {NoId}]
    /\ gameId \in [Clients -> Ids \cup {NoId}]
    /\ flags \in [Clients -> SUBSET {"dead", "watching"}]
    /\ corpses \in Seq(Ids)
    /\ leaving \in Seq(Ids \cup {NoId})
    /\ phase \in Phases
    /\ ignored \in SUBSET Clients
    /\ sweep \in Nat
    /\ OwnIdsAgree

\* IndInv is RegistryInv and OthersInv.
LEMMA IndInvParts == IndInv <=> RegistryInv /\ OthersInv
BY DEF IndInv, TypeOK, VerifyEntities, HeldBagIsFirst, RegistryInv, OthersInv, Registry

\* ... also in the next state.
LEMMA IndInvPartsPrime == RegistryInv' /\ OthersInv' => IndInv'
BY DEF IndInv, TypeOK, VerifyEntities, HeldBagIsFirst, RegistryInv, OthersInv, Registry

-----------------------------------------------------------------------------
(* Fresh ids and loadouts.                                                  *)

\* Ids handed out together are distinct free ids.
LEMMA FreshIdsWork ==
    ASSUME NEW e, NEW n \in Nat, NEW xs \in FreshIds(e, n)
    PROVE  /\ xs \in Seq(Ids) /\ Len(xs) = n /\ Distinct(xs)
           /\ \A x \in ToSet(xs) : x \in Ids /\ e[x].kind = "free"
<1>1. xs \in [1..n -> Ids] /\ \A i \in 1..n : e[xs[i]].kind = "free"
  BY DEF FreshIds, Free, Live
<1>2. xs \in Seq(Ids) /\ Len(xs) = n
  <2>1. xs = [i \in 1..n |-> xs[i]] /\ \A i \in 1..n : xs[i] \in Ids
    BY <1>1
  <2>2. xs \in Seq(Ids)
    BY <2>1, IsASeq
  <2>. QED
    BY <1>1, <2>2, LenProperties
<1>3. Distinct(xs)
  BY <1>1 DEF FreshIds, Distinct
<1>4. \A x \in ToSet(xs) : x \in Ids /\ e[x].kind = "free"
  BY <1>1 DEF ToSet
<1>. QED
  BY <1>2, <1>3, <1>4

\* The head of distinct ids is not in their tail.
LEMMA TailOfDistinct ==
    ASSUME NEW xs \in Seq(Ids), Distinct(xs), Len(xs) >= 1
    PROVE  /\ xs[1] \in ToSet(xs)
           /\ Tail(xs) \in Seq(Ids) /\ Len(Tail(xs)) = Len(xs) - 1 /\ Distinct(Tail(xs))
           /\ ToSet(Tail(xs)) \subseteq ToSet(xs) \ {xs[1]}
<1>. DEFINE t == Tail(xs)
            n == Len(xs)
<1>1. n \in Nat /\ n >= 1 /\ DOMAIN xs = 1..n /\ xs # <<>>
  BY SeqOfIds
<1>2. t \in Seq(Ids) /\ Len(t) = n - 1 /\ \A i \in 1..(n - 1) : t[i] = xs[i + 1]
  <2>1. t \in Seq(Ids) /\ Len(t) = n - 1 /\ \A i \in 1..Len(t) : t[i] = xs[i + 1]
    BY <1>1, HeadTailProperties
  <2>. QED
    BY <2>1
<1>3. DOMAIN t = 1..(n - 1)
  BY <1>2, SeqOfIds
<1>. HIDE DEF t, n
<1>4. \A i, j \in 1..n : xs[i] = xs[j] => i = j
  BY <1>1 DEF Distinct
<1>5. Distinct(t)
  <2>. SUFFICES ASSUME NEW i \in 1..(n - 1), NEW j \in 1..(n - 1), t[i] = t[j] PROVE i = j
    BY <1>3 DEF Distinct
  <2>1. i + 1 \in 1..n /\ j + 1 \in 1..n /\ xs[i + 1] = xs[j + 1]
    BY <1>1, <1>2
  <2>2. i + 1 = j + 1
    BY <2>1, <1>4
  <2>. QED
    BY <2>2
<1>6. \A i \in 1..(n - 1) : t[i] \in ToSet(xs) /\ t[i] # xs[1]
  <2>. SUFFICES ASSUME NEW i \in 1..(n - 1) PROVE t[i] \in ToSet(xs) /\ t[i] # xs[1]
    OBVIOUS
  <2>1. i + 1 \in 1..n /\ 1 \in 1..n /\ i + 1 # 1 /\ t[i] = xs[i + 1]
    BY <1>1, <1>2
  <2>. QED
    BY <2>1, <1>1, <1>4 DEF ToSet
<1>7. xs[1] \in ToSet(xs)
  <2>1. 1 \in 1..n
    BY <1>1
  <2>. QED
    BY <2>1, <1>1 DEF ToSet
<1>. QED
  BY <1>2, <1>3, <1>5, <1>6, <1>7 DEF t, n, ToSet

\* A loadout holds no bag, and the kit starts with the only one.
LEMMA LoadoutKinds ==
    ASSUME NEW loadout \in Loadouts
    PROVE  /\ loadout \in Seq(ItemKinds) /\ Len(loadout) \in Nat
           /\ \A i \in 1..Len(loadout) : loadout[i] # "bag"
           /\ Kit(loadout) \in Seq(ItemKinds) /\ Len(Kit(loadout)) = 1 + Len(loadout)
           /\ \A i \in 1..Len(Kit(loadout)) : Kit(loadout)[i] = "bag" => i = 1
<1>. DEFINE b == <<"bag">>
            k == b \o loadout
            n == Len(loadout)
<1>1. loadout \in Seq(GearKinds)
  BY BoundAssumption
<1>2. n \in Nat /\ \A i \in 1..n : loadout[i] \in GearKinds
  BY <1>1, ElementOfSeq, LenProperties
<1>3. GearKinds \subseteq ItemKinds /\ "bag" \notin GearKinds
  BY DEF ItemKinds, GearKinds
<1>4. loadout \in Seq(ItemKinds)
  BY <1>1, <1>3, SeqMonotonic
<1>5. b \in Seq(ItemKinds) /\ Len(b) = 1
  BY DEF ItemKinds
<1>. HIDE DEF b
<1>6. /\ k \in Seq(ItemKinds) /\ Len(k) = 1 + n
      /\ \A i \in 1..(1 + n) : k[i] = IF i <= 1 THEN b[i] ELSE loadout[i - 1]
  <2>1. /\ k \in Seq(ItemKinds) /\ Len(k) = Len(b) + n
        /\ \A i \in 1..(Len(b) + n) : k[i] = IF i <= Len(b) THEN b[i] ELSE loadout[i - Len(b)]
    BY <1>4, <1>5, ConcatProperties
  <2>. HIDE DEF k, n
  <2>. QED
    BY <2>1, <1>5
<1>. HIDE DEF k, n
<1>7. ASSUME NEW i \in 1..(1 + n), i # 1 PROVE k[i] # "bag"
  <2>1. ~(i <= 1) /\ i - 1 \in 1..n
    BY <1>7, <1>2 DEF n
  <2>. QED
    BY <2>1, <1>2, <1>3, <1>6 DEF n
<1>8. Kit(loadout) = k
  BY DEF Kit, k, b
<1>. QED
  BY <1>2, <1>3, <1>4, <1>6, <1>7, <1>8 DEF n

-----------------------------------------------------------------------------
(* Bodies.                                                                  *)

\* SpawnPlayer's assignments to the client keep what is not about the registry.
LEMMA PossessesOthers ==
    ASSUME OthersInv, NEW c \in Clients, NEW x \in Ids, NEW k,
           NEW fl \in SUBSET {"dead", "watching"}, Possesses(c, x, k, fl)
    PROVE  /\ mainId' \in [Clients -> Ids \cup {NoId}]
           /\ gameId' \in [Clients -> Ids \cup {NoId}]
           /\ flags' \in [Clients -> SUBSET {"dead", "watching"}]
           /\ OwnIdsAgree'
<1>1. /\ mainId' = [mainId EXCEPT ![c] = x]
      /\ gameId' = [gameId EXCEPT ![c] = x]
      /\ flags' = [flags EXCEPT ![c] = FlagsAs(k, fl)]
  BY DEF Possesses
<1>2. FlagsAs(k, fl) \in SUBSET {"dead", "watching"}
  BY DEF FlagsAs
<1>3. /\ mainId \in [Clients -> Ids \cup {NoId}]
      /\ gameId \in [Clients -> Ids \cup {NoId}]
      /\ flags \in [Clients -> SUBSET {"dead", "watching"}]
      /\ OwnIdsAgree
  BY DEF OthersInv
<1>4. OwnIdsAgree'
  BY <1>1, <1>3 DEF OwnIdsAgree
<1>. QED
  BY <1>1, <1>2, <1>3, <1>4

\* RespawnPlayer to an actor, from a registry in which the free ids are still free.
LEMMA RespawnAsActorKeeps ==
    ASSUME OthersInv, NEW c \in Clients, NEW e, Registry(e), BagFirst(e),
           \A x \in Ids : ents[x].kind = "free" => e[x].kind = "free",
           RespawnAsActor(c, e)
    PROVE  /\ RegistryInv'
           /\ mainId' \in [Clients -> Ids \cup {NoId}]
           /\ gameId' \in [Clients -> Ids \cup {NoId}]
           /\ flags' \in [Clients -> SUBSET {"dead", "watching"}]
           /\ OwnIdsAgree'
<1>1. PICK loadout \in Loadouts : \E xs \in FreshIds(ents, 2 + Len(loadout)) :
        /\ ents' = Equipped(Created(e, xs[1], "actor", c), xs[1], Tail(xs), Kit(loadout))
        /\ Possesses(c, xs[1], "actor", flags[c])
  BY DEF RespawnAsActor
<1>2. PICK xs \in FreshIds(ents, 2 + Len(loadout)) :
        /\ ents' = Equipped(Created(e, xs[1], "actor", c), xs[1], Tail(xs), Kit(loadout))
        /\ Possesses(c, xs[1], "actor", flags[c])
  BY <1>1
<1>. DEFINE a == xs[1]
            d == Created(e, a, "actor", c)
            ys == Tail(xs)
            ks == Kit(loadout)
<1>3. /\ Len(loadout) \in Nat /\ ks \in Seq(ItemKinds) /\ Len(ks) = 1 + Len(loadout)
      /\ \A i \in 1..Len(ks) : ks[i] = "bag" => i = 1
  BY LoadoutKinds
<1>4. /\ xs \in Seq(Ids) /\ Len(xs) = 2 + Len(loadout) /\ Distinct(xs)
      /\ \A x \in ToSet(xs) : x \in Ids /\ ents[x].kind = "free"
  BY <1>3, FreshIdsWork
<1>5. /\ a \in ToSet(xs) /\ ys \in Seq(Ids) /\ Len(ys) = Len(ks) /\ Distinct(ys)
      /\ ToSet(ys) \subseteq ToSet(xs) \ {a}
  BY <1>3, <1>4, TailOfDistinct
<1>6. a \in Ids /\ e[a].kind = "free" /\ \A x \in ToSet(ys) : x \in Ids \ {a} /\ e[x].kind = "free"
  BY <1>4, <1>5
<1>7. "actor" \in BodyKinds
  BY DEF BodyKinds
<1>. HIDE DEF a, ys, ks
<1>8. /\ Registry(d) /\ BagFirst(d) /\ d[a].kind = "actor" /\ d[a].kids = <<>>
      /\ \A y \in Ids \ {a} : d[y] = e[y]
  BY <1>6, <1>7, CreatedRegistry
<1>. HIDE DEF d
<1>9. \A x \in ToSet(ys) : d[x].kind = "free"
  BY <1>6, <1>8
<1>10. Registry(Equipped(d, a, ys, ks)) /\ BagFirst(Equipped(d, a, ys, ks))
  BY <1>3, <1>5, <1>6, <1>8, <1>9, EquippedRegistry DEF ks
<1>11. ents' = Equipped(d, a, ys, ks) /\ Possesses(c, a, "actor", flags[c])
  BY <1>2 DEF d, a, ys, ks
<1>12. RegistryInv'
  BY <1>10, <1>11 DEF RegistryInv
<1>13. flags[c] \in SUBSET {"dead", "watching"}
  BY DEF OthersInv
<1>. QED
  BY <1>6, <1>11, <1>12, <1>13, PossessesOthers


\* A spectator is destroyed and replaced by an actor.
LEMMA SpectatorEntersKeeps ==
    ASSUME RegistryInv, OthersInv, NEW c \in Clients, mainId[c] # NoId, SpectatorEnters(c)
    PROVE  /\ RegistryInv'
           /\ mainId' \in [Clients -> Ids \cup {NoId}]
           /\ gameId' \in [Clients -> Ids \cup {NoId}]
           /\ flags' \in [Clients -> SUBSET {"dead", "watching"}]
           /\ OwnIdsAgree'
           /\ corpses' \in Seq(Ids)
<1>. DEFINE m == mainId[c]
            e1 == Disowned(ents, m)
            e2 == Destroyed(e1, {m})
<1>1. m \in Ids /\ ents[m].kind = "spectator"
  BY DEF OthersInv, SpectatorEnters
<1>2. RespawnAsActor(c, e2) /\ corpses' = CorpsesWithout({m})
  BY DEF SpectatorEnters
<1>3. Registry(ents) /\ BagFirst(ents)
  BY DEF RegistryInv
<1>. HIDE DEF m
<1>4. /\ Registry(e1) /\ BagFirst(e1)
      /\ \A y \in Ids : e1[y].kind = ents[y].kind /\ e1[y].kids = ents[y].kids
  BY <1>3, DisownedRegistry
<1>. HIDE DEF e1
<1>5. e1[m].kids = <<>>
  BY <1>1, <1>4, RegistryLinks
<1>6. \A x \in {m} : ToSet(e1[x].kids) \subseteq {m}
  BY <1>5, EmptyVector
<1>7. {m} \in SUBSET Ids
  BY <1>1
<1>8. /\ Registry(e2) /\ BagFirst(e2)
      /\ e2[m] = NoEntity
      /\ \A x \in Ids \ {m} : e2[x].kind = e1[x].kind
  BY <1>4, <1>6, <1>7, DestroyedRegistry
<1>9. \A x \in Ids : ents[x].kind = "free" => e2[x].kind = "free"
  BY <1>1, <1>4, <1>8
<1>. HIDE DEF e2
<1>10. corpses' \in Seq(Ids)
  BY <1>2, KeptIds DEF OthersInv, CorpsesWithout
<1>. QED
  BY <1>2, <1>8, <1>9, <1>10, RespawnAsActorKeeps

\* The client gets a spectator; the entity g it had passes to the server.
LEMMA SpectatorSpawnKeeps ==
    ASSUME RegistryInv, OthersInv, NEW c \in Clients, NEW g, NEW x \in Free(ents),
           NEW fl \in SUBSET {"dead", "watching"},
           ents' = Created(Disowned(ents, g), x, "spectator", c),
           Possesses(c, x, "spectator", fl)
    PROVE  /\ RegistryInv'
           /\ mainId' \in [Clients -> Ids \cup {NoId}]
           /\ gameId' \in [Clients -> Ids \cup {NoId}]
           /\ flags' \in [Clients -> SUBSET {"dead", "watching"}]
           /\ OwnIdsAgree'
<1>. DEFINE e == Disowned(ents, g)
<1>1. x \in Ids /\ ents[x].kind = "free"
  BY DEF Free, Live
<1>2. /\ Registry(e) /\ BagFirst(e) /\ e[x].kind = "free"
  BY <1>1, DisownedRegistry DEF RegistryInv
<1>3. "spectator" \in BodyKinds
  BY DEF BodyKinds
<1>. HIDE DEF e
<1>4. Registry(Created(e, x, "spectator", c)) /\ BagFirst(Created(e, x, "spectator", c))
  BY <1>1, <1>2, <1>3, CreatedRegistry
<1>5. RegistryInv'
  BY <1>4 DEF RegistryInv, e
<1>. QED
  BY <1>1, <1>5, PossessesOthers

\* m_CorpseList stays a vector of ids when a corpse is appended.
LEMMA AppendCorpse ==
    ASSUME OthersInv, NEW x \in Ids
    PROVE  Append(corpses, x) \in Seq(Ids)
BY AppendIds DEF OthersInv

\* m_CorpseList stays a vector of ids when entries are taken out of it.
LEMMA CorpsesWithoutType ==
    ASSUME OthersInv, NEW S
    PROVE  CorpsesWithout(S) \in Seq(Ids)
BY KeptIds DEF OthersInv, CorpsesWithout

-----------------------------------------------------------------------------
(* One lemma per action.                                                    *)

\* AttachNewClient .. OnPlayerConnect.
LEMMA ConnectKeeps ==
    ASSUME IndInv, NEW c \in Clients, Connect(c)
    PROVE  IndInv'
<1>1. RegistryInv /\ OthersInv
  BY IndInvParts
<1>2. RegistryInv'
  BY <1>1 DEF Connect, RegistryInv
<1>3. OthersInv'
  <2>1. PICK g \in FreshGameIds : gameId' = [gameId EXCEPT ![c] = g]
    BY DEF Connect
  <2>2. g \in Ids \cup {NoId}
    BY BoundAssumption
  <2>3. OwnIdsAgree'
    BY <1>1, <2>1 DEF Connect, OthersInv, OwnIdsAgree
  <2>. QED
    BY <1>1, <2>1, <2>2, <2>3 DEF Connect, Idle, roundVars, OthersInv
<1>. QED
  BY <1>2, <1>3, IndInvPartsPrime

\* OnPlayerConnectFinished: a spectator in a free slot.
LEMMA ConnectFinishedKeeps ==
    ASSUME IndInv, NEW c \in Clients, ConnectFinished(c)
    PROVE  IndInv'
<1>1. RegistryInv /\ OthersInv
  BY IndInvParts
<1>2. PICK x \in Free(ents) :
        /\ ents' = Created(ents, x, "spectator", c)
        /\ Possesses(c, x, "spectator", flags[c] \cup {"watching"})
  BY DEF ConnectFinished
<1>3. x \in Ids /\ ents[x].kind = "free" /\ "spectator" \in BodyKinds
  BY <1>2 DEF Free, Live, BodyKinds
<1>4. flags[c] \cup {"watching"} \in SUBSET {"dead", "watching"}
  BY <1>1 DEF OthersInv
<1>5. RegistryInv'
  BY <1>1, <1>2, <1>3, CreatedRegistry DEF RegistryInv
<1>6. /\ mainId' \in [Clients -> Ids \cup {NoId}]
      /\ gameId' \in [Clients -> Ids \cup {NoId}]
      /\ flags' \in [Clients -> SUBSET {"dead", "watching"}]
      /\ OwnIdsAgree'
  BY <1>1, <1>2, <1>3, <1>4, PossessesOthers
<1>7. OthersInv'
  BY <1>1, <1>6 DEF ConnectFinished, Idle, roundVars, OthersInv
<1>. QED
  BY <1>5, <1>7, IndInvPartsPrime

\* OnCL_Disconnected touches no entity.
LEMMA DisconnectKeeps ==
    ASSUME IndInv, NEW c \in Clients, Disconnect(c)
    PROVE  IndInv'
<1>1. RegistryInv /\ OthersInv
  BY IndInvParts
<1>2. RegistryInv'
  BY <1>1 DEF Disconnect, RegistryInv
<1>3. leaving' \in Seq(Ids \cup {NoId})
  BY <1>1 DEF Disconnect, OthersInv
<1>4. OthersInv'
  BY <1>1, <1>3 DEF Disconnect, Idle, roundVars, OthersInv, OwnIdsAgree
<1>. QED
  BY <1>2, <1>4, IndInvPartsPrime

\* OnPlayerDisconnect changes an owner and the list of corpses.
LEMMA PlayerDisconnectedKeeps ==
    ASSUME IndInv, PlayerDisconnected
    PROVE  IndInv'
<1>1. RegistryInv /\ OthersInv
  BY IndInvParts
<1>2. RegistryInv'
  BY <1>1, DisownedRegistry DEF PlayerDisconnected, RegistryInv
<1>3. leaving' \in Seq(Ids \cup {NoId})
  BY <1>1 DEF PlayerDisconnected, OthersInv
<1>4. corpses' \in Seq(Ids)
  BY <1>1, AppendCorpse DEF PlayerDisconnected, OthersInv, Live
<1>5. OthersInv'
  BY <1>1, <1>3, <1>4 DEF PlayerDisconnected, Idle, roundVars, clientVars, OthersInv, OwnIdsAgree
<1>. QED
  BY <1>2, <1>5, IndInvPartsPrime

\* OnPlayerReady.
LEMMA PlayerReadyKeeps ==
    ASSUME IndInv, NEW c \in Clients, PlayerReady(c)
    PROVE  IndInv'
<1>1. RegistryInv /\ OthersInv
  BY IndInvParts
<1>2. mainId[c] # NoId /\ mainId[c] \in Ids
  BY <1>1 DEF PlayerReady, MayRespawn, OthersInv
<1>3. /\ RegistryInv'
      /\ mainId' \in [Clients -> Ids \cup {NoId}]
      /\ gameId' \in [Clients -> Ids \cup {NoId}]
      /\ flags' \in [Clients -> SUBSET {"dead", "watching"}]
      /\ OwnIdsAgree'
      /\ corpses' \in Seq(Ids)
  <2>1. CASE SpectatorEnters(c)
    BY <2>1, <1>1, <1>2, SpectatorEntersKeeps
  <2>2. ASSUME NEW x \in Free(ents),
               ents' = Created(Disowned(ents, gameId[c]), x, "spectator", c),
               Possesses(c, x, "spectator", flags[c]),
               corpses' = Append(corpses, mainId[c])
        PROVE  /\ RegistryInv'
               /\ mainId' \in [Clients -> Ids \cup {NoId}]
               /\ gameId' \in [Clients -> Ids \cup {NoId}]
               /\ flags' \in [Clients -> SUBSET {"dead", "watching"}]
               /\ OwnIdsAgree'
               /\ corpses' \in Seq(Ids)
    <3>1. flags[c] \in SUBSET {"dead", "watching"}
      BY <1>1 DEF OthersInv
    <3>. QED
      BY <2>2, <3>1, <1>1, <1>2, SpectatorSpawnKeeps, AppendCorpse
  <2>. QED
    BY <2>1, <2>2 DEF PlayerReady
<1>4. OthersInv'
  BY <1>1, <1>3 DEF PlayerReady, MayRespawn, Idle, roundVars, OthersInv
<1>. QED
  BY <1>3, <1>4, IndInvPartsPrime

\* check_ForceRespawn: the old body changes owner twice at most.
LEMMA ForceRespawnKeeps ==
    ASSUME IndInv, NEW c \in Clients, ForceRespawn(c)
    PROVE  IndInv'
<1>1. RegistryInv /\ OthersInv
  BY IndInvParts
<1>2. mainId[c] # NoId /\ mainId[c] \in Ids
  BY <1>1 DEF ForceRespawn, MayRespawn, OthersInv
<1>3. /\ RegistryInv'
      /\ mainId' \in [Clients -> Ids \cup {NoId}]
      /\ gameId' \in [Clients -> Ids \cup {NoId}]
      /\ flags' \in [Clients -> SUBSET {"dead", "watching"}]
      /\ OwnIdsAgree'
      /\ corpses' \in Seq(Ids)
  <2>1. CASE SpectatorEnters(c)
    BY <2>1, <1>1, <1>2, SpectatorEntersKeeps
  <2>2. CASE /\ RespawnAsActor(c, Disowned(Disowned(ents, gameId[c]), mainId[c]))
             /\ corpses' = Append(corpses, mainId[c])
    <3>. DEFINE e1 == Disowned(ents, gameId[c])
                e2 == Disowned(e1, mainId[c])
    <3>1. Registry(e1) /\ BagFirst(e1) /\ \A y \in Ids : e1[y].kind = ents[y].kind
      BY <1>1, DisownedRegistry DEF RegistryInv
    <3>2. Registry(e2) /\ BagFirst(e2) /\ \A y \in Ids : e2[y].kind = e1[y].kind
      <4>. HIDE DEF e1
      <4>. QED  BY <3>1, DisownedRegistry
    <3>. HIDE DEF e1
    <3>3. \A y \in Ids : ents[y].kind = "free" => e2[y].kind = "free"
      BY <3>1, <3>2
    <3>4. RespawnAsActor(c, e2)
      BY <2>2 DEF e1
    <3>. HIDE DEF e2
    <3>. QED
      BY <2>2, <3>2, <3>3, <3>4, <1>1, <1>2, RespawnAsActorKeeps, AppendCorpse
  <2>. QED
    BY <2>1, <2>2 DEF ForceRespawn
<1>4. OthersInv'
  BY <1>1, <1>3 DEF ForceRespawn, MayRespawn, Idle, roundVars, OthersInv
<1>. QED
  BY <1>3, <1>4, IndInvPartsPrime

\* OnPlayerSelectSpectator: the body is left to the server.
LEMMA SelectSpectatorKeeps ==
    ASSUME IndInv, NEW c \in Clients, SelectSpectator(c)
    PROVE  IndInv'
<1>1. RegistryInv /\ OthersInv
  BY IndInvParts
<1>. DEFINE fl == Killed(c) \cup {"watching"}
<1>2. fl \in SUBSET {"dead", "watching"}
  BY <1>1 DEF Killed, OthersInv
<1>3. /\ RegistryInv'
      /\ mainId' \in [Clients -> Ids \cup {NoId}]
      /\ gameId' \in [Clients -> Ids \cup {NoId}]
      /\ flags' \in [Clients -> SUBSET {"dead", "watching"}]
      /\ OwnIdsAgree'
      /\ corpses' \in Seq(Ids)
  <2>1. ASSUME IsActor(mainId[c]),
               NEW x \in Free(ents),
               ents' = Created(Disowned(ents, gameId[c]), x, "spectator", c),
               Possesses(c, x, "spectator", fl),
               corpses' = Append(corpses, gameId[c])
        PROVE  /\ RegistryInv'
               /\ mainId' \in [Clients -> Ids \cup {NoId}]
               /\ gameId' \in [Clients -> Ids \cup {NoId}]
               /\ flags' \in [Clients -> SUBSET {"dead", "watching"}]
               /\ OwnIdsAgree'
               /\ corpses' \in Seq(Ids)
    <3>1. mainId[c] # NoId /\ gameId[c] \in Ids
      BY <2>1, <1>1, SentinelAssumption DEF IsActor, OthersInv, OwnIdsAgree
    <3>. HIDE DEF fl
    <3>. QED
      BY <2>1, <3>1, <1>1, <1>2, SpectatorSpawnKeeps, AppendCorpse
  <2>2. CASE /\ flags' = [flags EXCEPT ![c] = fl]
             /\ UNCHANGED <<ents, mainId, gameId, corpses>>
    BY <2>2, <1>1, <1>2 DEF RegistryInv, OthersInv, OwnIdsAgree
  <2>. QED
    BY <2>1, <2>2 DEF SelectSpectator
<1>4. OthersInv'
  BY <1>1, <1>3 DEF SelectSpectator, Idle, roundVars, OthersInv
<1>. QED
  BY <1>3, <1>4, IndInvPartsPrime

\* The actions that change flags only.
LEMMA FlagsStepKeeps ==
    ASSUME IndInv, NEW c \in Clients, ChangeTeam(c) \/ ChangeSkin(c) \/ PlayerKilled(c)
    PROVE  IndInv'
<1>1. RegistryInv /\ OthersInv
  BY IndInvParts
<1>2. flags' \in [Clients -> SUBSET {"dead", "watching"}]
  BY <1>1 DEF ChangeTeam, ChangeSkin, PlayerKilled, Killed, OthersInv
<1>3. UNCHANGED <<ents, status, mainId, gameId, corpses, leaving, phase, ignored, sweep>>
  BY DEF ChangeTeam, ChangeSkin, PlayerKilled, Idle, roundVars
<1>4. RegistryInv'
  BY <1>1, <1>3 DEF RegistryInv
<1>5. OthersInv'
  BY <1>1, <1>2, <1>3 DEF OthersInv, OwnIdsAgree
<1>. QED
  BY <1>4, <1>5, IndInvPartsPrime

\* GAME_EVENT_PLAYER_STARTED.
LEMMA PlayerStartedKeeps ==
    ASSUME IndInv, NEW c \in Clients, PlayerStarted(c)
    PROVE  IndInv'
<1>1. RegistryInv /\ OthersInv
  BY IndInvParts
<1>2. RegistryInv' /\ OthersInv'
  BY <1>1 DEF PlayerStarted, Idle, clientVars, RegistryInv, OthersInv, OwnIdsAgree
<1>. QED
  BY <1>2, IndInvPartsPrime

\* A body that dies keeps its place in the forest.
LEMMA BodyDiesKeeps ==
    ASSUME IndInv, NEW x \in Ids, BodyDies(x)
    PROVE  IndInv'
<1>1. RegistryInv /\ OthersInv
  BY IndInvParts
<1>2. ents' = [ents EXCEPT ![x].alive = FALSE] /\ ents[x].kind = "actor"
  BY DEF BodyDies, IsActor
<1>3. ents \in [Ids -> Entity]
  BY <1>1 DEF RegistryInv, Registry
<1>4. ents' \in [Ids -> Entity]
  BY <1>2, <1>3 DEF Entity
<1>5. \A y \in Ids : /\ ents'[y].kind = ents[y].kind
                     /\ ents'[y].parent = ents[y].parent
                     /\ ents'[y].kids = ents[y].kids
  BY <1>2, <1>3 DEF Entity
<1>6. \A y \in Ids : ents'[y].kind = "free" => ents'[y] = NoEntity
  BY <1>1, <1>2, <1>3, <1>5 DEF RegistryInv, Registry, FreeIsEmpty
<1>7. Registry(ents)
  BY <1>1 DEF RegistryInv
<1>8. Registry(ents')
  <2>1. FreeIsEmpty(ents')
    BY <1>6 DEF FreeIsEmpty
  <2>2. \A y \in Ids : ents'[y].parent # NoId =>
          /\ ents'[y].parent \in Ids
          /\ ents'[ents'[y].parent].kind # "free"
          /\ y \in ToSet(ents'[ents'[y].parent].kids)
    BY <1>5, <1>7, RegistryLinks
  <2>3. KindsFit(ents')
    BY <1>5, <1>7, <2>2 DEF KindsFit, Registry
  <2>4. /\ \A y \in Ids : \A z \in ToSet(ents'[y].kids) : ents'[z].parent = y
        /\ \A y \in Ids : Distinct(ents'[y].kids)
    BY <1>5, <1>7, RegistryLinks
  <2>. QED
    BY <1>4, <2>1, <2>2, <2>3, <2>4, RegistryIntro
<1>9. BagFirst(ents')
  <2>1. \A y \in Ids : ents[y].parent # NoId => ents[y].parent \in Ids
    BY <1>7, RegistryLinks
  <2>. QED
    BY <1>1, <1>5, <2>1 DEF RegistryInv, BagFirst
<1>10. OthersInv'
  BY <1>1 DEF BodyDies, Idle, roundVars, clientVars, OthersInv, OwnIdsAgree
<1>. QED
  BY <1>8, <1>9, <1>10, IndInvPartsPrime DEF RegistryInv


\* Reversing a vector of ids.
LEMMA ReverseIds ==
    ASSUME NEW s \in Seq(Ids)
    PROVE  /\ Reverse(s) \in Seq(Ids)
           /\ ToSet(Reverse(s)) = ToSet(s)
           /\ Distinct(s) => Distinct(Reverse(s))
<1>. DEFINE n == Len(s)
            r == [i \in 1..n |-> s[(n - i) + 1]]
<1>1. n \in Nat /\ DOMAIN s = 1..n /\ \A i \in 1..n : s[i] \in Ids
  BY SeqOfIds
<1>2. Reverse(s) = r
  BY DEF Reverse
<1>. HIDE DEF n
<1>3. \A i \in 1..n : (n - i) + 1 \in 1..n /\ (n - ((n - i) + 1)) + 1 = i
  BY <1>1
<1>4. r \in Seq(Ids)
  <2>1. \A i \in 1..n : s[(n - i) + 1] \in Ids
    BY <1>1, <1>3
  <2>. QED
    BY <2>1, <1>1, IsASeq
<1>5. ToSet(r) = ToSet(s)
  <2>1. ASSUME NEW i \in 1..n PROVE r[i] \in ToSet(s)
    BY <1>1, <1>3 DEF ToSet
  <2>2. ASSUME NEW i \in 1..n PROVE s[i] \in ToSet(r)
    <3>1. (n - i) + 1 \in 1..n /\ r[(n - i) + 1] = s[i]
      BY <1>3
    <3>. QED
      BY <3>1 DEF ToSet
  <2>. QED
    BY <2>1, <2>2, <1>1 DEF ToSet
<1>6. Distinct(s) => Distinct(r)
  <2>. SUFFICES ASSUME Distinct(s), NEW i \in 1..n, NEW j \in 1..n, r[i] = r[j] PROVE i = j
    BY DEF Distinct
  <2>1. (n - i) + 1 \in 1..n /\ (n - j) + 1 \in 1..n /\ s[(n - i) + 1] = s[(n - j) + 1]
    BY <1>3
  <2>2. (n - i) + 1 = (n - j) + 1
    BY <2>1, <1>1 DEF Distinct
  <2>. QED
    BY <2>2, <1>1
<1>. QED
  BY <1>2, <1>4, <1>5, <1>6

\* A bag on the ground is opened: its contents first, then the bag itself.
LEMMA BagOpenedKeeps ==
    ASSUME RegistryInv, NEW a \in Ids, ents[a].kind = "actor",
           NEW b \in Ids, ents[b].kind = "bag", ents[b].parent = NoId
    PROVE  Registry(BagOpened(a, b)) /\ BagFirst(BagOpened(a, b))
<1>. DEFINE xs == Reverse(ents[b].kids)
            e == Moved(ents, xs, b, a)
<1>1. Registry(ents) /\ BagFirst(ents) /\ a # b
  BY DEF RegistryInv
<1>2. ents[b].kids \in Seq(Ids) /\ Distinct(ents[b].kids) /\ ents[a].kids \in Seq(Ids)
  BY <1>1, RegistryFields, RegistryLinks
<1>3. xs \in Seq(Ids) /\ Distinct(xs) /\ ToSet(xs) = ToSet(ents[b].kids)
  BY <1>2, ReverseIds
<1>4. a \notin ToSet(xs)
  <2>1. ents[a].parent = NoId /\ b # NoId
    BY <1>1, RegistryLinks, SentinelAssumption DEF BodyKinds
  <2>. QED
    BY <2>1, <1>1, <1>3, RegistryLinks
<1>5. \A x \in ToSet(xs) : x \in Ids /\ ents[x].kind # "bag"
  BY <1>1, <1>3, RegistryLinks, SentinelAssumption DEF Registry, KindsFit
<1>. HIDE DEF xs
<1>6. /\ Registry(e)
      /\ \A x \in Ids : e[x].kind = ents[x].kind
      /\ e[b].kids = Kept(ents[b].kids, Ids \ ToSet(xs))
      /\ e[a].kids = ents[a].kids \o xs
      /\ \A x \in Ids \ {a, b} : e[x].kids = ents[x].kids
      /\ \A x \in Ids \ ToSet(xs) : e[x].parent = ents[x].parent
  <2>1. ToSet(xs) \subseteq ToSet(ents[b].kids) /\ b # a
    BY <1>1, <1>3
  <2>. QED
    <3>1. /\ Registry(ents) /\ b \in Ids /\ a \in Ids /\ b # a /\ xs \in Seq(Ids) /\ Distinct(xs)
          /\ ToSet(xs) \subseteq ToSet(ents[b].kids)
          /\ ents[a].kind = "actor" /\ a \notin ToSet(xs)
      BY <2>1, <1>1, <1>3, <1>4
    <3>2. Registry(Moved(ents, xs, b, a))
      BY <3>1, MovedRegistry
    <3>7. ents \in [Ids -> Entity] /\ b # a
      BY <3>1 DEF Registry
    <3>3. \A x \in Ids : Moved(ents, xs, b, a)[x].kind = ents[x].kind
      BY <3>7 DEF Moved, Entity
    <3>4. /\ Moved(ents, xs, b, a)[b].kids = Kept(ents[b].kids, Ids \ ToSet(xs))
          /\ Moved(ents, xs, b, a)[a].kids = ents[a].kids \o xs
      BY <3>7 DEF Moved, Entity
    <3>5. \A x \in Ids \ {a, b} : Moved(ents, xs, b, a)[x].kids = ents[x].kids
      BY <3>7 DEF Moved, Entity
    <3>6. \A x \in Ids \ ToSet(xs) : Moved(ents, xs, b, a)[x].parent = ents[x].parent
      BY <3>7 DEF Moved, Entity
    <3>. QED
      BY <3>2, <3>3, <3>4, <3>5, <3>6
<1>. HIDE DEF e
<1>7. ToSet(e[b].kids) = {}
  BY <1>2, <1>3, <1>6, KeptIds
<1>8. BagFirst(e)
  <2>. SUFFICES ASSUME NEW x \in Ids, e[x].kind = "bag", e[x].parent # NoId
                PROVE  /\ e[x].kids = <<>>
                       /\ e[e[x].parent].kind = "actor"
                       /\ e[e[x].parent].kids[1] = x
    BY DEF BagFirst
  <2>. DEFINE p == ents[x].parent
  <2>1. x \notin ToSet(xs) /\ ents[x].kind = "bag" /\ e[x].parent = p /\ x # b /\ x # a
    BY <1>5, <1>6
  <2>2. ents[x].kids = <<>> /\ ents[p].kind = "actor" /\ ents[p].kids[1] = x
    BY <2>1, <1>1 DEF BagFirst
  <2>3. p \in Ids /\ x \in ToSet(ents[p].kids) /\ p # b
    BY <2>1, <2>2, <1>1, RegistryLinks
  <2>. HIDE DEF p
  <2>4. e[p].kids[1] = x
    <3>1. ents[p].kids # <<>>
      BY <2>3, EmptyVector
    <3>2. CASE p = a
      BY <3>1, <3>2, <2>2, <1>2, <1>3, <1>6, ConcatIds
    <3>3. CASE p # a
      BY <3>3, <2>2, <2>3, <1>6
    <3>. QED
      BY <3>2, <3>3
  <2>. QED
    BY <2>1, <2>2, <2>3, <2>4, <1>6
<1>9. \A x \in {b} : ToSet(e[x].kids) \subseteq {b}
  BY <1>7
<1>10. Registry(Destroyed(e, {b})) /\ BagFirst(Destroyed(e, {b}))
  BY <1>6, <1>8, <1>9, DestroyedRegistry
<1>. QED
  BY <1>10 DEF BagOpened, e, xs

\* GE_OWNERSHIP_TAKE.
LEMMA TakeItemKeeps ==
    ASSUME IndInv, NEW s, NEW a \in Ids, NEW x \in Ids, TakeItem(s, a, x)
    PROVE  IndInv'
<1>1. RegistryInv /\ OthersInv /\ Registry(ents) /\ BagFirst(ents)
  BY IndInvParts DEF RegistryInv
<1>2. ents[a].kind = "actor" /\ ents[x].kind \in ItemKinds /\ ents[x].parent = NoId
  BY DEF TakeItem, IsActor
<1>3. RegistryInv' /\ corpses' \in Seq(Ids)
  <2>1. CASE ents[x].kind = "bag" /\ ents' = BagOpened(a, x) /\ corpses' = CorpsesWithout({x})
    BY <2>1, <1>1, <1>2, BagOpenedKeeps, CorpsesWithoutType DEF RegistryInv
  <2>2. CASE ents[x].kind # "bag" /\ ents' = Taken(ents, a, x) /\ UNCHANGED corpses
    <3>1. ents[x].kind \in GearKinds
      BY <2>2, <1>2 DEF ItemKinds
    <3>2. Registry(Taken(ents, a, x)) /\ BagFirst(Taken(ents, a, x))
      BY <3>1, <1>1, <1>2, TakenRegistry
    <3>. QED
      BY <3>2, <2>2, <1>1 DEF RegistryInv, OthersInv
  <2>. QED
    BY <2>1, <2>2 DEF TakeItem
<1>4. OthersInv'
  BY <1>1, <1>3 DEF TakeItem, Idle, roundVars, clientVars, OthersInv, OwnIdsAgree
<1>. QED
  BY <1>3, <1>4, IndInvPartsPrime

\* The dropped bag: its position was found before OnDetachItem took other
\* children out of the vector, and still names it when it is erased.
LEMMA BagDroppedKeeps ==
    ASSUME RegistryInv, NEW a \in Ids, ents[a].kind = "actor",
           NEW b \in ToSet(ents[a].kids), ents[b].kind = "bag",
           NEW inHands, NEW rejected \in SUBSET Transferable(a, {}), rejected \subseteq inHands
    PROVE  Registry(BagDropped(a, b, inHands, rejected)) /\ BagFirst(BagDropped(a, b, inHands, rejected))
<1>. DEFINE kids == ents[a].kids
            T == Transferable(a, inHands)
            K == Knives(a)
            xs == Kept(kids, T)
            e1 == Moved(ents, xs, a, b)
            e2 == Destroyed(e1, K)
            e3 == Released(e2, a, rejected)
            c == Position(kids, b)
            d == Unlinked(e3, a, b, c)
<1>1. Registry(ents) /\ BagFirst(ents) /\ kids \in Seq(Ids) /\ Distinct(kids) /\ a # b
  BY RegistryFields, RegistryLinks DEF RegistryInv
<1>2. b \in Ids /\ ents[b].parent = a /\ a # NoId
  BY <1>1, RegistryLinks, SentinelAssumption
<1>3. kids[1] = b /\ ents[b].kids = <<>> /\ kids # <<>>
  BY <1>1, <1>2, EmptyVector DEF BagFirst
<1>4. c = 1
  <2>1. c \in DOMAIN kids /\ kids[c] = b
    BY PositionOf
  <2>2. 1 \in DOMAIN kids
    BY <1>1, <1>3, SeqOfIds
  <2>. QED
    BY <2>1, <2>2, <1>1, <1>3 DEF Distinct
<1>5. /\ T \subseteq ToSet(kids) /\ K \subseteq ToSet(kids) /\ rejected \subseteq ToSet(kids)
      /\ \A x \in T : ents[x].kind = "weapon" /\ x \notin rejected
      /\ \A x \in K : ents[x].kind = "knife"
      /\ \A x \in rejected : ents[x].kind = "weapon"
  BY DEF Transferable, Knives
<1>6. ToSet(kids) \subseteq Ids /\ \A x \in ToSet(kids) : ents[x].parent = a
  BY <1>1, SeqOfIds, RegistryLinks
<1>7. a \notin ToSet(kids)
  <2>1. ents[a].parent = NoId
    BY <1>1, RegistryLinks DEF BodyKinds
  <2>. QED
    BY <2>1, <1>2, <1>6
<1>. HIDE DEF kids, T, K, c
<1>8. xs \in Seq(Ids) /\ Distinct(xs) /\ ToSet(xs) = T
  <2>1. kids \in Seq(Ids) /\ Distinct(kids)
    BY <1>1 DEF kids
  <2>2. xs \in Seq(Ids) /\ ToSet(xs) = ToSet(kids) \cap T /\ Distinct(xs)
    BY <2>1, KeptIds
  <2>. QED
    BY <2>2, <1>5
<1>. HIDE DEF xs
<1>9. /\ Registry(e1)
      /\ \A x \in Ids : e1[x].kind = ents[x].kind
      /\ e1[a].kids = Kept(kids, Ids \ T)
      /\ \A x \in Ids \ {a, b} : e1[x].kids = ents[x].kids
      /\ \A x \in Ids \ T : e1[x].parent = ents[x].parent
  <2>1. /\ Registry(ents) /\ a \in Ids /\ b \in Ids /\ a # b /\ xs \in Seq(Ids) /\ Distinct(xs)
        /\ ToSet(xs) \subseteq ToSet(ents[a].kids)
        /\ ents[b].kind = "bag" /\ \A x \in ToSet(xs) : ents[x].kind # "bag"
        /\ b \notin ToSet(xs)
    BY <1>1, <1>2, <1>5, <1>8 DEF kids
  <2>2. Registry(Moved(ents, xs, a, b))
    BY <2>1, MovedRegistry
  <2>8. ents \in [Ids -> Entity] /\ a # b /\ a \in Ids /\ b \in Ids
    BY <2>1 DEF Registry
  <2>3. \A x \in Ids : Moved(ents, xs, a, b)[x].kind = ents[x].kind
    BY <2>8 DEF Moved, Entity
  <2>4. Moved(ents, xs, a, b)[a].kids = Kept(ents[a].kids, Ids \ ToSet(xs))
    BY <2>8 DEF Moved, Entity
  <2>5. \A x \in Ids \ {a, b} : Moved(ents, xs, a, b)[x].kids = ents[x].kids
    BY <2>8 DEF Moved, Entity
  <2>6. \A x \in Ids \ ToSet(xs) : Moved(ents, xs, a, b)[x].parent = ents[x].parent
    BY <2>8 DEF Moved, Entity
  <2>7. kids = ents[a].kids
    BY DEF kids
  <2>. QED
    BY <2>2, <2>3, <2>4, <2>5, <2>6, <2>7, <1>8
<1>. HIDE DEF e1
<1>10. b \in Ids \ T /\ b \notin K /\ b \notin rejected
  BY <1>2, <1>5
<1>11. /\ e1[a].kids \in Seq(Ids) /\ ToSet(e1[a].kids) = ToSet(kids) \cap (Ids \ T)
       /\ e1[a].kids # <<>> /\ e1[a].kids[1] = b
  <2>1. kids \in Seq(Ids) /\ kids # <<>> /\ kids[1] = b /\ b \in Ids \ T
    BY <1>1, <1>3, <1>10 DEF kids
  <2>2. e1[a].kids = Kept(kids, Ids \ T)
    BY <1>9
  <2>. QED
    BY <2>1, <2>2, KeptIds
<1>12. \A x \in K : e1[x].kids = <<>> /\ x \in Ids
  <2>1. \A x \in K : x \in Ids /\ e1[x].kind = "knife"
    BY <1>5, <1>6, <1>9
  <2>. QED
    BY <2>1, <1>9, RegistryLinks
<1>13. /\ Registry(e2)
       /\ \A x \in K : e2[x] = NoEntity
       /\ \A x \in Ids \ K : /\ e2[x].kind = e1[x].kind
                             /\ e2[x].parent = e1[x].parent
                             /\ e2[x].kids = Kept(e1[x].kids, Ids \ K)
  <2>1. /\ Registry(e1) /\ K \in SUBSET Ids
        /\ \A x \in K : ToSet(e1[x].kids) \subseteq K
    BY <1>9, <1>12, EmptyVector
  <2>2. Registry(Destroyed(e1, K))
    BY <2>1, DestroyedRegistry
  <2>3. \A x \in K : Destroyed(e1, K)[x] = NoEntity
    BY <2>1, DestroyedRegistry
  <2>4. \A x \in Ids \ K : /\ Destroyed(e1, K)[x].kind = e1[x].kind
                           /\ Destroyed(e1, K)[x].parent = e1[x].parent
                           /\ Destroyed(e1, K)[x].kids = Kept(e1[x].kids, Ids \ K)
    BY <2>1, DestroyedRegistry
  <2>. QED
    BY <2>2, <2>3, <2>4
<1>. HIDE DEF e2
<1>14. a \in Ids \ K /\ b \in Ids \ K
  BY <1>5, <1>7, <1>10, <1>2
<1>15. /\ e2[a].kids \in Seq(Ids)
       /\ ToSet(e2[a].kids) = (ToSet(kids) \cap (Ids \ T)) \cap (Ids \ K)
       /\ e2[a].kids # <<>> /\ e2[a].kids[1] = b
  <2>1. e1[a].kids \in Seq(Ids) /\ e1[a].kids # <<>> /\ e1[a].kids[1] \in Ids \ K
    BY <1>11, <1>14
  <2>2. e2[a].kids = Kept(e1[a].kids, Ids \ K)
    BY <1>13, <1>14
  <2>3. /\ e2[a].kids \in Seq(Ids) /\ ToSet(e2[a].kids) = ToSet(e1[a].kids) \cap (Ids \ K)
        /\ e2[a].kids # <<>> /\ e2[a].kids[1] = e1[a].kids[1]
    BY <2>1, <2>2, KeptIds
  <2>. QED
    BY <2>3, <1>11
<1>16. rejected \subseteq ToSet(e2[a].kids) /\ a \notin rejected /\ rejected \in SUBSET Ids
  <2>1. \A x \in rejected : x \in Ids /\ x \notin T /\ x \notin K /\ x \in ToSet(kids)
    BY <1>5, <1>6
  <2>. QED
    BY <2>1, <1>7, <1>15
<1>17. /\ Registry(e3)
       /\ \A x \in Ids : e3[x].kind = e2[x].kind
       /\ e3[a].kids = Kept(e2[a].kids, Ids \ rejected)
       /\ \A x \in Ids \ {a} : e3[x].kids = e2[x].kids
       /\ \A x \in rejected : e3[x].parent = NoId
       /\ \A x \in Ids \ rejected : e3[x].parent = e2[x].parent
  <2>1. Registry(e2) /\ rejected \in SUBSET Ids /\ rejected \subseteq ToSet(e2[a].kids)
        /\ a \notin rejected
    BY <1>13, <1>16
  <2>. QED
    BY <2>1, ReleasedRegistry, ZenonT(40)
<1>. HIDE DEF e3
<1>18. e3[a].kids \in Seq(Ids) /\ e3[a].kids # <<>> /\ e3[a].kids[1] = b
  <2>1. e2[a].kids \in Seq(Ids) /\ e2[a].kids # <<>> /\ e2[a].kids[1] \in Ids \ rejected
    BY <1>2, <1>10, <1>15
  <2>2. e3[a].kids = Kept(e2[a].kids, Ids \ rejected)
    BY <1>17
  <2>3. e3[a].kids \in Seq(Ids) /\ e3[a].kids # <<>> /\ e3[a].kids[1] = e2[a].kids[1]
    BY <2>1, <2>2, KeptIds
  <2>. QED
    BY <2>3, <1>15
<1>19. c \in 1..Len(e3[a].kids) /\ b = e3[a].kids[c]
  BY <1>4, <1>18, SeqOfIds
<1>20. /\ Registry(d)
       /\ \A x \in Ids : d[x].kind = e3[x].kind
       /\ \A x \in Ids \ {a} : d[x].kids = e3[x].kids
       /\ d[b].parent = NoId
       /\ \A x \in Ids \ {b} : d[x].parent = e3[x].parent
  <2>1. /\ Registry(e3) /\ a \in Ids /\ c \in 1..Len(e3[a].kids)
        /\ b = e3[a].kids[c] /\ b # a
    BY <1>1, <1>17, <1>19
  <2>. QED
    BY <2>1, UnlinkedRegistry
<1>. HIDE DEF d
<1>21. BagFirst(d)
  <2>. SUFFICES ASSUME NEW x \in Ids, d[x].kind = "bag", d[x].parent # NoId
                PROVE  /\ d[x].kids = <<>>
                       /\ d[d[x].parent].kind = "actor"
                       /\ d[d[x].parent].kids[1] = x
    BY DEF BagFirst
  <2>. DEFINE p == ents[x].parent
  <2>1. x # b /\ d[x].parent = e3[x].parent /\ e3[x].kind = "bag"
    BY <1>20
  <2>2. x \notin rejected /\ x \notin K
    BY <2>1, <1>13, <1>17, SentinelAssumption DEF NoEntity
  <2>3. e1[x].kind = "bag" /\ ents[x].kind = "bag" /\ x \notin T
    BY <2>1, <2>2, <1>5, <1>9, <1>13, <1>17
  <2>4. d[x].parent = p /\ p # NoId
    BY <2>1, <2>2, <2>3, <1>9, <1>13, <1>17
  <2>5. ents[x].kids = <<>> /\ ents[p].kind = "actor" /\ ents[p].kids[1] = x
    BY <2>3, <2>4, <1>1 DEF BagFirst
  <2>6. p \in Ids /\ x \in ToSet(ents[p].kids) /\ p # a /\ x # a /\ p # b
    BY <2>1, <2>4, <2>5, <2>3, <1>1, <1>3, RegistryLinks DEF kids
  <2>. HIDE DEF p
  <2>7. p \notin K
    BY <2>5, <1>5
  <2>8. d[x].kids = <<>>
    BY <2>1, <2>2, <2>5, <2>6, <1>9, <1>13, <1>17, <1>20, EmptyVector
  <2>9. d[p].kind = "actor"
    BY <2>5, <2>6, <2>7, <1>9, <1>13, <1>17, <1>20
  <2>10. d[p].kids = Kept(ents[p].kids, Ids \ K)
    <3>1. e1[p].kids = ents[p].kids /\ d[p].kids = e3[p].kids /\ e3[p].kids = e2[p].kids
      BY <2>6, <1>9, <1>17, <1>20
    <3>2. e2[p].kids = Kept(e1[p].kids, Ids \ K)
      BY <2>6, <2>7, <1>13
    <3>. QED
      BY <3>1, <3>2
  <2>11. d[p].kids[1] = x
    <3>1. ents[p].kids \in Seq(Ids) /\ ents[p].kids # <<>> /\ ents[p].kids[1] \in Ids \ K
      BY <2>2, <2>5, <2>6, <1>1, RegistryFields, EmptyVector
    <3>. DEFINE q == ents[p].kids
    <3>2. q \in Seq(Ids) /\ q # <<>> /\ q[1] \in Ids \ K
      BY <3>1
    <3>. HIDE DEF q
    <3>3. Kept(q, Ids \ K)[1] = q[1]
      BY <3>2, KeptIds
    <3>. QED
      BY <3>3, <2>5, <2>10 DEF q
  <2>. QED
    BY <2>4, <2>8, <2>9, <2>11
<1>22. BagDropped(a, b, inHands, rejected) = d
  BY DEF BagDropped, d, e3, e2, e1, xs, c, K, T, kids
<1>. QED
  BY <1>20, <1>21, <1>22

\* An item other than a bag leaves its holder.
LEMMA ItemReleasedKeeps ==
    ASSUME RegistryInv, NEW a \in Ids, ents[a].kind = "actor",
           NEW x \in ToSet(ents[a].kids), ents[x].kind # "bag"
    PROVE  LET i == Position(ents[a].kids, x)
           IN  Registry(Unlinked(ents, a, x, i)) /\ BagFirst(Unlinked(ents, a, x, i))
<1>. DEFINE kids == ents[a].kids
            i == Position(kids, x)
            d == Unlinked(ents, a, x, i)
<1>1. Registry(ents) /\ BagFirst(ents) /\ kids \in Seq(Ids)
  BY RegistryFields DEF RegistryInv
<1>2. i \in 1..Len(kids) /\ kids[i] = x /\ x \in Ids
  BY <1>1, PositionOf, SeqOfIds
<1>3. x # a
  BY <1>1, RegistryLinks, SentinelAssumption DEF BodyKinds
<1>. HIDE DEF i
<1>4. Registry(d)
  BY <1>1, <1>2, <1>3, UnlinkedRegistry
<1>5. ents \in [Ids -> Entity]
  BY <1>1 DEF Registry
<1>6. /\ \A y \in Ids : d[y].kind = ents[y].kind
      /\ d[a].kids = RemoveAt(kids, i)
      /\ \A y \in Ids \ {a} : d[y].kids = ents[y].kids
      /\ d[x].parent = NoId
      /\ \A y \in Ids \ {x} : d[y].parent = ents[y].parent
  <2>1. /\ Registry(ents) /\ a \in Ids /\ i \in 1..Len(ents[a].kids)
        /\ x = ents[a].kids[i] /\ x # a
    BY <1>1, <1>2, <1>3
  <2>2. d[a].kids = RemoveAt(kids, i)
    <3>1. \A r : [ents EXCEPT ![x].parent = NoId, ![a].kids = r][a].kids = r
      BY <1>2, <1>3, <1>5 DEF Entity
    <3>. QED  BY <3>1 DEF Unlinked
  <2>. QED  BY <2>1, <2>2, UnlinkedRegistry
<1>. HIDE DEF d
<1>7. BagFirst(d)
  <2>. SUFFICES ASSUME NEW y \in Ids, d[y].kind = "bag", d[y].parent # NoId
                PROVE  /\ d[y].kids = <<>>
                       /\ d[d[y].parent].kind = "actor"
                       /\ d[d[y].parent].kids[1] = y
    BY DEF BagFirst
  <2>. DEFINE p == ents[y].parent
  <2>1. ents[y].kind = "bag" /\ y # x /\ d[y].parent = p /\ p # NoId
    BY <1>6
  <2>2. ents[y].kids = <<>> /\ ents[p].kind = "actor" /\ ents[p].kids[1] = y
    BY <2>1, <1>1 DEF BagFirst
  <2>3. p \in Ids /\ y # a
    BY <2>1, <1>1, RegistryLinks
  <2>. HIDE DEF p
  <2>4. d[p].kids[1] = y
    <3>1. CASE p = a
      <4>1. i # 1
        BY <3>1, <2>1, <2>2, <1>2
      <4>2. RemoveAt(kids, i)[1] = kids[1]
        BY <4>1, <1>1, <1>2, RemoveAtIds
      <4>. QED
        BY <4>2, <3>1, <2>2, <1>6
    <3>2. CASE p # a
      BY <3>2, <2>2, <2>3, <1>6
    <3>. QED
      BY <3>1, <3>2
  <2>. QED
    BY <2>1, <2>2, <2>3, <2>4, <1>6
<1>. QED
  BY <1>4, <1>7 DEF d, i

\* GE_OWNERSHIP_REJECT.
LEMMA RejectItemKeeps ==
    ASSUME IndInv, NEW a \in Ids, NEW x \in Ids, RejectItem(a, x)
    PROVE  IndInv'
<1>1. RegistryInv /\ OthersInv
  BY IndInvParts
<1>2. ents[a].kind = "actor" /\ x \in ToSet(ents[a].kids)
  BY DEF RejectItem, IsActor
<1>3. RegistryInv'
  <2>1. ASSUME NEW inHands \in {{}} \cup {{w} : w \in Transferable(a, {})},
               NEW rejected \in {{}, inHands}, ents[x].kind = "bag",
               ents' = BagDropped(a, x, inHands, rejected)
        PROVE  RegistryInv'
    <3>1. rejected \in SUBSET Transferable(a, {}) /\ rejected \subseteq inHands
      BY <2>1
    <3>2. /\ Registry(BagDropped(a, x, inHands, rejected))
          /\ BagFirst(BagDropped(a, x, inHands, rejected))
      BY <3>1, <2>1, <1>1, <1>2, BagDroppedKeeps
    <3>. QED
      BY <3>2, <2>1 DEF RegistryInv
  <2>2. CASE /\ ents[x].kind # "bag"
             /\ ents' = Unlinked(ents, a, x, Position(ents[a].kids, x))
    BY <2>2, <1>1, <1>2, ItemReleasedKeeps DEF RegistryInv
  <2>. QED
    BY <2>1, <2>2 DEF RejectItem
<1>4. OthersInv'
  BY <1>1 DEF RejectItem, Idle, roundVars, clientVars, OthersInv, OwnIdsAgree
<1>. QED
  BY <1>3, <1>4, IndInvPartsPrime

\* GE_DESTROY of an item and of what a bag on the ground holds.
LEMMA DestroyItemKeeps ==
    ASSUME IndInv, NEW x \in Ids, DestroyItem(x)
    PROVE  IndInv'
<1>1. RegistryInv /\ OthersInv /\ Registry(ents) /\ BagFirst(ents)
  BY IndInvParts DEF RegistryInv
<1>. DEFINE S == {x} \cup ToSet(ents[x].kids)
<1>2. S \in SUBSET Ids
  BY <1>1, RegistryLinks
<1>3. ents[x].kind \in ItemKinds
  BY DEF DestroyItem
<1>4. \A y \in S : ToSet(ents[y].kids) \subseteq S
  <2>. SUFFICES ASSUME NEW y \in ToSet(ents[x].kids) PROVE ToSet(ents[y].kids) = {}
    BY <1>2
  <2>1. y \in Ids /\ ents[y].parent = x /\ x # NoId
    BY <1>1, RegistryLinks, SentinelAssumption
  <2>2. ents[x].kind # "actor"
    BY <1>3 DEF ItemKinds, GearKinds
  <2>3. ents[y].kind \in ItemKinds /\ ents[y].kind # "bag"
    BY <2>1, <2>2, <1>1 DEF Registry, KindsFit
  <2>4. ents[y].kids = <<>>
    BY <2>1, <2>3, <1>1, RegistryLinks DEF ItemKinds, GearKinds
  <2>. QED
    BY <2>4, EmptyVector
<1>. HIDE DEF S
<1>5. Registry(Destroyed(ents, S)) /\ BagFirst(Destroyed(ents, S))
  BY <1>1, <1>2, <1>4, DestroyedRegistry
<1>6. ents' = Destroyed(ents, S) /\ corpses' = CorpsesWithout(S)
  BY DEF DestroyItem, S
<1>7. RegistryInv'
  BY <1>5, <1>6 DEF RegistryInv
<1>8. corpses' \in Seq(Ids)
  BY <1>1, <1>6, CorpsesWithoutType
<1>9. OthersInv'
  BY <1>1, <1>8 DEF DestroyItem, Idle, roundVars, clientVars, OthersInv, OwnIdsAgree
<1>. QED
  BY <1>7, <1>9, IndInvPartsPrime

\* OnPlayerBuyFinished.
LEMMA BuyItemsKeeps ==
    ASSUME IndInv, NEW c \in Clients, BuyItems(c)
    PROVE  IndInv'
<1>1. RegistryInv /\ OthersInv /\ Registry(ents) /\ BagFirst(ents)
  BY IndInvParts DEF RegistryInv
<1>. DEFINE a == gameId[c]
            Gear == {x \in ToSet(ents[a].kids) : ents[x].kind \notin {"bag", "knife"}}
<1>2. a \in Ids /\ ents[a].kind = "actor"
  BY DEF BuyItems, IsActor
<1>3. PICK gone \in SUBSET Gear :
        /\ corpses' = CorpsesWithout(gone)
        /\ \/ ents' = Destroyed(ents, gone)
           \/ \E loadout \in Loadouts : \E xs \in FreshIds(ents, Len(loadout)) :
                ents' = Equipped(Destroyed(ents, gone), a, xs, loadout)
  BY DEF BuyItems
<1>. DEFINE e == Destroyed(ents, gone)
<1>. HIDE DEF a
<1>4. \A x \in gone : /\ x \in Ids /\ ents[x].parent = a /\ x # a
                      /\ ents[x].kind \in ItemKinds \ {"bag"}
  BY <1>1, <1>2, <1>3, RegistryLinks, SentinelAssumption DEF Registry, KindsFit, BodyKinds
<1>5. \A x \in gone : ToSet(ents[x].kids) \subseteq gone
  <2>. SUFFICES ASSUME NEW x \in gone PROVE ents[x].kids = <<>>
    BY EmptyVector
  <2>. QED
    BY <1>1, <1>4, RegistryLinks DEF ItemKinds, GearKinds
<1>6. gone \in SUBSET Ids
  BY <1>4
<1>7. /\ Registry(e) /\ BagFirst(e)
      /\ \A x \in gone : e[x] = NoEntity
      /\ \A x \in Ids \ gone : e[x].kind = ents[x].kind
  <2>1. Registry(e) /\ BagFirst(e)
    BY <1>1, <1>5, <1>6, DestroyedRegistry
  <2>2. ents \in [Ids -> Entity]
    BY <1>1 DEF Registry
  <2>3. \A x \in gone : e[x] = NoEntity
    BY <1>6, <2>2 DEF Destroyed
  <2>4. \A x \in Ids \ gone : e[x].kind = ents[x].kind
    BY <1>6, <2>2 DEF Destroyed, Entity
  <2>. QED
    BY <2>1, <2>3, <2>4
<1>8. e[a].kind = "actor" /\ \A x \in Ids : ents[x].kind = "free" => e[x].kind = "free"
  BY <1>2, <1>4, <1>7 DEF NoEntity
<1>. HIDE DEF e
<1>9. ASSUME NEW loadout \in Loadouts, NEW xs \in FreshIds(ents, Len(loadout))
      PROVE  Registry(Equipped(e, a, xs, loadout)) /\ BagFirst(Equipped(e, a, xs, loadout))
  <2>1. /\ loadout \in Seq(ItemKinds) /\ Len(loadout) \in Nat
        /\ \A i \in 1..Len(loadout) : loadout[i] # "bag"
    BY LoadoutKinds
  <2>2. /\ xs \in Seq(Ids) /\ Len(xs) = Len(loadout) /\ Distinct(xs)
        /\ \A x \in ToSet(xs) : x \in Ids /\ ents[x].kind = "free"
    BY <2>1, FreshIdsWork
  <2>3. \A x \in ToSet(xs) : e[x].kind = "free"
    BY <2>2, <1>8
  <2>. QED
    BY <2>1, <2>2, <2>3, <1>2, <1>7, <1>8, EquippedRegistry
<1>10. RegistryInv'
  BY <1>3, <1>7, <1>9 DEF RegistryInv, e
<1>11. corpses' \in Seq(Ids)
  BY <1>1, <1>3, CorpsesWithoutType
<1>12. OthersInv'
  BY <1>1, <1>11 DEF BuyItems, Idle, roundVars, clientVars, OthersInv, OwnIdsAgree
<1>. QED
  BY <1>10, <1>12, IndInvPartsPrime

-----------------------------------------------------------------------------
(* The corpse removal and the rounds.                                       *)

\* The removal starts and ends: only its index changes.
LEMMA CorpseRemovalBoundsKeep ==
    ASSUME IndInv, StartCorpseRemoval \/ CorpseRemovalEnds
    PROVE  IndInv'
<1>1. RegistryInv /\ OthersInv
  BY IndInvParts
<1>2. sweep' \in Nat /\ UNCHANGED <<ents, status, mainId, gameId, flags, corpses, leaving, phase, ignored>>
  BY DEF StartCorpseRemoval, CorpseRemovalEnds, clientVars, roundVars
<1>3. RegistryInv' /\ OthersInv'
  BY <1>1, <1>2 DEF RegistryInv, OthersInv, OwnIdsAgree
<1>. QED
  BY <1>3, IndInvPartsPrime

\* An entry is dropped or passed over.
LEMMA SkipCorpseKeeps ==
    ASSUME IndInv, SkipCorpse
    PROVE  IndInv'
<1>1. RegistryInv /\ OthersInv
  BY IndInvParts
<1>2. corpses \in Seq(Ids) /\ sweep \in 1..Len(corpses) /\ sweep \in Nat
  BY <1>1 DEF SkipCorpse, InRemovalLoop, OthersInv
<1>3. RemoveAt(corpses, sweep) \in Seq(Ids)
  BY <1>2, RemoveAtIds
<1>4. corpses' \in Seq(Ids) /\ sweep' \in Nat
  BY <1>2, <1>3 DEF SkipCorpse
<1>5. UNCHANGED <<ents, status, mainId, gameId, flags, leaving, phase, ignored>>
  BY DEF SkipCorpse, clientVars, roundVars
<1>6. RegistryInv' /\ OthersInv'
  BY <1>1, <1>4, <1>5 DEF RegistryInv, OthersInv, OwnIdsAgree
<1>. QED
  BY <1>6, IndInvPartsPrime

\* A body without items is destroyed; what is left of the list is a vector of ids.
LEMMA RemoveCorpseKeeps ==
    ASSUME IndInv, RemoveCorpse
    PROVE  IndInv'
<1>1. RegistryInv /\ OthersInv /\ Registry(ents) /\ BagFirst(ents)
  BY IndInvParts DEF RegistryInv
<1>. DEFINE x == corpses[sweep]
            left == CorpsesWithout({x})
<1>2. corpses \in Seq(Ids) /\ sweep \in 1..Len(corpses) /\ sweep \in Nat
  BY <1>1 DEF RemoveCorpse, InRemovalLoop, OthersInv
<1>3. x \in Ids /\ ents[x].kids = <<>> /\ ents' = Destroyed(ents, {x})
  BY DEF RemoveCorpse, Live
<1>4. /\ mainId' = [c \in Clients |-> IF mainId[c] = x /\ ents[x].owner = c THEN NoId ELSE mainId[c]]
      /\ UNCHANGED <<status, gameId, flags, leaving, phase, ignored, sweep>>
  BY DEF RemoveCorpse, roundVars
<1>5. \/ sweep <= Len(left) /\ corpses' = RemoveAt(left, sweep)
      \/ corpses' \in {left, Front(left)}
  BY DEF RemoveCorpse
<1>. HIDE DEF x
<1>6. left \in Seq(Ids)
  BY <1>1, CorpsesWithoutType
<1>. HIDE DEF left
<1>7. Len(left) \in Nat
  BY <1>6, LenProperties
<1>8. corpses' \in Seq(Ids)
  <2>1. ASSUME sweep <= Len(left) PROVE RemoveAt(left, sweep) \in Seq(Ids)
    <3>1. sweep \in 1..Len(left)
      BY <2>1, <1>2, <1>7
    <3>. QED
      BY <3>1, <1>6, RemoveAtIds
  <2>2. Front(left) \in Seq(Ids)
    BY <1>6, <1>7 DEF Front
  <2>. QED
    BY <2>1, <2>2, <1>5, <1>6
<1>9. \A y \in {x} : ToSet(ents[y].kids) \subseteq {x}
  BY <1>3, EmptyVector
<1>10. Registry(Destroyed(ents, {x})) /\ BagFirst(Destroyed(ents, {x}))
  <2>1. {x} \in SUBSET Ids
    BY <1>3
  <2>. QED
    BY <2>1, <1>1, <1>9, DestroyedRegistry
<1>11. RegistryInv'
  BY <1>3, <1>10 DEF RegistryInv
<1>12. mainId' \in [Clients -> Ids \cup {NoId}] /\ OwnIdsAgree'
  BY <1>1, <1>4 DEF OthersInv, OwnIdsAgree
<1>13. OthersInv'
  BY <1>1, <1>4, <1>8, <1>12 DEF OthersInv
<1>. QED
  BY <1>11, <1>13, IndInvPartsPrime

\* The limits of the round are reached.
LEMMA ScoreReachedKeeps ==
    ASSUME IndInv, ScoreReached
    PROVE  IndInv'
<1>1. RegistryInv /\ OthersInv
  BY IndInvParts
<1>2. phase' \in Phases
  BY DEF ScoreReached, Phases
<1>3. RegistryInv' /\ OthersInv'
  BY <1>1, <1>2 DEF ScoreReached, Idle, roundVars, clientVars, RegistryInv, OthersInv, OwnIdsAgree
<1>. QED
  BY <1>3, IndInvPartsPrime

\* OnRoundEnd, with and without a round in progress.
LEMMA RoundEndKeeps ==
    ASSUME IndInv, RoundEnd
    PROVE  IndInv'
<1>1. RegistryInv /\ OthersInv /\ Registry(ents) /\ BagFirst(ents)
  BY IndInvParts DEF RegistryInv
<1>2. /\ RegistryInv'
      /\ mainId' \in [Clients -> Ids \cup {NoId}]
      /\ gameId' \in [Clients -> Ids \cup {NoId}]
      /\ flags' \in [Clients -> SUBSET {"dead", "watching"}]
      /\ OwnIdsAgree'
  <2>1. ASSUME NEW f \in FreshFor(Connected, ents),
               ents' = WithSpectators(ents, Connected, f),
               mainId' = [c \in Clients |-> IF c \in Connected THEN f[c] ELSE mainId[c]],
               gameId' = [c \in Clients |-> IF c \in Connected THEN f[c] ELSE gameId[c]],
               flags' = [c \in Clients |-> IF c \in Connected
                                           THEN flags[c] \cup {"dead"} ELSE flags[c]]
        PROVE  /\ RegistryInv'
               /\ mainId' \in [Clients -> Ids \cup {NoId}]
               /\ gameId' \in [Clients -> Ids \cup {NoId}]
               /\ flags' \in [Clients -> SUBSET {"dead", "watching"}]
               /\ OwnIdsAgree'
    <3>1. Connected \in SUBSET Clients
      BY DEF Connected
    <3>2. \A c \in Connected : f[c] \in Ids
      BY DEF FreshFor, Free
    <3>3. RegistryInv'
      BY <2>1, <3>1, <1>1, WithSpectatorsRegistry DEF RegistryInv
    <3>4. flags' \in [Clients -> SUBSET {"dead", "watching"}]
      BY <2>1, <1>1 DEF OthersInv
    <3>5. mainId' \in [Clients -> Ids \cup {NoId}] /\ gameId' \in [Clients -> Ids \cup {NoId}]
      BY <2>1, <3>2, <1>1 DEF OthersInv
    <3>6. OwnIdsAgree'
      BY <2>1, <3>2, <1>1 DEF OthersInv, OwnIdsAgree
    <3>. QED
      BY <3>3, <3>4, <3>5, <3>6
  <2>2. CASE UNCHANGED <<ents, mainId, gameId, flags>>
    BY <2>2, <1>1 DEF RegistryInv, OthersInv, OwnIdsAgree
  <2>. QED
    BY <2>1, <2>2 DEF RoundEnd
<1>3. phase' \in Phases /\ leaving' \in Seq(Ids \cup {NoId}) /\ ignored' \in SUBSET Clients /\ UNCHANGED <<status, corpses, sweep>>
  BY <1>1 DEF RoundEnd, Phases, Idle, Connected, OthersInv
<1>4. OthersInv'
  BY <1>1, <1>2, <1>3 DEF OthersInv
<1>. QED
  BY <1>2, <1>4, IndInvPartsPrime

\* OnRoundStart: SLS_Clear and the spectators of the ready clients.
LEMMA RoundStartKeeps ==
    ASSUME IndInv, RoundStart
    PROVE  IndInv'
<1>1. RegistryInv /\ OthersInv
  BY IndInvParts
<1>. DEFINE ready == {c \in Clients : status[c] = "ready"}
            empty == [x \in Ids |-> NoEntity]
<1>2. PICK f \in FreshFor(ready, empty) :
        /\ ents' = WithSpectators(empty, ready, f)
        /\ mainId' = [c \in Clients |-> IF c \in ready THEN f[c] ELSE NoId]
        /\ gameId' = [c \in Clients |-> IF c \in ready THEN f[c] ELSE gameId[c]]
        /\ flags' = [c \in Clients |-> IF c \in ready THEN flags[c] \cup {"dead"}
                                       ELSE flags[c] \ {"dead"}]
  BY DEF RoundStart, SLS_Clear
<1>3. Registry(empty) /\ BagFirst(empty)
  BY EmptyRegistry
<1>4. ready \in SUBSET Clients /\ \A c \in ready : f[c] \in Ids
  BY DEF FreshFor, Free
<1>. HIDE DEF empty, ready
<1>5. RegistryInv'
  BY <1>2, <1>3, <1>4, WithSpectatorsRegistry DEF RegistryInv
<1>6. flags' \in [Clients -> SUBSET {"dead", "watching"}]
  BY <1>1, <1>2 DEF OthersInv
<1>7. mainId' \in [Clients -> Ids \cup {NoId}] /\ gameId' \in [Clients -> Ids \cup {NoId}]
  BY <1>1, <1>2, <1>4 DEF OthersInv
<1>8. OwnIdsAgree'
  BY <1>2, <1>4, SentinelAssumption DEF OwnIdsAgree
<1>9. /\ phase' \in Phases /\ leaving' \in Seq(Ids \cup {NoId}) /\ corpses' \in Seq(Ids)
      /\ UNCHANGED <<status, ignored, sweep>>
  BY DEF RoundStart, Phases, Idle
<1>10. OthersInv'
  BY <1>1, <1>6, <1>7, <1>8, <1>9 DEF OthersInv
<1>. QED
  BY <1>5, <1>10, IndInvPartsPrime

-----------------------------------------------------------------------------
(* The invariant, and what follows from it.                                 *)

\* The server starts with an empty registry and no clients.
LEMMA InitKeeps == Init => IndInv
<1>. SUFFICES ASSUME Init PROVE IndInv
  OBVIOUS
<1>1. RegistryInv
  BY EmptyRegistry DEF Init, RegistryInv
<1>2. OthersInv
  BY DEF Init, OthersInv, OwnIdsAgree, Phases
<1>. QED
  BY <1>1, <1>2, IndInvParts

\* Every handler keeps the invariant.
LEMMA NextKeeps == IndInv /\ [Next]_vars => IndInv'
<1>. SUFFICES ASSUME IndInv, [Next]_vars PROVE IndInv'
  OBVIOUS
<1>1. ASSUME NEW c \in Clients, Connect(c) PROVE IndInv'
  BY <1>1, ConnectKeeps
<1>2. ASSUME NEW c \in Clients, ConnectFinished(c) PROVE IndInv'
  BY <1>2, ConnectFinishedKeeps
<1>3. ASSUME NEW c \in Clients, Disconnect(c) PROVE IndInv'
  BY <1>3, DisconnectKeeps
<1>4. ASSUME NEW c \in Clients, PlayerReady(c) PROVE IndInv'
  BY <1>4, PlayerReadyKeeps
<1>5. ASSUME NEW c \in Clients, ForceRespawn(c) PROVE IndInv'
  BY <1>5, ForceRespawnKeeps
<1>6. ASSUME NEW c \in Clients, SelectSpectator(c) PROVE IndInv'
  BY <1>6, SelectSpectatorKeeps
<1>7. ASSUME NEW c \in Clients, ChangeTeam(c) \/ ChangeSkin(c) \/ PlayerKilled(c) PROVE IndInv'
  BY <1>7, FlagsStepKeeps
<1>8. ASSUME NEW c \in Clients, BuyItems(c) PROVE IndInv'
  BY <1>8, BuyItemsKeeps
<1>18. ASSUME NEW c \in Clients, PlayerStarted(c) PROVE IndInv'
  BY <1>18, PlayerStartedKeeps
<1>9. ASSUME NEW x \in Ids, BodyDies(x) PROVE IndInv'
  BY <1>9, BodyDiesKeeps
<1>10. ASSUME NEW x \in Ids, DestroyItem(x) PROVE IndInv'
  BY <1>10, DestroyItemKeeps
<1>11. ASSUME NEW x \in Ids, NEW a \in Ids, RejectItem(a, x) PROVE IndInv'
  BY <1>11, RejectItemKeeps
<1>12. ASSUME NEW x \in Ids, NEW a \in Ids, NEW s \in Clients \cup {SvClient}, TakeItem(s, a, x)
       PROVE  IndInv'
  BY <1>12, TakeItemKeeps
<1>13. CASE CorpseStep
  BY <1>13, CorpseRemovalBoundsKeep, SkipCorpseKeeps, RemoveCorpseKeeps DEF CorpseStep
<1>14. CASE RoundStep
  BY <1>14, PlayerDisconnectedKeeps, ScoreReachedKeeps, RoundEndKeeps, RoundStartKeeps DEF RoundStep
<1>15. CASE ClientStep
  BY <1>15, <1>1, <1>2, <1>3, <1>4, <1>5, <1>6, <1>7, <1>8, <1>18 DEF ClientStep
<1>16. CASE EntityStep
  BY <1>16, <1>9, <1>10, <1>11, <1>12 DEF EntityStep
<1>17. CASE UNCHANGED vars
  <2>1. UNCHANGED <<ents, status, mainId, gameId, flags, corpses, leaving, phase, ignored, sweep>>
    BY <1>17 DEF vars, clientVars, gameVars, roundVars
  <2>2. RegistryInv /\ OthersInv
    BY IndInvParts
  <2>3. RegistryInv' /\ OthersInv'
    BY <2>1, <2>2 DEF RegistryInv, OthersInv, OwnIdsAgree
  <2>. QED
    BY <2>3, IndInvPartsPrime
<1>. QED
  BY <1>13, <1>14, <1>15, <1>16, <1>17 DEF Next

\* IndInv holds in every reachable state, whatever the numbers of ids, clients
\* and corpses, the loadouts and the timing of g_restart.
THEOREM Invariance == Spec => []IndInv
<1>. QED
  BY InitKeeps, NextKeeps, PTL DEF Spec

\* Every variable keeps its type, and a slot is cleared when its id is freed.
THEOREM TypeCorrect == Spec => []TypeOK
<1>1. IndInv => TypeOK
  BY DEF IndInv
<1>. QED
  BY <1>1, Invariance, PTL

\* What xrServer::verify_entities asserts after an event holds after every handler.
THEOREM VerifyEntitiesHolds == Spec => []VerifyEntities
<1>1. IndInv => VerifyEntities
  BY DEF IndInv
<1>. QED
  BY <1>1, Invariance, PTL

\* The iterator Process_event_reject keeps to a bag stays valid while OnDetachItem
\* takes other children out of the same vector.
THEOREM HeldBagStaysFirst == Spec => []HeldBagIsFirst
<1>1. IndInv => HeldBagIsFirst
  BY DEF IndInv
<1>. QED
  BY <1>1, Invariance, PTL

-----------------------------------------------------------------------------
(***************************************************************************)
(* Who owns what.  The clients' part of the invariant looks at no more of  *)
(* an entity than its kind and its owner: what each operation of the       *)
(* registry does to those two.                                             *)
(***************************************************************************)

\* e and d agree on kinds and owners.
SameOwners(e, d) == \A x \in Ids : d[x].kind = e[x].kind /\ d[x].owner = e[x].owner

\* From e to d no body appears, disappears or changes owner, and an item that
\* appears or changes owner is the server's.
SameBodies(e, d) ==
    \A x \in Ids :
        /\ e[x].kind \in BodyKinds \/ d[x].kind \in BodyKinds =>
             d[x].kind = e[x].kind /\ d[x].owner = e[x].owner
        /\ d[x].kind \in ItemKinds =>
             \/ d[x].owner = SvClient
             \/ e[x].kind \in ItemKinds /\ d[x].owner = e[x].owner

\* Items belong to the server's client.
ItemsOwned(e) == \A x \in Ids : e[x].kind \in ItemKinds => e[x].owner = SvClient

\* Kinds do not overlap.
LEMMA KindsDiffer ==
    /\ "free" \notin BodyKinds \cup ItemKinds
    /\ BodyKinds \cap ItemKinds = {}
    /\ "actor" \in BodyKinds /\ "spectator" \in BodyKinds
BY DEF BodyKinds, ItemKinds, GearKinds

\* SameBodies composes, and follows from agreement.
LEMMA SameBodiesWork ==
    /\ \A e, d : SameOwners(e, d) => SameBodies(e, d)
    /\ \A e, d, f : SameBodies(e, d) /\ SameBodies(d, f) => SameBodies(e, f)
    /\ \A e, d : SameBodies(e, d) /\ ItemsOwned(e) => ItemsOwned(d)
<1>1. ASSUME NEW e, NEW d, SameOwners(e, d) PROVE SameBodies(e, d)
  BY <1>1 DEF SameOwners, SameBodies
<1>2. ASSUME NEW e, NEW d, NEW f, SameBodies(e, d), SameBodies(d, f) PROVE SameBodies(e, f)
  BY <1>2, KindsDiffer DEF SameBodies
<1>3. ASSUME NEW e, NEW d, SameBodies(e, d), ItemsOwned(e) PROVE ItemsOwned(d)
  BY <1>3 DEF SameBodies, ItemsOwned
<1>. QED
  BY <1>1, <1>2, <1>3

\* Process_spawn of a body: its kind and owner; the others stay.
LEMMA CreatedOwners ==
    ASSUME NEW e \in [Ids -> Entity], NEW x \in Ids, NEW k, NEW c
    PROVE  /\ Created(e, x, k, c)[x].kind = k /\ Created(e, x, k, c)[x].owner = c
           /\ \A y \in Ids \ {x} : Created(e, x, k, c)[y] = e[y]
BY DEF Created

\* AllowDeadBodyRemove: the entity is the server's, everything else stays.
LEMMA DisownedOwners ==
    ASSUME NEW e \in [Ids -> Entity], NEW x
    PROVE  /\ Disowned(e, x) \in [Ids -> Entity]
           /\ \A y \in Ids : Disowned(e, x)[y].kind = e[y].kind
           /\ \A y \in Ids : y # x => Disowned(e, x)[y] = e[y]
           /\ x \in Live(e) => Disowned(e, x)[x].owner = SvClient
<1>1. CASE x \notin Live(e)
  BY <1>1 DEF Disowned
<1>2. CASE x \in Live(e)
  BY <1>2 DEF Disowned, Live, Entity
<1>. QED
  BY <1>1, <1>2

\* Process_event_destroy: what is not destroyed keeps kind and owner.
LEMMA DestroyedOwners ==
    ASSUME NEW e \in [Ids -> Entity], NEW S
    PROVE  /\ Destroyed(e, S) \in [Ids -> Entity]
           /\ \A y \in Ids : y \in S => Destroyed(e, S)[y] = NoEntity
           /\ \A y \in Ids : y \notin S =>
                /\ Destroyed(e, S)[y].kind = e[y].kind
                /\ Destroyed(e, S)[y].owner = e[y].owner
<1>. DEFINE d == Destroyed(e, S)
<1>1. d = [x \in Ids |-> IF x \in S THEN NoEntity
                         ELSE [e[x] EXCEPT !.kids = Kept(@, Ids \ S)]]
  BY DEF Destroyed
<1>2. \A x \in Ids : e[x] \in Entity /\ e[x].kids \in Seq(Ids)
  BY DEF Entity
<1>3. \A x \in Ids : Kept(e[x].kids, Ids \ S) \in Seq(Ids)
  BY <1>2, KeptIds
<1>. HIDE DEF d
<1>4. d \in [Ids -> Entity]
  BY <1>1, <1>2, <1>3, NoEntityType DEF Entity
<1>5. \A y \in Ids : y \notin S => d[y].kind = e[y].kind /\ d[y].owner = e[y].owner
  BY <1>1, <1>2 DEF Entity
<1>. QED
  BY <1>1, <1>4, <1>5 DEF d

\* Destroying what is no body changes no body.
LEMMA DestroyedItems ==
    ASSUME NEW e \in [Ids -> Entity], NEW S, \A x \in Ids : x \in S => e[x].kind \notin BodyKinds
    PROVE  SameBodies(e, Destroyed(e, S))
<1>1. NoEntity.kind = "free"
  BY DEF NoEntity
<1>. QED
  BY <1>1, DestroyedOwners, KindsDiffer DEF SameBodies

\* Perform_transfer changes links only.
LEMMA MovedOwners ==
    ASSUME NEW e \in [Ids -> Entity], NEW xs \in Seq(Ids), NEW from \in Ids, NEW to \in Ids
    PROVE  /\ Moved(e, xs, from, to) \in [Ids -> Entity]
           /\ SameOwners(e, Moved(e, xs, from, to))
<1>. DEFINE d == Moved(e, xs, from, to)
<1>1. d = [x \in Ids |->
            IF x = from THEN [e[x] EXCEPT !.kids = Kept(@, Ids \ ToSet(xs))]
            ELSE IF x = to THEN [e[x] EXCEPT !.kids = @ \o xs]
            ELSE IF x \in ToSet(xs) THEN [e[x] EXCEPT !.parent = to]
            ELSE e[x]]
  BY DEF Moved
<1>2. \A x \in Ids : e[x] \in Entity /\ e[x].kids \in Seq(Ids)
  BY DEF Entity
<1>3. \A x \in Ids : Kept(e[x].kids, Ids \ ToSet(xs)) \in Seq(Ids) /\ e[x].kids \o xs \in Seq(Ids)
  BY <1>2, KeptIds, ConcatIds
<1>. HIDE DEF d
<1>4. d \in [Ids -> Entity]
  BY <1>1, <1>2, <1>3 DEF Entity
<1>5. SameOwners(e, d)
  BY <1>1, <1>2 DEF Entity, SameOwners
<1>. QED
  BY <1>4, <1>5 DEF d

\* Process_event_reject of the items S changes links only.
LEMMA ReleasedOwners ==
    ASSUME NEW e \in [Ids -> Entity], NEW a \in Ids, NEW S
    PROVE  /\ Released(e, a, S) \in [Ids -> Entity]
           /\ SameOwners(e, Released(e, a, S))
<1>. DEFINE d == Released(e, a, S)
<1>1. d = [x \in Ids |-> IF x \in S THEN [e[x] EXCEPT !.parent = NoId]
                         ELSE IF x = a THEN [e[x] EXCEPT !.kids = Kept(@, Ids \ S)]
                         ELSE e[x]]
  BY DEF Released
<1>2. \A x \in Ids : e[x] \in Entity /\ e[x].kids \in Seq(Ids)
  BY DEF Entity
<1>3. \A x \in Ids : Kept(e[x].kids, Ids \ S) \in Seq(Ids)
  BY <1>2, KeptIds
<1>. HIDE DEF d
<1>4. d \in [Ids -> Entity]
  BY <1>1, <1>2, <1>3 DEF Entity
<1>5. SameOwners(e, d)
  BY <1>1, <1>2 DEF Entity, SameOwners
<1>. QED
  BY <1>4, <1>5 DEF d

\* An erased link, and a taken item.
LEMMA LinkedOwners ==
    ASSUME NEW e \in [Ids -> Entity], NEW p, NEW x, NEW i
    PROVE  SameOwners(e, Unlinked(e, p, x, i)) /\ SameOwners(e, Taken(e, p, x))
<1>1. \A q : SameOwners(e, [e EXCEPT ![x].parent = NoId, ![p].kids = q])
  BY DEF SameOwners, Entity
<1>2. \A q : SameOwners(e, [e EXCEPT ![x].parent = p, ![p].kids = q])
  BY DEF SameOwners, Entity
<1>3. SameOwners(e, Unlinked(e, p, x, i))
  BY <1>1 DEF Unlinked
<1>4. SameOwners(e, Taken(e, p, x))
  BY <1>2 DEF Taken
<1>. QED
  BY <1>3, <1>4

\* Process_spawn of items: the new ones are the server's.
LEMMA EquippedOwners ==
    ASSUME NEW e \in [Ids -> Entity], NEW a \in Ids, NEW xs \in Seq(Ids), a \notin ToSet(xs),
           NEW ks \in Seq(ItemKinds), Len(ks) = Len(xs)
    PROVE  /\ \A y \in Ids : y \notin ToSet(xs) =>
                /\ Equipped(e, a, xs, ks)[y].kind = e[y].kind
                /\ Equipped(e, a, xs, ks)[y].owner = e[y].owner
           /\ \A y \in ToSet(xs) : /\ Equipped(e, a, xs, ks)[y].kind \in ItemKinds
                                   /\ Equipped(e, a, xs, ks)[y].owner = SvClient
<1>. DEFINE N == ToSet(xs)
            d == Equipped(e, a, xs, ks)
<1>1. d = [x \in Ids |->
            IF x = a THEN [e[a] EXCEPT !.kids = @ \o xs]
            ELSE IF x \in N
                 THEN [kind |-> ks[Position(xs, x)], parent |-> a, kids |-> <<>>,
                       owner |-> SvClient, alive |-> FALSE]
                 ELSE e[x]]
  BY DEF Equipped
<1>2. \A x \in Ids : e[x] \in Entity
  OBVIOUS
<1>3. N \subseteq Ids /\ a \notin N
  BY SeqOfIds
<1>4. \A x \in N : ks[Position(xs, x)] \in ItemKinds
  <2>1. \A x \in N : Position(xs, x) \in 1..Len(ks)
    BY PositionOf, SeqOfIds
  <2>. QED
    BY <2>1, ElementOfSeq
<1>. HIDE DEF d, N
<1>5. \A y \in Ids : y \notin N => d[y].kind = e[y].kind /\ d[y].owner = e[y].owner
  BY <1>1, <1>2 DEF Entity
<1>6. \A y \in N : d[y].kind \in ItemKinds /\ d[y].owner = SvClient
  BY <1>1, <1>3, <1>4
<1>. QED
  BY <1>5, <1>6 DEF d, N

-----------------------------------------------------------------------------
(***************************************************************************)
(* The clients, their bodies and the corpses.                              *)
(***************************************************************************)

\* g_restart never ends a round while a client is joining it.
RoundsAreNotCut == ~RestartAnyTime

\* ps->GameID names nothing before the first SpawnPlayer.
GameIdIsClear == FreshGameIds \subseteq {NoId}

\* m_CorpseList holds bodies of the server.
CorpsesAreBodies ==
    \A x \in ToSet(corpses) : ents[x].kind \in BodyKinds /\ ents[x].owner = SvClient

\* A joining client has no entity, and nothing names one for it.
JoiningHasNothing ==
    \A c \in Clients : status[c] = "joining" =>
        /\ mainId[c] = NoId /\ gameId[c] = NoId
        /\ \A x \in Ids : ents[x].owner # c

\* A queued disconnect event names nothing, or the body its client left behind;
\* no two of them name the same body.
LeaversAreGone ==
    /\ \A x \in ToSet(leaving) \ {NoId} :
        /\ ents[x].kind \in BodyKinds
        /\ ents[x].owner \in Clients /\ status[ents[x].owner] = "absent"
    /\ \A i, j \in DOMAIN leaving : leaving[i] = leaving[j] => i = j \/ leaving[i] = NoId

\* The clients' part of the inductive invariant.
ClientsInv ==
    /\ ItemsOwned(ents)
    /\ CorpsesAreBodies
    /\ MainEntityIsOwn
    /\ JoiningHasNothing
    /\ LeaversAreGone
    /\ LivingPlayerHasActor

\* An entity that a client owns is a body; a free id belongs to nobody.
LEMMA OwnedBodies ==
    ASSUME NEW e, Registry(e), ItemsOwned(e), NEW x \in Ids
    PROVE  /\ e[x].owner \in Clients => e[x].kind \in BodyKinds
           /\ e[x].kind \in BodyKinds \cup ItemKinds \cup {"free"}
           /\ e[x].kind = "free" => e[x].owner = NoClient
<1>1. e[x].kind \in ItemKinds \cup BodyKinds \cup {"free"}
  BY RegistryFields
<1>2. e[x].kind = "free" => e[x].owner = NoClient
  BY DEF Registry, FreeIsEmpty, NoEntity
<1>. QED
  BY <1>1, <1>2, SentinelAssumption DEF ItemsOwned

\* The registry of both states.
LEMMA Registries ==
    /\ IndInv => Registry(ents) /\ ents \in [Ids -> Entity]
    /\ IndInv' => Registry(ents') /\ ents' \in [Ids -> Entity]
BY DEF IndInv, TypeOK, VerifyEntities, Registry

\* What the two invariants say of one client.
LEMMA OwnMainEntity ==
    ASSUME IndInv, ClientsInv, NEW c \in Clients
    PROVE  /\ status[c] \in {"absent", "joining", "ready"}
           /\ status[c] = "ready" =>
                /\ mainId[c] \in Ids /\ gameId[c] = mainId[c]
                /\ ents[mainId[c]].kind \in BodyKinds /\ ents[mainId[c]].owner = c
           /\ status[c] = "joining" =>
                /\ mainId[c] = NoId /\ gameId[c] = NoId
                /\ \A x \in Ids : ents[x].owner # c
<1>1. /\ status[c] \in {"absent", "joining", "ready"}
      /\ mainId[c] \in Ids \cup {NoId}
  BY IndInvParts DEF OthersInv
<1>. QED
  BY <1>1 DEF ClientsInv, MainEntityIsOwn, JoiningHasNothing, Connected

\* A step that changes no body, no pointer of a client and nobody's life.
LEMMA ItemStepKeeps ==
    ASSUME IndInv, IndInv', ClientsInv, SameBodies(ents, ents'),
           ToSet(corpses') \subseteq ToSet(corpses),
           UNCHANGED <<status, mainId, gameId, leaving>>,
           \A c \in Clients : "dead" \in flags[c] => "dead" \in flags'[c]
    PROVE  ClientsInv'
<1>1. ItemsOwned(ents) /\ ItemsOwned(ents')
  BY SameBodiesWork DEF ClientsInv
<1>2. \A x \in Ids : ents[x].kind \in BodyKinds =>
        ents'[x].kind = ents[x].kind /\ ents'[x].owner = ents[x].owner
  BY DEF SameBodies
<1>3. \A x \in Ids : ents'[x].owner \in Clients =>
        /\ ents[x].owner = ents'[x].owner
        /\ ents[x].kind \in BodyKinds
  BY <1>1, Registries, OwnedBodies DEF SameBodies
<1>4. /\ ToSet(corpses) \subseteq Ids
      /\ mainId \in [Clients -> Ids \cup {NoId}] /\ gameId \in [Clients -> Ids \cup {NoId}]
      /\ ToSet(leaving) \subseteq Ids \cup {NoId}
  <2>1. OthersInv
    BY IndInvParts
  <2>2. \A i \in DOMAIN leaving : leaving[i] \in Ids \cup {NoId}
    BY <2>1, ElementOfSeq, LenProperties DEF OthersInv
  <2>. QED
    BY <2>1, <2>2, SeqOfIds DEF OthersInv, ToSet
<1>5. CorpsesAreBodies'
  BY <1>2, <1>4 DEF ClientsInv, CorpsesAreBodies
<1>6. MainEntityIsOwn'
  BY <1>2, <1>4 DEF ClientsInv, MainEntityIsOwn, Connected
<1>7. JoiningHasNothing'
  BY <1>3 DEF ClientsInv, JoiningHasNothing
<1>8. LeaversAreGone'
  BY <1>2, <1>4 DEF ClientsInv, LeaversAreGone
<1>9. LivingPlayerHasActor'
  BY <1>2, KindsDiffer DEF ClientsInv, LivingPlayerHasActor, IsActor
<1>. QED
  BY <1>1, <1>5, <1>6, <1>7, <1>8, <1>9 DEF ClientsInv

\* SpawnPlayer gave the client c a new body x; the body it had, if any, is the
\* server's and a corpse, or is destroyed.
LEMMA NewBodyKeeps ==
    ASSUME IndInv, IndInv', ClientsInv, ItemsOwned(ents'),
           NEW c \in Clients, NEW x \in Ids, ents[x].kind = "free",
           NEW k \in BodyKinds, NEW fl, Possesses(c, x, k, fl),
           ents'[x].kind = k, ents'[x].owner = c,
           \A y \in Ids : y # x /\ y # mainId[c] =>
              (ents[y].kind \in BodyKinds \/ ents'[y].kind \in BodyKinds =>
                 ents'[y].kind = ents[y].kind /\ ents'[y].owner = ents[y].owner),
           mainId[c] \in Ids /\ ents'[mainId[c]].kind \in BodyKinds =>
              ents'[mainId[c]].owner = SvClient,
           \A y \in ToSet(corpses') :
              y \in ToSet(corpses) \/ (y = mainId[c] /\ ents'[y].kind \in BodyKinds),
           status[c] # "absent", status' = [status EXCEPT ![c] = "ready"],
           UNCHANGED <<leaving, phase>>
    PROVE  ClientsInv'
<1>. DEFINE m == mainId[c]
<1>1. /\ ents' \in [Ids -> Entity] /\ Registry(ents) /\ Registry(ents')
      /\ ItemsOwned(ents)
  BY Registries DEF ClientsInv
<1>2. /\ status \in [Clients -> {"absent", "joining", "ready"}]
      /\ mainId \in [Clients -> Ids \cup {NoId}] /\ gameId \in [Clients -> Ids \cup {NoId}]
      /\ flags \in [Clients -> SUBSET {"dead", "watching"}]
      /\ ToSet(corpses) \subseteq Ids
  BY IndInvParts, SeqOfIds DEF OthersInv
<1>3. /\ mainId' = [mainId EXCEPT ![c] = x]
      /\ gameId' = [gameId EXCEPT ![c] = x]
      /\ flags' = [flags EXCEPT ![c] = FlagsAs(k, fl)]
  BY DEF Possesses
<1>4. m \in Ids => ents[m].owner = c /\ ents[m].kind \in BodyKinds
  BY <1>2, OwnMainEntity, SentinelAssumption
<1>5. m # x
  BY <1>4, KindsDiffer
<1>6. \A y \in Ids : ents[y].kind \in BodyKinds /\ ents[y].owner # c =>
        ents'[y].kind = ents[y].kind /\ ents'[y].owner = ents[y].owner
  BY <1>4, KindsDiffer
<1>7. \A y \in Ids : ents'[y].owner \in Clients =>
        \/ y = x
        \/ ents[y].owner = ents'[y].owner /\ ents[y].kind \in BodyKinds /\ y # m
  <2>1. \A y \in Ids : ents'[y].owner \in Clients => ents'[y].kind \in BodyKinds
    BY <1>1, OwnedBodies
  <2>. QED
    BY <2>1, SentinelAssumption
<1>. HIDE DEF m
<1>8. CorpsesAreBodies'
  <2>. SUFFICES ASSUME NEW y \in ToSet(corpses')
                PROVE  ents'[y].kind \in BodyKinds /\ ents'[y].owner = SvClient
    BY DEF CorpsesAreBodies
  <2>1. CASE y \in ToSet(corpses)
    <3>1. y \in Ids /\ ents[y].kind \in BodyKinds /\ ents[y].owner = SvClient
      BY <2>1, <1>2 DEF ClientsInv, CorpsesAreBodies
    <3>. QED
      BY <3>1, <1>6, SentinelAssumption
  <2>2. CASE y = mainId[c] /\ ents'[y].kind \in BodyKinds
    <3>1. y \in Ids
      <4>1. ToSet(corpses') \subseteq Ids
        BY DEF IndInv, TypeOK, ToSet
      <4>. QED
        BY <4>1
    <3>. QED
      BY <3>1, <2>2
  <2>. QED
    BY <2>1, <2>2
<1>9. MainEntityIsOwn'
  <2>. SUFFICES ASSUME NEW d \in Clients, status'[d] # "absent"
                PROVE  /\ status'[d] = "ready" => mainId'[d] # NoId
                       /\ mainId'[d] # NoId =>
                           /\ gameId'[d] = mainId'[d]
                           /\ ents'[mainId'[d]].kind \in BodyKinds
                           /\ ents'[mainId'[d]].owner = d
    BY DEF MainEntityIsOwn, Connected
  <2>1. CASE d = c
    BY <2>1, <1>2, <1>3, SentinelAssumption
  <2>2. CASE d # c
    <3>1. status'[d] = status[d] /\ mainId'[d] = mainId[d] /\ gameId'[d] = gameId[d]
      BY <2>2, <1>2, <1>3
    <3>. QED
      BY <3>1, <2>2, <1>2, <1>6, OwnMainEntity, SentinelAssumption
  <2>. QED
    BY <2>1, <2>2
<1>10. JoiningHasNothing'
  <2>. SUFFICES ASSUME NEW d \in Clients, status'[d] = "joining"
                PROVE  /\ mainId'[d] = NoId /\ gameId'[d] = NoId
                       /\ \A y \in Ids : ents'[y].owner # d
    BY DEF JoiningHasNothing
  <2>1. d # c /\ status[d] = "joining" /\ mainId'[d] = mainId[d] /\ gameId'[d] = gameId[d]
    BY <1>2, <1>3
  <2>. QED
    BY <2>1, <1>7, OwnMainEntity
<1>11. LeaversAreGone'
  <2>1. ASSUME NEW y \in ToSet(leaving) \ {NoId}
        PROVE  /\ ents'[y].kind \in BodyKinds
               /\ ents'[y].owner \in Clients /\ status'[ents'[y].owner] = "absent"
    <3>1. /\ ents[y].kind \in BodyKinds
          /\ ents[y].owner \in Clients /\ status[ents[y].owner] = "absent"
      BY DEF ClientsInv, LeaversAreGone
    <3>2. y \in Ids
      <4>1. \A i \in DOMAIN leaving : leaving[i] \in Ids \cup {NoId}
        BY IndInvParts, ElementOfSeq, LenProperties DEF OthersInv
      <4>. QED
        BY <4>1 DEF ToSet
    <3>3. ents[y].owner # c
      BY <3>1
    <3>. QED
      BY <3>1, <3>2, <3>3, <1>2, <1>6
  <2>2. leaving' = leaving
    OBVIOUS
  <2>. QED
    BY <2>1, <2>2 DEF ClientsInv, LeaversAreGone
<1>12. LivingPlayerHasActor'
  <2>. SUFFICES ASSUME NEW d \in Clients, status'[d] = "ready", "dead" \notin flags'[d]
                PROVE  gameId'[d] \in Ids /\ ents'[gameId'[d]].kind = "actor"
    BY DEF LivingPlayerHasActor, IsActor
  <2>1. CASE d = c
    <3>1. flags'[c] = FlagsAs(k, fl) /\ gameId'[c] = x
      BY <1>2, <1>3
    <3>2. k = "actor"
      BY <3>1, <2>1 DEF FlagsAs
    <3>. QED
      BY <3>1, <3>2, <2>1
  <2>2. CASE d # c
    <3>1. /\ status[d] = "ready" /\ "dead" \notin flags[d]
          /\ mainId'[d] = mainId[d] /\ gameId'[d] = gameId[d]
      BY <2>2, <1>2, <1>3
    <3>2. gameId[d] \in Ids /\ ents[gameId[d]].kind = "actor" /\ ents[gameId[d]].owner = d
      BY <3>1, OwnMainEntity DEF ClientsInv, LivingPlayerHasActor, IsActor
    <3>. QED
      BY <3>1, <3>2, <2>2, <1>6, KindsDiffer
  <2>. QED
    BY <2>1, <2>2
<1>. QED
  BY <1>8, <1>9, <1>10, <1>11, <1>12 DEF ClientsInv

-----------------------------------------------------------------------------
(* One lemma per action: the handlers that touch items only.                *)

\* GE_OWNERSHIP_TAKE and OnTouchItem.
LEMMA TakeItemBodies ==
    ASSUME IndInv, NEW s, NEW a \in Ids, NEW x \in Ids, TakeItem(s, a, x)
    PROVE  SameBodies(ents, ents') /\ ToSet(corpses') \subseteq ToSet(corpses)
<1>1. ents \in [Ids -> Entity] /\ corpses \in Seq(Ids) /\ ents[x].kind \in ItemKinds
  BY Registries, IndInvParts DEF OthersInv, TakeItem
<1>2. SameBodies(ents, ents') /\ ToSet(corpses') \subseteq ToSet(corpses)
  <2>1. CASE ents' = BagOpened(a, x) /\ corpses' = CorpsesWithout({x})
    <3>. DEFINE xs == Reverse(ents[x].kids)
                e == Moved(ents, xs, x, a)
    <3>1. xs \in Seq(Ids)
      BY <1>1, ReverseIds DEF Entity
    <3>. HIDE DEF xs
    <3>2. e \in [Ids -> Entity] /\ SameOwners(ents, e)
      BY <3>1, <1>1, MovedOwners
    <3>. HIDE DEF e
    <3>3. SameBodies(e, Destroyed(e, {x}))
      BY <3>2, <1>1, DestroyedItems, KindsDiffer DEF SameOwners
    <3>4. SameBodies(ents, Destroyed(e, {x}))
      BY <3>2, <3>3, SameBodiesWork
    <3>5. ToSet(corpses') \subseteq ToSet(corpses)
      BY <2>1, <1>1, KeptIds DEF CorpsesWithout
    <3>. QED
      BY <3>4, <3>5, <2>1 DEF BagOpened, e, xs
  <2>2. CASE ents' = Taken(ents, a, x) /\ UNCHANGED corpses
    BY <2>2, <1>1, LinkedOwners, SameBodiesWork
  <2>. QED
    BY <2>1, <2>2 DEF TakeItem
<1>. QED
  BY <1>2

\* The clients do not notice.
LEMMA TakeItemKeepsClients ==
    ASSUME IndInv, IndInv', ClientsInv, NEW s, NEW a \in Ids, NEW x \in Ids, TakeItem(s, a, x)
    PROVE  ClientsInv'
BY TakeItemBodies, ItemStepKeeps DEF TakeItem, clientVars, roundVars

\* GE_OWNERSHIP_REJECT and OnDetachItem.
LEMMA RejectItemBodies ==
    ASSUME IndInv, NEW a \in Ids, NEW x \in Ids, RejectItem(a, x)
    PROVE  SameBodies(ents, ents') /\ ToSet(corpses') \subseteq ToSet(corpses)
<1>1. ents \in [Ids -> Entity] /\ ents[a].kids \in Seq(Ids)
  BY Registries DEF Entity
<1>2. SameBodies(ents, ents')
  <2>1. ASSUME NEW inHands, NEW rejected, ents' = BagDropped(a, x, inHands, rejected)
        PROVE  SameBodies(ents, ents')
    <3>. DEFINE xs == Kept(ents[a].kids, Transferable(a, inHands))
                e1 == Moved(ents, xs, a, x)
                e2 == Destroyed(e1, Knives(a))
                e3 == Released(e2, a, rejected)
                i == Position(ents[a].kids, x)
    <3>1. xs \in Seq(Ids)
      BY <1>1, KeptIds
    <3>. HIDE DEF xs
    <3>2. e1 \in [Ids -> Entity] /\ SameOwners(ents, e1)
      BY <3>1, <1>1, MovedOwners
    <3>. HIDE DEF e1
    <3>3. \A y \in Ids : y \in Knives(a) => e1[y].kind \notin BodyKinds
      BY <3>2 DEF Knives, SameOwners, BodyKinds
    <3>4. e2 \in [Ids -> Entity] /\ SameBodies(e1, e2)
      BY <3>2, <3>3, DestroyedOwners, DestroyedItems
    <3>. HIDE DEF e2
    <3>5. e3 \in [Ids -> Entity] /\ SameOwners(e2, e3)
      BY <3>4, ReleasedOwners
    <3>. HIDE DEF e3
    <3>6. SameOwners(e3, Unlinked(e3, a, x, i))
      BY <3>5, LinkedOwners
    <3>7. SameBodies(ents, Unlinked(e3, a, x, i))
      BY <3>2, <3>4, <3>5, <3>6, SameBodiesWork
    <3>8. ents' = Unlinked(e3, a, x, i)
      BY <2>1 DEF BagDropped, e3, e2, e1, xs
    <3>. QED
      BY <3>7, <3>8
  <2>2. ASSUME NEW i, ents' = Unlinked(ents, a, x, i) PROVE SameBodies(ents, ents')
    BY <2>2, <1>1, LinkedOwners, SameBodiesWork
  <2>. QED
    BY <2>1, <2>2 DEF RejectItem
<1>. QED
  BY <1>2 DEF RejectItem

\* The dropped item, and what its drop drags along, change no client.
LEMMA RejectItemKeepsClients ==
    ASSUME IndInv, IndInv', ClientsInv, NEW a \in Ids, NEW x \in Ids, RejectItem(a, x)
    PROVE  ClientsInv'
BY RejectItemBodies, ItemStepKeeps DEF RejectItem, clientVars, roundVars

\* GE_DESTROY of an item and of what it holds.
LEMMA DestroyItemBodies ==
    ASSUME IndInv, NEW x \in Ids, DestroyItem(x)
    PROVE  SameBodies(ents, ents') /\ ToSet(corpses') \subseteq ToSet(corpses)
<1>1. ents \in [Ids -> Entity] /\ Registry(ents) /\ corpses \in Seq(Ids) /\ ents[x].kind \in ItemKinds
  BY Registries, IndInvParts DEF OthersInv, DestroyItem
<1>. DEFINE S == {x} \cup ToSet(ents[x].kids)
<1>2. \A y \in Ids : y \in S => ents[y].kind \notin BodyKinds
  <2>1. \A y \in ToSet(ents[x].kids) : y \in Ids /\ ents[y].parent = x
    BY <1>1, RegistryLinks
  <2>2. \A y \in ToSet(ents[x].kids) : ents[y].kind \notin BodyKinds
    BY <2>1, <1>1, RegistryLinks, SentinelAssumption
  <2>. QED
    BY <2>2, <1>1, KindsDiffer
<1>3. ents' = Destroyed(ents, S) /\ corpses' = CorpsesWithout(S)
  BY DEF DestroyItem
<1>. HIDE DEF S
<1>4. SameBodies(ents, ents')
  BY <1>1, <1>2, <1>3, DestroyedItems
<1>5. ToSet(corpses') \subseteq ToSet(corpses)
  BY <1>1, <1>3, KeptIds DEF CorpsesWithout
<1>. QED
  BY <1>4, <1>5

\* The clients do not notice.
LEMMA DestroyItemKeepsClients ==
    ASSUME IndInv, IndInv', ClientsInv, NEW x \in Ids, DestroyItem(x)
    PROVE  ClientsInv'
BY DestroyItemBodies, ItemStepKeeps DEF DestroyItem, clientVars, roundVars

\* OnPlayerBuyFinished.
LEMMA BuyItemsBodies ==
    ASSUME IndInv, NEW c \in Clients, BuyItems(c)
    PROVE  SameBodies(ents, ents') /\ ToSet(corpses') \subseteq ToSet(corpses)
<1>. DEFINE a == gameId[c]
            Gear == {x \in ToSet(ents[a].kids) : ents[x].kind \notin {"bag", "knife"}}
<1>1. ents \in [Ids -> Entity] /\ Registry(ents) /\ corpses \in Seq(Ids)
  BY Registries, IndInvParts DEF OthersInv
<1>2. a \in Ids /\ ents[a].kind = "actor"
  BY DEF BuyItems, IsActor
<1>3. PICK gone \in SUBSET Gear :
        /\ corpses' = CorpsesWithout(gone)
        /\ \/ ents' = Destroyed(ents, gone)
           \/ \E loadout \in Loadouts : \E xs \in FreshIds(ents, Len(loadout)) :
                ents' = Equipped(Destroyed(ents, gone), a, xs, loadout)
  BY DEF BuyItems
<1>. DEFINE e == Destroyed(ents, gone)
<1>. HIDE DEF a
<1>4. \A x \in Ids : x \in gone => ents[x].kind \notin BodyKinds
  <2>1. \A x \in gone : x \in Ids /\ ents[x].parent = a
    BY <1>1, <1>2, <1>3, RegistryLinks
  <2>. QED
    BY <2>1, <1>1, <1>2, RegistryLinks, SentinelAssumption
<1>5. e \in [Ids -> Entity] /\ SameBodies(ents, e)
  BY <1>1, <1>4, DestroyedOwners, DestroyedItems
<1>6. \A x \in Ids : ents[x].kind = "free" => e[x].kind = "free"
  BY <1>1, DestroyedOwners DEF NoEntity
<1>7. e[a].kind = "actor"
  BY <1>2, <1>5, KindsDiffer DEF SameBodies
<1>. HIDE DEF e
<1>8. ASSUME NEW loadout \in Loadouts, NEW xs \in FreshIds(ents, Len(loadout))
      PROVE  SameBodies(e, Equipped(e, a, xs, loadout))
  <2>1. loadout \in Seq(ItemKinds) /\ Len(loadout) \in Nat
    BY LoadoutKinds
  <2>2. /\ xs \in Seq(Ids) /\ Len(xs) = Len(loadout)
        /\ \A x \in ToSet(xs) : x \in Ids /\ ents[x].kind = "free"
    BY <2>1, FreshIdsWork
  <2>3. \A x \in ToSet(xs) : e[x].kind = "free"
    BY <2>2, <1>6
  <2>4. a \notin ToSet(xs)
    BY <2>3, <1>7
  <2>. DEFINE d == Equipped(e, a, xs, loadout)
  <2>5. /\ \A y \in Ids : y \notin ToSet(xs) => d[y].kind = e[y].kind /\ d[y].owner = e[y].owner
        /\ \A y \in ToSet(xs) : d[y].kind \in ItemKinds /\ d[y].owner = SvClient
    BY <2>1, <2>2, <2>4, <1>2, <1>5, EquippedOwners
  <2>. HIDE DEF d
  <2>6. SameBodies(e, d)
    BY <2>3, <2>5, KindsDiffer DEF SameBodies
  <2>. QED
    BY <2>6 DEF d
<1>9. SameBodies(ents, ents')
  <2>1. CASE ents' = e
    BY <2>1, <1>5
  <2>2. ASSUME NEW loadout \in Loadouts, NEW xs \in FreshIds(ents, Len(loadout)),
               ents' = Equipped(e, a, xs, loadout)
        PROVE  SameBodies(ents, ents')
    BY <2>2, <1>5, <1>8, SameBodiesWork
  <2>. QED
    BY <2>1, <2>2, <1>3 DEF e
<1>10. ToSet(corpses') \subseteq ToSet(corpses)
  BY <1>1, <1>3, KeptIds DEF CorpsesWithout
<1>. QED
  BY <1>9, <1>10

\* The clients do not notice.
LEMMA BuyItemsKeepsClients ==
    ASSUME IndInv, IndInv', ClientsInv, NEW c \in Clients, BuyItems(c)
    PROVE  ClientsInv'
BY BuyItemsBodies, ItemStepKeeps DEF BuyItems, clientVars, roundVars

\* The steps that leave every entity as it is, but for the life of one actor.
LEMMA QuietStepBodies ==
    ASSUME IndInv,
           \/ \E c \in Clients : \/ ChangeTeam(c) \/ ChangeSkin(c) \/ PlayerKilled(c)
                                 \/ PlayerStarted(c)
           \/ \E x \in Ids : BodyDies(x)
           \/ StartCorpseRemoval \/ CorpseRemovalEnds \/ SkipCorpse \/ ScoreReached
           \/ UNCHANGED vars
    PROVE  SameBodies(ents, ents') /\ ToSet(corpses') \subseteq ToSet(corpses)
<1>1. ents \in [Ids -> Entity] /\ flags \in [Clients -> SUBSET {"dead", "watching"}]
  BY Registries, IndInvParts DEF OthersInv
<1>2. SameBodies(ents, ents')
  <2>1. SameOwners(ents, ents) /\ \A x \in Ids : SameOwners(ents, [ents EXCEPT ![x].alive = FALSE])
    BY <1>1 DEF SameOwners, Entity
  <2>2. ents' = ents \/ \E x \in Ids : ents' = [ents EXCEPT ![x].alive = FALSE]
    BY DEF ChangeTeam, ChangeSkin, PlayerKilled, PlayerStarted, BodyDies, StartCorpseRemoval,
           CorpseRemovalEnds, SkipCorpse, ScoreReached, vars
  <2>. QED
    BY <2>1, <2>2, SameBodiesWork
<1>3. ToSet(corpses') \subseteq ToSet(corpses)
  <2>1. CASE UNCHANGED corpses
    BY <2>1
  <2>2. CASE SkipCorpse
    <3>1. corpses \in Seq(Ids) /\ sweep \in 1..Len(corpses)
      BY <2>2, IndInvParts DEF OthersInv, SkipCorpse, InRemovalLoop
    <3>2. ToSet(RemoveAt(corpses, sweep)) \subseteq ToSet(corpses)
      BY <3>1, RemoveAtIds
    <3>. QED
      BY <3>2, <2>2 DEF SkipCorpse
  <2>. QED
    BY <2>1, <2>2 DEF ChangeTeam, ChangeSkin, PlayerKilled, PlayerStarted, BodyDies,
         StartCorpseRemoval, CorpseRemovalEnds, ScoreReached, vars, gameVars
<1>. QED
  BY <1>2, <1>3

\* They keep the clients' invariant.
LEMMA QuietStepKeepsClients ==
    ASSUME IndInv, IndInv', ClientsInv,
           \/ \E c \in Clients : \/ ChangeTeam(c) \/ ChangeSkin(c) \/ PlayerKilled(c)
                                 \/ PlayerStarted(c)
           \/ \E x \in Ids : BodyDies(x)
           \/ StartCorpseRemoval \/ CorpseRemovalEnds \/ SkipCorpse \/ ScoreReached
           \/ UNCHANGED vars
    PROVE  ClientsInv'
<1>1. flags \in [Clients -> SUBSET {"dead", "watching"}]
  BY IndInvParts DEF OthersInv
<1>2. SameBodies(ents, ents') /\ ToSet(corpses') \subseteq ToSet(corpses)
  BY QuietStepBodies
<1>3. UNCHANGED <<status, mainId, gameId, leaving>> /\ (phase' = "inprogress" => phase = "inprogress")
  BY DEF ChangeTeam, ChangeSkin, PlayerKilled, PlayerStarted, BodyDies, StartCorpseRemoval,
         CorpseRemovalEnds, SkipCorpse, ScoreReached, vars, clientVars, gameVars, roundVars
<1>4. \A c \in Clients : "dead" \in flags[c] => "dead" \in flags'[c]
  BY <1>1 DEF ChangeTeam, ChangeSkin, PlayerKilled, PlayerStarted, BodyDies, StartCorpseRemoval,
         CorpseRemovalEnds, SkipCorpse, ScoreReached, vars, clientVars, Killed
<1>. QED
  BY <1>2, <1>3, <1>4, ItemStepKeeps

-----------------------------------------------------------------------------
(* One lemma per action: new bodies.                                        *)

\* RespawnPlayer to an actor, from a registry e that differs from the present one
\* in what became of the former entity only.
LEMMA RespawnAsActorKeepsClients ==
    ASSUME IndInv, IndInv', ClientsInv, NEW c \in Clients, NEW e \in [Ids -> Entity],
           status[c] = "ready",
           \A y \in Ids : /\ ents[y].kind = "free" => e[y].kind = "free"
                          /\ y # mainId[c] => e[y].kind = ents[y].kind /\ e[y].owner = ents[y].owner,
           /\ e[mainId[c]].kind \notin ItemKinds
           /\ e[mainId[c]].kind \in BodyKinds => e[mainId[c]].owner = SvClient,
           \A y \in ToSet(corpses') :
              y \in ToSet(corpses) \/ (y = mainId[c] /\ e[y].kind \in BodyKinds),
           RespawnAsActor(c, e),
           UNCHANGED <<status, leaving, phase>>
    PROVE  ClientsInv'
<1>1. PICK loadout \in Loadouts : \E xs \in FreshIds(ents, 2 + Len(loadout)) :
        /\ ents' = Equipped(Created(e, xs[1], "actor", c), xs[1], Tail(xs), Kit(loadout))
        /\ Possesses(c, xs[1], "actor", flags[c])
  BY DEF RespawnAsActor
<1>2. PICK xs \in FreshIds(ents, 2 + Len(loadout)) :
        /\ ents' = Equipped(Created(e, xs[1], "actor", c), xs[1], Tail(xs), Kit(loadout))
        /\ Possesses(c, xs[1], "actor", flags[c])
  BY <1>1
<1>. DEFINE x == xs[1]
            d == Created(e, x, "actor", c)
            ys == Tail(xs)
            ks == Kit(loadout)
<1>3. Len(loadout) \in Nat /\ ks \in Seq(ItemKinds) /\ Len(ks) = 1 + Len(loadout)
  BY LoadoutKinds
<1>4. /\ xs \in Seq(Ids) /\ Len(xs) = 2 + Len(loadout) /\ Distinct(xs)
      /\ \A y \in ToSet(xs) : y \in Ids /\ ents[y].kind = "free"
  BY <1>3, FreshIdsWork
<1>5. /\ x \in ToSet(xs) /\ ys \in Seq(Ids) /\ Len(ys) = Len(ks)
      /\ ToSet(ys) \subseteq ToSet(xs) \ {x}
  BY <1>3, <1>4, TailOfDistinct
<1>6. ents' = Equipped(d, x, ys, ks) /\ Possesses(c, x, "actor", flags[c])
  BY <1>2
<1>. HIDE DEF x, ys, ks
<1>7. x \in Ids /\ ents[x].kind = "free" /\ \A y \in ToSet(ys) : ents[y].kind = "free" /\ y # x
  BY <1>4, <1>5
<1>8. /\ d \in [Ids -> Entity] /\ d[x].kind = "actor" /\ d[x].owner = c
      /\ \A y \in Ids \ {x} : d[y] = e[y]
  BY <1>7, CreatedOwners, EmptyVector DEF Created, Entity, BodyKinds
<1>. HIDE DEF d
<1>9. /\ \A y \in Ids : y \notin ToSet(ys) => ents'[y].kind = d[y].kind /\ ents'[y].owner = d[y].owner
      /\ \A y \in ToSet(ys) : ents'[y].kind \in ItemKinds /\ ents'[y].owner = SvClient
  BY <1>3, <1>5, <1>6, <1>7, <1>8, EquippedOwners
<1>10. ents'[x].kind = "actor" /\ ents'[x].owner = c
  BY <1>7, <1>8, <1>9
<1>11. \A y \in Ids : y # x => \/ ents'[y].kind = e[y].kind /\ ents'[y].owner = e[y].owner
                              \/ /\ ents'[y].kind \in ItemKinds /\ ents'[y].owner = SvClient
                                 /\ ents[y].kind = "free"
  BY <1>7, <1>8, <1>9
<1>12. mainId[c] \in Ids /\ ents[mainId[c]].kind \in BodyKinds /\ ents[mainId[c]].owner = c
  BY OwnMainEntity
<1>13. ItemsOwned(ents')
  BY <1>10, <1>11, KindsDiffer DEF ItemsOwned, ClientsInv
<1>14. \A y \in Ids : y # x /\ y # mainId[c] =>
         (ents[y].kind \in BodyKinds \/ ents'[y].kind \in BodyKinds =>
            ents'[y].kind = ents[y].kind /\ ents'[y].owner = ents[y].owner)
  BY <1>11, KindsDiffer
<1>15. /\ mainId[c] # x
       /\ ents'[mainId[c]].kind = e[mainId[c]].kind /\ ents'[mainId[c]].owner = e[mainId[c]].owner
  BY <1>7, <1>11, <1>12, KindsDiffer
<1>16. status' = [status EXCEPT ![c] = "ready"] /\ status[c] # "absent" /\ UNCHANGED <<leaving, phase>>
  BY IndInvParts DEF OthersInv
<1>17. /\ ents'[mainId[c]].kind \in BodyKinds => ents'[mainId[c]].owner = SvClient
       /\ \A y \in ToSet(corpses') :
            y \in ToSet(corpses) \/ (y = mainId[c] /\ ents'[y].kind \in BodyKinds)
  BY <1>15
<1>18. /\ x \in Ids /\ ents[x].kind = "free" /\ "actor" \in BodyKinds
       /\ Possesses(c, x, "actor", flags[c])
  BY <1>6, <1>7, KindsDiffer
<1>. QED
  BY <1>10, <1>13, <1>14, <1>16, <1>17, <1>18, NewBodyKeeps

\* A spectator is destroyed and replaced by an actor.
LEMMA SpectatorEntersKeepsClients ==
    ASSUME IndInv, IndInv', ClientsInv, NEW c \in Clients, status[c] = "ready",
           SpectatorEnters(c), UNCHANGED <<status, leaving, phase>>
    PROVE  ClientsInv'
<1>. DEFINE m == mainId[c]
            e1 == Disowned(ents, m)
            e2 == Destroyed(e1, {m})
<1>1. ents \in [Ids -> Entity] /\ m \in Ids /\ corpses \in Seq(Ids)
  BY Registries, OwnMainEntity, IndInvParts DEF OthersInv
<1>2. RespawnAsActor(c, e2) /\ corpses' = CorpsesWithout({m})
  BY DEF SpectatorEnters
<1>. HIDE DEF m
<1>3. /\ e1 \in [Ids -> Entity] /\ \A y \in Ids : e1[y].kind = ents[y].kind
      /\ \A y \in Ids : y # m => e1[y] = ents[y]
  BY <1>1, DisownedOwners
<1>. HIDE DEF e1
<1>4. /\ e2 \in [Ids -> Entity] /\ e2[m].kind = "free"
      /\ \A y \in Ids : y # m => e2[y].kind = e1[y].kind /\ e2[y].owner = e1[y].owner
  BY <1>1, <1>3, DestroyedOwners DEF NoEntity
<1>. HIDE DEF e2
<1>5. \A y \in Ids : /\ ents[y].kind = "free" => e2[y].kind = "free"
                     /\ y # m => e2[y].kind = ents[y].kind /\ e2[y].owner = ents[y].owner
  BY <1>3, <1>4
<1>6. ToSet(corpses') \subseteq ToSet(corpses)
  BY <1>1, <1>2, KeptIds DEF CorpsesWithout
<1>7. e2[m].kind \notin ItemKinds \cup BodyKinds
  BY <1>4, KindsDiffer
<1>. QED
  BY <1>2, <1>4, <1>5, <1>6, <1>7, RespawnAsActorKeepsClients DEF m

\* A client that had an actor, or nothing, becomes a spectator.
LEMMA SpectatorSpawnKeepsClients ==
    ASSUME IndInv, IndInv', ClientsInv, NEW c \in Clients, status[c] = "ready",
           NEW x \in Free(ents), NEW fl,
           ents' = Created(Disowned(ents, gameId[c]), x, "spectator", c),
           Possesses(c, x, "spectator", fl),
           corpses' = Append(corpses, gameId[c]),
           UNCHANGED <<status, leaving, phase>>
    PROVE  ClientsInv'
<1>. DEFINE m == mainId[c]
            e == Disowned(ents, m)
<1>1. /\ ents \in [Ids -> Entity] /\ m \in Ids /\ gameId[c] = m /\ corpses \in Seq(Ids)
      /\ ents[m].kind \in BodyKinds
  BY Registries, OwnMainEntity, IndInvParts DEF OthersInv
<1>2. x \in Ids /\ ents[x].kind = "free" /\ m \in Live(ents) /\ x # m
  BY <1>1, KindsDiffer DEF Free, Live
<1>. HIDE DEF m
<1>3. /\ e \in [Ids -> Entity] /\ \A y \in Ids : e[y].kind = ents[y].kind
      /\ \A y \in Ids : y # m => e[y] = ents[y]
      /\ e[m].owner = SvClient
  BY <1>1, <1>2, DisownedOwners
<1>4. ents' = Created(e, x, "spectator", c)
  BY <1>1
<1>. HIDE DEF e
<1>5. /\ ents'[x].kind = "spectator" /\ ents'[x].owner = c
      /\ \A y \in Ids \ {x} : ents'[y] = e[y]
  BY <1>2, <1>3, <1>4, CreatedOwners
<1>6. \A y \in Ids : y # x /\ y # m => ents'[y] = ents[y]
  BY <1>3, <1>5
<1>7. ents'[m].kind = ents[m].kind /\ ents'[m].owner = SvClient
  BY <1>1, <1>2, <1>3, <1>5
<1>8. ItemsOwned(ents')
  BY <1>5, <1>6, <1>7, KindsDiffer DEF ItemsOwned, ClientsInv
<1>9. \A y \in ToSet(corpses') : y \in ToSet(corpses) \/ (y = m /\ ents'[y].kind \in BodyKinds)
  <2>1. ToSet(Append(corpses, m)) = ToSet(corpses) \cup {m}
    BY <1>1, AppendIds
  <2>. QED
    BY <2>1, <1>1, <1>7
<1>10. status' = [status EXCEPT ![c] = "ready"] /\ status[c] # "absent" /\ UNCHANGED <<leaving, phase>>
  BY IndInvParts DEF OthersInv
<1>11. "spectator" \in BodyKinds
  BY KindsDiffer
<1>. QED
  BY <1>2, <1>5, <1>6, <1>7, <1>8, <1>9, <1>10, <1>11, NewBodyKeeps DEF m

\* OnPlayerConnectFinished.
LEMMA ConnectFinishedKeepsClients ==
    ASSUME IndInv, IndInv', ClientsInv, NEW c \in Clients, ConnectFinished(c)
    PROVE  ClientsInv'
<1>1. PICK x \in Free(ents) :
        /\ ents' = Created(ents, x, "spectator", c)
        /\ Possesses(c, x, "spectator", flags[c] \cup {"watching"})
  BY DEF ConnectFinished
<1>2. x \in Ids /\ ents[x].kind = "free" /\ ents \in [Ids -> Entity]
  BY Registries DEF Free, Live
<1>3. /\ ents'[x].kind = "spectator" /\ ents'[x].owner = c
      /\ \A y \in Ids \ {x} : ents'[y] = ents[y]
  BY <1>1, <1>2, CreatedOwners
<1>4. /\ status[c] = "joining" /\ status' = [status EXCEPT ![c] = "ready"]
      /\ corpses' = corpses /\ UNCHANGED <<leaving, phase>>
  BY DEF ConnectFinished, roundVars
<1>5. mainId[c] \notin Ids
  BY <1>4, OwnMainEntity, SentinelAssumption
<1>6. ItemsOwned(ents')
  BY <1>3, KindsDiffer DEF ItemsOwned, ClientsInv
<1>. QED
  BY <1>1, <1>2, <1>3, <1>4, <1>5, <1>6, NewBodyKeeps, KindsDiffer

\* OnPlayerReady.
LEMMA PlayerReadyKeepsClients ==
    ASSUME IndInv, IndInv', ClientsInv, NEW c \in Clients, PlayerReady(c)
    PROVE  ClientsInv'
<1>1. status[c] = "ready" /\ UNCHANGED <<status, leaving, phase>>
  BY DEF PlayerReady, MayRespawn, roundVars
<1>2. CASE SpectatorEnters(c)
  BY <1>1, <1>2, SpectatorEntersKeepsClients
<1>3. ASSUME NEW x \in Free(ents),
             ents' = Created(Disowned(ents, gameId[c]), x, "spectator", c),
             Possesses(c, x, "spectator", flags[c]),
             corpses' = Append(corpses, mainId[c])
      PROVE  ClientsInv'
  <2>1. corpses' = Append(corpses, gameId[c])
    BY <1>1, <1>3, OwnMainEntity
  <2>. QED
    BY <1>1, <1>3, <2>1, SpectatorSpawnKeepsClients
<1>. QED
  BY <1>2, <1>3 DEF PlayerReady

\* check_ForceRespawn.
LEMMA ForceRespawnKeepsClients ==
    ASSUME IndInv, IndInv', ClientsInv, NEW c \in Clients, ForceRespawn(c)
    PROVE  ClientsInv'
<1>1. status[c] = "ready" /\ UNCHANGED <<status, leaving, phase>>
  BY DEF ForceRespawn, MayRespawn, roundVars
<1>2. CASE SpectatorEnters(c)
  BY <1>1, <1>2, SpectatorEntersKeepsClients
<1>3. CASE /\ RespawnAsActor(c, Disowned(Disowned(ents, gameId[c]), mainId[c]))
           /\ corpses' = Append(corpses, mainId[c])
  <2>. DEFINE m == mainId[c]
              e1 == Disowned(ents, m)
              e2 == Disowned(e1, m)
  <2>1. /\ ents \in [Ids -> Entity] /\ m \in Ids /\ gameId[c] = m /\ corpses \in Seq(Ids)
        /\ ents[m].kind \in BodyKinds
    BY <1>1, Registries, OwnMainEntity, IndInvParts DEF OthersInv
  <2>2. RespawnAsActor(c, e2)
    BY <1>3, <2>1
  <2>. HIDE DEF m
  <2>3. /\ e1 \in [Ids -> Entity] /\ \A y \in Ids : e1[y].kind = ents[y].kind
        /\ \A y \in Ids : y # m => e1[y] = ents[y]
    BY <2>1, DisownedOwners
  <2>4. m \in Live(e1)
    BY <2>1, <2>3, KindsDiffer DEF Live
  <2>. HIDE DEF e1
  <2>5. /\ e2 \in [Ids -> Entity] /\ \A y \in Ids : e2[y].kind = e1[y].kind
        /\ \A y \in Ids : y # m => e2[y] = e1[y]
        /\ e2[m].owner = SvClient
    BY <2>3, <2>4, DisownedOwners
  <2>. HIDE DEF e2
  <2>6. /\ \A y \in Ids : /\ ents[y].kind = "free" => e2[y].kind = "free"
                          /\ y # m => e2[y].kind = ents[y].kind /\ e2[y].owner = ents[y].owner
        /\ e2[m].kind \in BodyKinds /\ e2[m].kind \notin ItemKinds
    BY <2>1, <2>3, <2>5, KindsDiffer
  <2>7. \A y \in ToSet(corpses') : y \in ToSet(corpses) \/ (y = m /\ e2[y].kind \in BodyKinds)
    <3>1. ToSet(Append(corpses, m)) = ToSet(corpses) \cup {m}
      BY <2>1, AppendIds
    <3>. QED
      BY <3>1, <1>3, <2>6 DEF m
  <2>. QED
    BY <1>1, <2>2, <2>5, <2>6, <2>7, RespawnAsActorKeepsClients DEF m
<1>. QED
  BY <1>2, <1>3 DEF ForceRespawn

\* OnPlayerSelectSpectator.
LEMMA SelectSpectatorKeepsClients ==
    ASSUME IndInv, IndInv', ClientsInv, NEW c \in Clients, SelectSpectator(c)
    PROVE  ClientsInv'
<1>. DEFINE fl == Killed(c) \cup {"watching"}
<1>1. status[c] = "ready" /\ UNCHANGED <<status, leaving, phase>>
  BY DEF SelectSpectator, Obeyed, roundVars
<1>2. ASSUME NEW x \in Free(ents),
             ents' = Created(Disowned(ents, gameId[c]), x, "spectator", c),
             Possesses(c, x, "spectator", fl),
             corpses' = Append(corpses, gameId[c])
      PROVE  ClientsInv'
  <2>. HIDE DEF fl
  <2>. QED
    BY <1>1, <1>2, SpectatorSpawnKeepsClients
<1>3. CASE /\ flags' = [flags EXCEPT ![c] = fl]
           /\ UNCHANGED <<ents, mainId, gameId, corpses>>
  <2>1. \A d \in Clients : "dead" \in flags[d] => "dead" \in flags'[d]
    BY <1>3, IndInvParts DEF Killed, OthersInv
  <2>2. SameBodies(ents, ents')
    BY <1>3 DEF SameBodies
  <2>. QED
    BY <1>1, <1>3, <2>1, <2>2, ItemStepKeeps
<1>. QED
  BY <1>2, <1>3 DEF SelectSpectator

-----------------------------------------------------------------------------
(* One lemma per action: clients that come and go, corpses and rounds.      *)

\* The members of the queue of disconnect events.
LEMMA LeavingIds ==
    ASSUME IndInv
    PROVE  leaving \in Seq(Ids \cup {NoId}) /\ ToSet(leaving) \subseteq Ids \cup {NoId}
<1>1. leaving \in Seq(Ids \cup {NoId})
  BY IndInvParts DEF OthersInv
<1>2. \A i \in DOMAIN leaving : leaving[i] \in Ids \cup {NoId}
  BY <1>1, ElementOfSeq, LenProperties
<1>. QED
  BY <1>1, <1>2 DEF ToSet

\* AttachNewClient .. OnPlayerConnect.
LEMMA ConnectKeepsClients ==
    ASSUME IndInv, IndInv', ClientsInv, GameIdIsClear, NEW c \in Clients, Connect(c)
    PROVE  ClientsInv'
<1>1. /\ status[c] = "absent" /\ \A x \in Ids : ents[x].owner # c
      /\ status' = [status EXCEPT ![c] = "joining"]
      /\ mainId' = [mainId EXCEPT ![c] = NoId]
      /\ gameId' = [gameId EXCEPT ![c] = NoId]
      /\ flags' = [flags EXCEPT ![c] = {"watching"}]
      /\ UNCHANGED <<ents, corpses, leaving, phase>>
  BY DEF Connect, GameIdIsClear, roundVars
<1>2. /\ status \in [Clients -> {"absent", "joining", "ready"}]
      /\ mainId \in [Clients -> Ids \cup {NoId}] /\ gameId \in [Clients -> Ids \cup {NoId}]
      /\ flags \in [Clients -> SUBSET {"dead", "watching"}]
  BY IndInvParts DEF OthersInv
<1>3. \A d \in Clients \ {c} : /\ status'[d] = status[d] /\ mainId'[d] = mainId[d]
                               /\ gameId'[d] = gameId[d] /\ flags'[d] = flags[d]
  BY <1>1, <1>2
<1>4. /\ status'[c] = "joining" /\ mainId'[c] = NoId /\ gameId'[c] = NoId
      /\ ents' = ents /\ corpses' = corpses /\ leaving' = leaving /\ phase' = phase
  BY <1>1, <1>2
<1>5. ItemsOwned(ents') /\ CorpsesAreBodies'
  BY <1>4 DEF ClientsInv, CorpsesAreBodies
<1>6. MainEntityIsOwn'
  BY <1>3, <1>4 DEF ClientsInv, MainEntityIsOwn, Connected
<1>7. JoiningHasNothing'
  BY <1>1, <1>3, <1>4 DEF ClientsInv, JoiningHasNothing
<1>8. LeaversAreGone'
  <2>1. \A x \in ToSet(leaving) \ {NoId} : x \in Ids
    BY LeavingIds
  <2>. QED
    BY <2>1, <1>1, <1>3, <1>4 DEF ClientsInv, LeaversAreGone
<1>9. LivingPlayerHasActor'
  BY <1>3, <1>4 DEF ClientsInv, LivingPlayerHasActor, IsActor
<1>. QED
  BY <1>5, <1>6, <1>7, <1>8, <1>9 DEF ClientsInv

\* OnCL_Disconnected queues the GameID: the body left behind, or nothing.
LEMMA DisconnectKeepsClients ==
    ASSUME IndInv, IndInv', ClientsInv, NEW c \in Clients, Disconnect(c)
    PROVE  ClientsInv'
<1>. DEFINE g == gameId[c]
<1>1. /\ status[c] # "absent"
      /\ status' = [status EXCEPT ![c] = "absent"]
      /\ leaving' = Append(leaving, g)
      /\ UNCHANGED <<ents, mainId, gameId, flags, corpses, phase>>
  BY DEF Disconnect
<1>2. /\ status \in [Clients -> {"absent", "joining", "ready"}]
      /\ leaving \in Seq(Ids \cup {NoId}) /\ ToSet(leaving) \subseteq Ids \cup {NoId}
      /\ g \in Ids \cup {NoId}
  BY IndInvParts, LeavingIds DEF OthersInv
<1>3. /\ \A d \in Clients \ {c} : status'[d] = status[d]
      /\ status'[c] = "absent"
      /\ ents' = ents /\ mainId' = mainId /\ gameId' = gameId /\ flags' = flags
      /\ corpses' = corpses /\ phase' = phase
  BY <1>1, <1>2
<1>4. \/ status[c] = "joining" /\ g = NoId /\ \A x \in Ids : ents[x].owner # c
      \/ /\ status[c] = "ready" /\ g \in Ids /\ g = mainId[c]
         /\ ents[g].kind \in BodyKinds /\ ents[g].owner = c
  BY <1>1, OwnMainEntity
<1>5. /\ DOMAIN leaving = 1..Len(leaving) /\ Len(leaving) \in Nat
      /\ DOMAIN leaving' = 1..(Len(leaving) + 1)
      /\ leaving'[Len(leaving) + 1] = g
      /\ \A i \in 1..Len(leaving) : leaving'[i] = leaving[i]
  <2>. HIDE DEF g
  <2>. QED
    BY <1>1, <1>2
<1>6. \A x : x \in ToSet(leaving') <=> x \in ToSet(leaving) \/ x = g
  <2>1. \A i \in DOMAIN leaving' : i = Len(leaving) + 1 \/ i \in DOMAIN leaving
    BY <1>5
  <2>2. Len(leaving) + 1 \in DOMAIN leaving' /\ \A i \in DOMAIN leaving : i \in DOMAIN leaving'
    BY <1>5
  <2>. HIDE DEF g
  <2>. QED
    BY <2>1, <2>2, <1>5 DEF ToSet
<1>7. g # NoId => g \notin ToSet(leaving)
  BY <1>1, <1>4 DEF ClientsInv, LeaversAreGone
<1>. HIDE DEF g
<1>8. ItemsOwned(ents') /\ CorpsesAreBodies'
  BY <1>3 DEF ClientsInv, CorpsesAreBodies
<1>9. MainEntityIsOwn'
  BY <1>3 DEF ClientsInv, MainEntityIsOwn, Connected
<1>10. JoiningHasNothing'
  BY <1>3 DEF ClientsInv, JoiningHasNothing
<1>11. LeaversAreGone'
  <2>1. ASSUME NEW x \in ToSet(leaving') \ {NoId}
        PROVE  /\ ents'[x].kind \in BodyKinds
               /\ ents'[x].owner \in Clients /\ status'[ents'[x].owner] = "absent"
    <3>1. CASE x \in ToSet(leaving)
      BY <3>1, <1>3 DEF ClientsInv, LeaversAreGone
    <3>2. CASE x = g
      BY <3>2, <1>3, <1>4
    <3>. QED
      BY <3>1, <3>2, <1>6
  <2>2. ASSUME NEW i \in DOMAIN leaving', NEW j \in DOMAIN leaving', leaving'[i] = leaving'[j]
        PROVE  i = j \/ leaving'[i] = NoId
    <3>1. \A k \in DOMAIN leaving' : k = Len(leaving) + 1 \/ k \in DOMAIN leaving
      BY <1>5
    <3>2. \A k \in DOMAIN leaving : leaving[k] \in ToSet(leaving)
      BY DEF ToSet
    <3>. QED
      BY <2>2, <3>1, <3>2, <1>5, <1>7 DEF ClientsInv, LeaversAreGone
  <2>. QED
    BY <2>1, <2>2 DEF LeaversAreGone
<1>12. LivingPlayerHasActor'
  BY <1>3 DEF ClientsInv, LivingPlayerHasActor, IsActor
<1>. QED
  BY <1>8, <1>9, <1>10, <1>11, <1>12 DEF ClientsInv

\* OnPlayerDisconnect: the body the event names passes to the server.
LEMMA PlayerDisconnectedKeepsClients ==
    ASSUME IndInv, IndInv', ClientsInv, PlayerDisconnected
    PROVE  ClientsInv'
<1>. DEFINE g == Head(leaving)
<1>1. /\ leaving # <<>> /\ leaving' = Tail(leaving)
      /\ ents' = Disowned(ents, g)
      /\ corpses' = IF g \in Live(ents) THEN Append(corpses, g) ELSE corpses
      /\ UNCHANGED <<status, mainId, gameId, flags, phase>>
  BY DEF PlayerDisconnected, clientVars, roundVars
<1>2. /\ ents \in [Ids -> Entity] /\ Registry(ents) /\ Registry(ents')
      /\ corpses \in Seq(Ids) /\ ToSet(corpses) \subseteq Ids
      /\ mainId \in [Clients -> Ids \cup {NoId}] /\ gameId \in [Clients -> Ids \cup {NoId}]
      /\ leaving \in Seq(Ids \cup {NoId}) /\ ToSet(leaving) \subseteq Ids \cup {NoId}
  BY Registries, IndInvParts, SeqOfIds, LeavingIds DEF OthersInv
<1>3. /\ Len(leaving) \in Nat /\ Len(leaving) >= 1 /\ DOMAIN leaving = 1..Len(leaving)
      /\ DOMAIN leaving' = 1..(Len(leaving) - 1)
      /\ leaving[1] = g /\ \A i \in 1..(Len(leaving) - 1) : leaving'[i] = leaving[i + 1]
  <2>1. /\ Len(leaving) \in Nat /\ DOMAIN leaving = 1..Len(leaving) /\ Len(leaving) >= 1
    BY <1>1, <1>2, EmptySeq
  <2>2. /\ Tail(leaving) \in Seq(Ids \cup {NoId}) /\ Len(Tail(leaving)) = Len(leaving) - 1
        /\ \A i \in 1..Len(Tail(leaving)) : Tail(leaving)[i] = leaving[i + 1]
        /\ g = leaving[1]
    BY <1>1, <1>2, <2>1, HeadTailProperties
  <2>. QED
    BY <1>1, <2>1, <2>2, LenProperties
<1>4. g \in ToSet(leaving) /\ g \in Ids \cup {NoId}
  <2>1. 1 \in DOMAIN leaving
    BY <1>3
  <2>. QED
    BY <2>1, <1>2, <1>3 DEF ToSet
<1>. HIDE DEF g
<1>5. /\ ToSet(leaving') \subseteq ToSet(leaving)
      /\ g \in ToSet(leaving') => g = NoId
  <2>1. \A i \in DOMAIN leaving' : i + 1 \in DOMAIN leaving /\ leaving'[i] = leaving[i + 1] /\ i + 1 # 1
    BY <1>3
  <2>2. \A i \in DOMAIN leaving' : leaving'[i] = g => g = NoId
    <3>1. 1 \in DOMAIN leaving
      BY <1>3
    <3>. QED
      BY <2>1, <3>1, <1>3 DEF ClientsInv, LeaversAreGone
  <2>. QED
    BY <2>1, <2>2 DEF ToSet
<1>6. g # NoId => /\ g \in Ids /\ ents[g].kind \in BodyKinds /\ g \in Live(ents)
                  /\ ents[g].owner \in Clients /\ status[ents[g].owner] = "absent"
  BY <1>4, KindsDiffer DEF ClientsInv, LeaversAreGone, Live
<1>7. /\ \A y \in Ids : ents'[y].kind = ents[y].kind
      /\ \A y \in Ids : y # g => ents'[y] = ents[y]
      /\ g # NoId => ents'[g].owner = SvClient
  BY <1>1, <1>2, <1>6, DisownedOwners
<1>8. ItemsOwned(ents')
  BY <1>6, <1>7, SentinelAssumption DEF ClientsInv, ItemsOwned
<1>9. CorpsesAreBodies'
  <2>1. \A x \in ToSet(corpses') : x \in ToSet(corpses) \/ (x = g /\ g # NoId)
    <3>1. g \in Live(ents) => g \in Ids /\ ToSet(Append(corpses, g)) = ToSet(corpses) \cup {g}
      BY <1>2, AppendIds DEF Live
    <3>. QED
      BY <3>1, <1>1, SentinelAssumption
  <2>. QED
    BY <2>1, <1>2, <1>6, <1>7, SentinelAssumption DEF ClientsInv, CorpsesAreBodies
<1>10. MainEntityIsOwn'
  BY <1>1, <1>2, <1>6, <1>7 DEF ClientsInv, MainEntityIsOwn, Connected
<1>11. \A x \in Ids : ents'[x].owner \in Clients => ents'[x].owner = ents[x].owner /\ x # g
  BY <1>6, <1>7, SentinelAssumption
<1>12. JoiningHasNothing'
  BY <1>1, <1>11 DEF ClientsInv, JoiningHasNothing
<1>13. LeaversAreGone'
  <2>1. ASSUME NEW x \in ToSet(leaving') \ {NoId}
        PROVE  /\ ents'[x].kind \in BodyKinds
               /\ ents'[x].owner \in Clients /\ status'[ents'[x].owner] = "absent"
    <3>1. x \in ToSet(leaving) /\ x \in Ids /\ x # g
      BY <1>2, <1>5
    <3>2. ents'[x] = ents[x] /\ status' = status
      BY <3>1, <1>1, <1>7
    <3>. QED
      BY <3>1, <3>2 DEF ClientsInv, LeaversAreGone
  <2>2. ASSUME NEW i \in DOMAIN leaving', NEW j \in DOMAIN leaving', leaving'[i] = leaving'[j]
        PROVE  i = j \/ leaving'[i] = NoId
    <3>1. i \in Int /\ j \in Int /\ i + 1 \in DOMAIN leaving /\ j + 1 \in DOMAIN leaving
      BY <1>3
    <3>2. leaving[i + 1] = leaving[j + 1] /\ leaving'[i] = leaving[i + 1]
      BY <2>2, <1>3
    <3>3. i + 1 = j + 1 \/ leaving[i + 1] = NoId
      BY <3>1, <3>2 DEF ClientsInv, LeaversAreGone
    <3>. QED
      BY <3>1, <3>2, <3>3
  <2>. QED
    BY <2>1, <2>2 DEF LeaversAreGone
<1>14. LivingPlayerHasActor'
  BY <1>1, <1>7 DEF ClientsInv, LivingPlayerHasActor, IsActor
<1>. QED
  BY <1>8, <1>9, <1>10, <1>12, <1>13, <1>14 DEF ClientsInv

\* A corpse is destroyed: it was the server's, and nobody's main entity.
LEMMA RemoveCorpseKeepsClients ==
    ASSUME IndInv, IndInv', ClientsInv, RemoveCorpse
    PROVE  ClientsInv'
<1>. DEFINE x == corpses[sweep]
            left == CorpsesWithout({x})
<1>1. /\ ents \in [Ids -> Entity] /\ Registry(ents) /\ Registry(ents')
      /\ corpses \in Seq(Ids) /\ ToSet(corpses) \subseteq Ids
      /\ sweep \in 1..Len(corpses) /\ sweep \in Nat
      /\ mainId \in [Clients -> Ids \cup {NoId}] /\ gameId \in [Clients -> Ids \cup {NoId}]
  BY Registries, IndInvParts, SeqOfIds DEF OthersInv, RemoveCorpse, InRemovalLoop
<1>2. x \in ToSet(corpses) /\ x \in Ids
  BY <1>1, SeqOfIds DEF ToSet
<1>3. ents[x].kind \in BodyKinds /\ ents[x].owner = SvClient
  BY <1>2 DEF ClientsInv, CorpsesAreBodies
<1>4. /\ ents' = Destroyed(ents, {x})
      /\ mainId' = [c \in Clients |-> IF mainId[c] = x /\ ents[x].owner = c THEN NoId ELSE mainId[c]]
      /\ UNCHANGED <<status, gameId, flags, leaving, phase>>
      /\ \/ sweep <= Len(left) /\ corpses' = RemoveAt(left, sweep)
         \/ corpses' \in {left, Front(left)}
  BY DEF RemoveCorpse, roundVars
<1>. HIDE DEF x
<1>5. mainId' = mainId
  BY <1>1, <1>3, <1>4, SentinelAssumption
<1>6. left \in Seq(Ids) /\ ToSet(left) = ToSet(corpses) \ {x}
  BY <1>1, KeptIds DEF CorpsesWithout
<1>. HIDE DEF left
<1>7. ToSet(corpses') \subseteq ToSet(corpses) \ {x}
  <2>1. Len(left) \in Nat /\ DOMAIN left = 1..Len(left)
    BY <1>6, LenProperties
  <2>2. ASSUME sweep <= Len(left) PROVE ToSet(RemoveAt(left, sweep)) \subseteq ToSet(left)
    <3>1. sweep \in 1..Len(left)
      BY <2>1, <2>2, <1>1
    <3>. QED
      BY <3>1, <1>6, RemoveAtIds
  <2>3. ToSet(Front(left)) \subseteq ToSet(left)
    <3>1. CASE left = <<>>
      BY <3>1, <2>1 DEF Front, ToSet
    <3>2. CASE left # <<>>
      <4>1. Len(left) >= 1
        BY <3>2, <1>6, SeqOfIds
      <4>2. DOMAIN Front(left) = 1..(Len(left) - 1) /\ \A i \in 1..(Len(left) - 1) : Front(left)[i] = left[i]
        BY <4>1, <2>1, <1>6 DEF Front
      <4>3. \A i \in 1..(Len(left) - 1) : i \in DOMAIN left
        BY <2>1
      <4>. QED
        BY <4>2, <4>3 DEF ToSet
    <3>. QED
      BY <3>1, <3>2
  <2>. QED
    BY <2>2, <2>3, <1>4, <1>6
<1>8. /\ ents'[x].kind = "free" /\ ents'[x].owner = NoClient
      /\ \A y \in Ids : y # x => ents'[y].kind = ents[y].kind /\ ents'[y].owner = ents[y].owner
  BY <1>1, <1>2, <1>4, DestroyedOwners DEF NoEntity
<1>9. ItemsOwned(ents')
  BY <1>8, KindsDiffer DEF ClientsInv, ItemsOwned
<1>10. CorpsesAreBodies'
  BY <1>1, <1>7, <1>8 DEF ClientsInv, CorpsesAreBodies
<1>11. MainEntityIsOwn'
  <2>. SUFFICES ASSUME NEW c \in Clients, status[c] # "absent", mainId[c] # NoId
                PROVE  ents'[mainId[c]].kind \in BodyKinds /\ ents'[mainId[c]].owner = c
    BY <1>4, <1>5 DEF ClientsInv, MainEntityIsOwn, Connected
  <2>1. /\ mainId[c] \in Ids
        /\ ents[mainId[c]].kind \in BodyKinds /\ ents[mainId[c]].owner = c
    BY <1>1 DEF ClientsInv, MainEntityIsOwn, Connected
  <2>2. mainId[c] # x
    BY <2>1, <1>3, SentinelAssumption
  <2>. QED
    BY <2>1, <2>2, <1>8
<1>12. \A y \in Ids : ents'[y].owner \in Clients => ents'[y].owner = ents[y].owner
  BY <1>8, SentinelAssumption
<1>13. JoiningHasNothing'
  BY <1>4, <1>5, <1>12 DEF ClientsInv, JoiningHasNothing
<1>14. LeaversAreGone'
  <2>1. \A y \in ToSet(leaving) \ {NoId} : y \in Ids
    BY LeavingIds
  <2>2. ASSUME NEW y \in ToSet(leaving) \ {NoId}
        PROVE  /\ ents'[y].kind \in BodyKinds
               /\ ents'[y].owner \in Clients /\ status[ents'[y].owner] = "absent"
    <3>1. y # x
      BY <1>3, SentinelAssumption DEF ClientsInv, LeaversAreGone
    <3>. QED
      BY <2>1, <3>1, <1>8 DEF ClientsInv, LeaversAreGone
  <2>. QED
    BY <2>2, <1>4 DEF ClientsInv, LeaversAreGone
<1>15. LivingPlayerHasActor'
  <2>. SUFFICES ASSUME NEW c \in Clients, status[c] = "ready", "dead" \notin flags[c]
                PROVE  gameId[c] \in Ids /\ ents'[gameId[c]].kind = "actor"
    BY <1>4 DEF LivingPlayerHasActor, IsActor
  <2>1. gameId[c] \in Ids /\ ents[gameId[c]].kind = "actor" /\ ents[gameId[c]].owner = c
    BY OwnMainEntity DEF ClientsInv, LivingPlayerHasActor, IsActor
  <2>. QED
    BY <2>1, <1>3, <1>8, SentinelAssumption
<1>. QED
  BY <1>9, <1>10, <1>11, <1>13, <1>14, <1>15 DEF ClientsInv

\* The spectators OnRoundEnd and OnRoundStart hand out.
LEMMA WithSpectatorsOwners ==
    ASSUME NEW e, NEW C \in SUBSET Clients, NEW f \in FreshFor(C, e)
    PROVE  /\ \A c \in C : /\ f[c] \in Ids /\ e[f[c]].kind = "free"
                           /\ WithSpectators(e, C, f)[f[c]].kind = "spectator"
                           /\ WithSpectators(e, C, f)[f[c]].owner = c
           /\ \A x \in Ids : \/ \E c \in C : x = f[c]
                             \/ WithSpectators(e, C, f)[x] = e[x]
<1>. DEFINE d == WithSpectators(e, C, f)
            spectator(c) == [NoEntity EXCEPT !.kind = "spectator", !.owner = c]
            owner(x) == CHOOSE c \in C : f[c] = x
<1>1. /\ \A c \in C : f[c] \in Ids /\ e[f[c]].kind = "free"
      /\ \A b, c \in C : f[b] = f[c] => b = c
  BY DEF FreshFor, Free, Live
<1>2. d = [x \in Ids |-> IF \E c \in C : f[c] = x THEN spectator(owner(x)) ELSE e[x]]
  BY DEF WithSpectators
<1>3. \A c : spectator(c).kind = "spectator" /\ spectator(c).owner = c
  BY DEF NoEntity
<1>4. \A c \in C : owner(f[c]) = c
  BY <1>1
<1>. HIDE DEF d, spectator, owner
<1>5. \A c \in C : d[f[c]] = spectator(c)
  BY <1>1, <1>2, <1>4
<1>6. \A x \in Ids : (\E c \in C : x = f[c]) \/ d[x] = e[x]
  BY <1>2
<1>. QED
  BY <1>1, <1>3, <1>5, <1>6 DEF d

\* OnRoundEnd: with no client joining, everyone connected gets a spectator.
LEMMA RoundEndKeepsClients ==
    ASSUME IndInv, IndInv', ClientsInv, RoundsAreNotCut, RoundEnd
    PROVE  ClientsInv'
<1>1. /\ phase' = "pending" /\ leaving' = <<>> /\ UNCHANGED <<status, corpses>>
  BY DEF RoundEnd
<1>2. LeaversAreGone'
  <2>1. ToSet(leaving') = {} /\ DOMAIN leaving' = {}
    BY <1>1 DEF ToSet
  <2>. QED
    BY <2>1 DEF LeaversAreGone
<1>4. CASE UNCHANGED <<ents, mainId, gameId, flags>>
  <2>1. ItemsOwned(ents') /\ CorpsesAreBodies' /\ JoiningHasNothing'
    BY <1>1, <1>4 DEF ClientsInv, CorpsesAreBodies, JoiningHasNothing
  <2>2. MainEntityIsOwn' /\ LivingPlayerHasActor'
    BY <1>1, <1>4 DEF ClientsInv, MainEntityIsOwn, LivingPlayerHasActor, Connected, IsActor
  <2>. QED
    BY <2>1, <2>2, <1>2 DEF ClientsInv
<1>5. ASSUME NEW f \in FreshFor(Connected, ents),
             ents' = WithSpectators(ents, Connected, f),
             mainId' = [c \in Clients |-> IF c \in Connected THEN f[c] ELSE mainId[c]],
             gameId' = [c \in Clients |-> IF c \in Connected THEN f[c] ELSE gameId[c]],
             flags' = [c \in Clients |-> IF c \in Connected
                                         THEN flags[c] \cup {"dead"} ELSE flags[c]],
             \A c \in Clients : status[c] # "joining"
      PROVE  ClientsInv'
  <2>1. Connected \in SUBSET Clients
    BY DEF Connected
  <2>2. /\ \A c \in Connected : /\ f[c] \in Ids /\ ents[f[c]].kind = "free"
                                /\ ents'[f[c]].kind = "spectator" /\ ents'[f[c]].owner = c
        /\ \A x \in Ids : (\E c \in Connected : x = f[c]) \/ ents'[x] = ents[x]
    BY <2>1, <1>5, WithSpectatorsOwners
  <2>3. ItemsOwned(ents')
    BY <2>2, KindsDiffer DEF ClientsInv, ItemsOwned
  <2>4. CorpsesAreBodies'
    <3>1. ToSet(corpses) \subseteq Ids
      BY IndInvParts, SeqOfIds DEF OthersInv
    <3>. QED
      BY <3>1, <2>2, <1>1, KindsDiffer DEF ClientsInv, CorpsesAreBodies
  <2>5. MainEntityIsOwn'
    <3>. SUFFICES ASSUME NEW c \in Connected
                  PROVE  /\ mainId'[c] # NoId /\ gameId'[c] = mainId'[c]
                         /\ ents'[mainId'[c]].kind \in BodyKinds /\ ents'[mainId'[c]].owner = c
      BY <1>1 DEF MainEntityIsOwn, Connected
    <3>1. mainId'[c] = f[c] /\ gameId'[c] = f[c]
      BY <2>1, <1>5
    <3>. QED
      BY <3>1, <2>2, KindsDiffer, SentinelAssumption
  <2>6. JoiningHasNothing'
    BY <1>1, <1>5 DEF JoiningHasNothing
  <2>7. LivingPlayerHasActor'
    BY <1>1, <1>5 DEF LivingPlayerHasActor, Connected
  <2>. QED
    BY <2>3, <2>4, <2>5, <2>6, <2>7, <1>2 DEF ClientsInv
<1>. QED
  BY <1>4, <1>5 DEF RoundEnd, RoundsAreNotCut

\* OnRoundStart: everything is new.
LEMMA RoundStartKeepsClients ==
    ASSUME IndInv, IndInv', ClientsInv, RoundStart
    PROVE  ClientsInv'
<1>. DEFINE ready == {c \in Clients : status[c] = "ready"}
<1>1. PICK f \in FreshFor(ready, SLS_Clear) :
        /\ ents' = WithSpectators(SLS_Clear, ready, f)
        /\ mainId' = [c \in Clients |-> IF c \in ready THEN f[c] ELSE NoId]
        /\ gameId' = [c \in Clients |-> IF c \in ready THEN f[c] ELSE gameId[c]]
        /\ flags' = [c \in Clients |-> IF c \in ready THEN flags[c] \cup {"dead"}
                                       ELSE flags[c] \ {"dead"}]
  BY DEF RoundStart
<1>2. corpses' = <<>> /\ leaving' = <<>> /\ UNCHANGED status
  BY DEF RoundStart
<1>3. \A x \in Ids : SLS_Clear[x] = NoEntity
  BY DEF SLS_Clear
<1>4. ready \in SUBSET Clients /\ \A c \in Clients : c \in ready <=> status[c] = "ready"
  OBVIOUS
<1>. HIDE DEF ready
<1>5. /\ \A c \in ready : f[c] \in Ids /\ ents'[f[c]].kind = "spectator" /\ ents'[f[c]].owner = c
      /\ \A x \in Ids : (\E c \in ready : x = f[c]) \/ ents'[x] = NoEntity
  BY <1>1, <1>3, <1>4, WithSpectatorsOwners
<1>6. NoEntity.kind = "free" /\ NoEntity.owner = NoClient
  BY DEF NoEntity
<1>7. /\ \A c \in ready : mainId'[c] = f[c] /\ gameId'[c] = f[c] /\ "dead" \in flags'[c]
      /\ \A c \in Clients \ ready : mainId'[c] = NoId /\ gameId'[c] = gameId[c]
  BY <1>1, <1>4
<1>8. ItemsOwned(ents')
  BY <1>5, <1>6, KindsDiffer DEF ItemsOwned
<1>9. CorpsesAreBodies'
  BY <1>2, EmptyVector DEF CorpsesAreBodies
<1>10. MainEntityIsOwn'
  BY <1>2, <1>4, <1>5, <1>7, KindsDiffer, SentinelAssumption DEF MainEntityIsOwn, Connected
<1>11. \A x \in Ids : ents'[x].owner \in Clients =>
         \E c \in ready : ents'[x].owner = c /\ x = f[c]
  BY <1>5, <1>6, SentinelAssumption
<1>12. JoiningHasNothing'
  BY <1>2, <1>4, <1>7, <1>11, OwnMainEntity DEF JoiningHasNothing
<1>13. LeaversAreGone'
  <2>1. ToSet(leaving') = {} /\ DOMAIN leaving' = {}
    BY <1>2 DEF ToSet
  <2>. QED
    BY <2>1 DEF LeaversAreGone
<1>14. LivingPlayerHasActor'
  BY <1>2, <1>4, <1>7 DEF LivingPlayerHasActor
<1>. QED
  BY <1>8, <1>9, <1>10, <1>12, <1>13, <1>14 DEF ClientsInv

-----------------------------------------------------------------------------
(* The clients' invariant, and what follows from it.                        *)

\* An empty server.
LEMMA InitKeepsClients == Init => ClientsInv
<1>. SUFFICES ASSUME Init PROVE ClientsInv
  OBVIOUS
<1>1. /\ \A x \in Ids : ents[x].kind = "free" /\ ents[x].owner = NoClient
      /\ \A c \in Clients : status[c] = "absent"
      /\ ToSet(corpses) = {} /\ ToSet(leaving) = {} /\ DOMAIN leaving = {}
  BY DEF Init, NoEntity, ToSet
<1>2. ItemsOwned(ents) /\ CorpsesAreBodies /\ JoiningHasNothing
  BY <1>1, KindsDiffer DEF ItemsOwned, CorpsesAreBodies, JoiningHasNothing
<1>3. MainEntityIsOwn /\ LeaversAreGone /\ LivingPlayerHasActor
  BY <1>1 DEF MainEntityIsOwn, LeaversAreGone, LivingPlayerHasActor, Connected
<1>. QED
  BY <1>2, <1>3 DEF ClientsInv

\* Every handler keeps it.
LEMMA NextKeepsClients ==
    ASSUME RoundsAreNotCut, GameIdIsClear
    PROVE  IndInv /\ IndInv' /\ ClientsInv /\ [Next]_vars => ClientsInv'
<1>. SUFFICES ASSUME IndInv, IndInv', ClientsInv, [Next]_vars PROVE ClientsInv'
  OBVIOUS
<1>1. CASE ClientStep
  <2>. PICK c \in Clients :
        \/ Connect(c) \/ ConnectFinished(c) \/ Disconnect(c)
        \/ PlayerReady(c) \/ ForceRespawn(c) \/ SelectSpectator(c)
        \/ PlayerStarted(c) \/ ChangeTeam(c) \/ ChangeSkin(c)
        \/ PlayerKilled(c) \/ BuyItems(c)
    BY <1>1 DEF ClientStep
  <2>1. CASE Connect(c)
    BY <2>1, ConnectKeepsClients
  <2>2. CASE ConnectFinished(c)
    BY <2>2, ConnectFinishedKeepsClients
  <2>3. CASE Disconnect(c)
    BY <2>3, DisconnectKeepsClients
  <2>4. CASE PlayerReady(c)
    BY <2>4, PlayerReadyKeepsClients
  <2>5. CASE ForceRespawn(c)
    BY <2>5, ForceRespawnKeepsClients
  <2>6. CASE SelectSpectator(c)
    BY <2>6, SelectSpectatorKeepsClients
  <2>7. CASE PlayerStarted(c) \/ ChangeTeam(c) \/ ChangeSkin(c) \/ PlayerKilled(c)
    BY <2>7, QuietStepKeepsClients
  <2>8. CASE BuyItems(c)
    BY <2>8, BuyItemsKeepsClients
  <2>. QED
    BY <2>1, <2>2, <2>3, <2>4, <2>5, <2>6, <2>7, <2>8
<1>2. CASE EntityStep
  <2>1. ASSUME NEW x \in Ids, BodyDies(x) PROVE ClientsInv'
    BY <2>1, QuietStepKeepsClients
  <2>2. ASSUME NEW x \in Ids, DestroyItem(x) PROVE ClientsInv'
    BY <2>2, DestroyItemKeepsClients
  <2>3. ASSUME NEW x \in Ids, NEW a \in Ids, RejectItem(a, x) PROVE ClientsInv'
    BY <2>3, RejectItemKeepsClients
  <2>4. ASSUME NEW x \in Ids, NEW a \in Ids, NEW s, TakeItem(s, a, x) PROVE ClientsInv'
    BY <2>4, TakeItemKeepsClients
  <2>. QED
    BY <2>1, <2>2, <2>3, <2>4, <1>2 DEF EntityStep
<1>3. CASE CorpseStep
  BY <1>3, QuietStepKeepsClients, RemoveCorpseKeepsClients DEF CorpseStep
<1>4. CASE RoundStep
  BY <1>4, QuietStepKeepsClients, PlayerDisconnectedKeepsClients, RoundEndKeepsClients,
     RoundStartKeepsClients DEF RoundStep
<1>5. CASE UNCHANGED vars
  BY <1>5, QuietStepKeepsClients
<1>. QED
  BY <1>1, <1>2, <1>3, <1>4, <1>5 DEF Next

\* With rounds that are not cut short and a GameID that is clear before the first
\* SpawnPlayer, ClientsInv holds in every reachable state.
LEMMA ClientsInvariance ==
    ASSUME RoundsAreNotCut, GameIdIsClear
    PROVE  Spec => []ClientsInv
<1>1. IndInv /\ IndInv' /\ ClientsInv /\ [Next]_vars => ClientsInv'
  BY NextKeepsClients
<1>. QED
  BY <1>1, InitKeepsClients, Invariance, PTL DEF Spec

\* A client's owner_ and GameID name one body that exists and is its own.
THEOREM MainEntityStaysOwn ==
    ASSUME RoundsAreNotCut, GameIdIsClear
    PROVE  Spec => []MainEntityIsOwn
<1>1. ClientsInv => MainEntityIsOwn
  BY DEF ClientsInv
<1>. QED
  BY <1>1, ClientsInvariance, PTL

\* OnPlayerBuyFinished and SpawnWeaponsForActor find the actor of every ready
\* player that is not flagged dead.
THEOREM LivingPlayerKeepsActor ==
    ASSUME RoundsAreNotCut, GameIdIsClear
    PROVE  Spec => []LivingPlayerHasActor
<1>1. ClientsInv => LivingPlayerHasActor
  BY DEF ClientsInv
<1>. QED
  BY <1>1, ClientsInvariance, PTL

\* The corpse removal of game_sv_mp::Update never destroys the body of a connected
\* player: what it destroys is the server's, what a player points at is the player's.
THEOREM CorpsesStayAnonymous ==
    ASSUME RoundsAreNotCut, GameIdIsClear
    PROVE  Spec => []CorpsesAreNotPlayers
<1>1. IndInv /\ ClientsInv => CorpsesAreNotPlayers
  <2>. SUFFICES ASSUME IndInv, ClientsInv, NEW i \in DOMAIN corpses, NEW c \in Connected
                PROVE  mainId[c] # corpses[i]
    BY DEF CorpsesAreNotPlayers
  <2>1. corpses[i] \in ToSet(corpses) /\ corpses[i] \in Ids
    BY IndInvParts, SeqOfIds DEF OthersInv, ToSet
  <2>2. ents[corpses[i]].owner = SvClient
    BY <2>1 DEF ClientsInv, CorpsesAreBodies
  <2>3. c \in Clients /\ (mainId[c] # NoId => ents[mainId[c]].owner = c)
    BY DEF ClientsInv, MainEntityIsOwn, Connected
  <2>. QED
    BY <2>1, <2>2, <2>3, SentinelAssumption
<1>. QED
  BY <1>1, Invariance, ClientsInvariance, PTL

\* R_ASSERT(c_dest == c_from) of Process_event_destroy holds for all the server
\* destroys by itself: items, and the bodies of m_CorpseList, which exist.
THEOREM ServerAlwaysMayDestroy ==
    ASSUME RoundsAreNotCut, GameIdIsClear
    PROVE  Spec => []ServerMayDestroy
<1>1. ClientsInv => ServerMayDestroy
  <2>. SUFFICES ASSUME ClientsInv PROVE ServerMayDestroy
    OBVIOUS
  <2>1. \A i \in DOMAIN corpses : corpses[i] \in ToSet(corpses)
    BY DEF ToSet
  <2>. QED
    BY <2>1 DEF ClientsInv, CorpsesAreBodies, ItemsOwned, ServerMayDestroy
<1>. QED
  BY <1>1, ClientsInvariance, PTL

-----------------------------------------------------------------------------
(* Items alone, without a word about rounds or the GameID.                  *)

\* Bodies that appear, disappear or change owner leave the items to the server.
LEMMA BodiesLeaveItems ==
    ASSUME NEW e \in [Ids -> Entity], ItemsOwned(e)
    PROVE  /\ \A x : Disowned(e, x) \in [Ids -> Entity] /\ ItemsOwned(Disowned(e, x))
           /\ \A S : Destroyed(e, S) \in [Ids -> Entity] /\ ItemsOwned(Destroyed(e, S))
           /\ \A x \in Ids, k \in BodyKinds, c \in Clients :
                Created(e, x, k, c) \in [Ids -> Entity] /\ ItemsOwned(Created(e, x, k, c))
<1>1. ASSUME NEW x PROVE Disowned(e, x) \in [Ids -> Entity] /\ ItemsOwned(Disowned(e, x))
  <2>. DEFINE d == Disowned(e, x)
  <2>1. /\ d \in [Ids -> Entity]
        /\ \A y \in Ids : d[y].kind = e[y].kind
        /\ \A y \in Ids : y # x => d[y] = e[y]
        /\ x \in Live(e) => d[x].owner = SvClient
    BY DisownedOwners
  <2>2. x \notin Live(e) => d = e
    BY DEF Disowned
  <2>. HIDE DEF d
  <2>3. ItemsOwned(d)
    BY <2>1, <2>2 DEF ItemsOwned
  <2>. QED
    BY <2>1, <2>3 DEF d
<1>2. ASSUME NEW S PROVE Destroyed(e, S) \in [Ids -> Entity] /\ ItemsOwned(Destroyed(e, S))
  <2>1. NoEntity.kind = "free"
    BY DEF NoEntity
  <2>. QED
    BY <2>1, DestroyedOwners, KindsDiffer DEF ItemsOwned
<1>3. ASSUME NEW x \in Ids, NEW k \in BodyKinds, NEW c \in Clients
      PROVE  Created(e, x, k, c) \in [Ids -> Entity] /\ ItemsOwned(Created(e, x, k, c))
  <2>1. Created(e, x, k, c) \in [Ids -> Entity]
    BY EmptyVector DEF Created, Entity
  <2>2. ItemsOwned(Created(e, x, k, c))
    BY CreatedOwners, KindsDiffer DEF ItemsOwned
  <2>. QED
    BY <2>1, <2>2
<1>. QED
  BY <1>1, <1>2, <1>3

\* RespawnPlayer to an actor, with the kit it gets.
LEMMA RespawnLeavesItems ==
    ASSUME NEW c \in Clients, NEW e \in [Ids -> Entity], ItemsOwned(e), RespawnAsActor(c, e)
    PROVE  ItemsOwned(ents')
<1>1. PICK loadout \in Loadouts : \E xs \in FreshIds(ents, 2 + Len(loadout)) :
        ents' = Equipped(Created(e, xs[1], "actor", c), xs[1], Tail(xs), Kit(loadout))
  BY DEF RespawnAsActor
<1>2. PICK xs \in FreshIds(ents, 2 + Len(loadout)) :
        ents' = Equipped(Created(e, xs[1], "actor", c), xs[1], Tail(xs), Kit(loadout))
  BY <1>1
<1>. DEFINE x == xs[1]
            d == Created(e, x, "actor", c)
            ys == Tail(xs)
            ks == Kit(loadout)
<1>3. Len(loadout) \in Nat /\ ks \in Seq(ItemKinds) /\ Len(ks) = 1 + Len(loadout)
  BY LoadoutKinds
<1>4. xs \in Seq(Ids) /\ Len(xs) = 2 + Len(loadout) /\ Distinct(xs)
  BY <1>3, FreshIdsWork
<1>5. /\ x \in ToSet(xs) /\ ys \in Seq(Ids) /\ Len(ys) = Len(ks)
      /\ ToSet(ys) \subseteq ToSet(xs) \ {x}
  BY <1>3, <1>4, TailOfDistinct
<1>6. ents' = Equipped(d, x, ys, ks)
  BY <1>2
<1>. HIDE DEF x, ys, ks
<1>7. x \in Ids /\ x \notin ToSet(ys)
  BY <1>4, <1>5, SeqOfIds
<1>8. d \in [Ids -> Entity] /\ ItemsOwned(d)
  BY <1>7, BodiesLeaveItems, KindsDiffer
<1>. HIDE DEF d
<1>9. /\ \A y \in Ids : y \notin ToSet(ys) => ents'[y].kind = d[y].kind /\ ents'[y].owner = d[y].owner
      /\ \A y \in ToSet(ys) : ents'[y].kind \in ItemKinds /\ ents'[y].owner = SvClient
  BY <1>3, <1>5, <1>6, <1>7, <1>8, EquippedOwners
<1>. QED
  BY <1>8, <1>9 DEF ItemsOwned

\* Every handler leaves the items to the server.
LEMMA NextLeavesItems == IndInv /\ ItemsOwned(ents) /\ [Next]_vars => ItemsOwned(ents')
<1>. SUFFICES ASSUME IndInv, ItemsOwned(ents), [Next]_vars PROVE ItemsOwned(ents')
  OBVIOUS
<1>1. ents \in [Ids -> Entity] /\ \A d : SameBodies(ents, d) => ItemsOwned(d)
  BY Registries, SameBodiesWork
<1>2. /\ \A x : Disowned(ents, x) \in [Ids -> Entity] /\ ItemsOwned(Disowned(ents, x))
      /\ \A x \in Ids, c \in Clients : ItemsOwned(Created(ents, x, "spectator", c))
  BY <1>1, BodiesLeaveItems, KindsDiffer
<1>3. \A g, x, c : x \in Free(ents) /\ c \in Clients
        => ItemsOwned(Created(Disowned(ents, g), x, "spectator", c))
  BY <1>2, BodiesLeaveItems, KindsDiffer DEF Free
<1>4. \A e, C, f : ItemsOwned(e) /\ C \in SUBSET Clients /\ f \in FreshFor(C, e)
        => ItemsOwned(WithSpectators(e, C, f))
  <2>. SUFFICES ASSUME NEW e, ItemsOwned(e), NEW C \in SUBSET Clients, NEW f \in FreshFor(C, e)
                PROVE  ItemsOwned(WithSpectators(e, C, f))
    OBVIOUS
  <2>. QED
    BY WithSpectatorsOwners, KindsDiffer DEF ItemsOwned
<1>5. ASSUME NEW c \in Clients, SpectatorEnters(c) PROVE ItemsOwned(ents')
  <2>1. \A S : /\ Destroyed(Disowned(ents, mainId[c]), S) \in [Ids -> Entity]
               /\ ItemsOwned(Destroyed(Disowned(ents, mainId[c]), S))
    BY <1>2, BodiesLeaveItems
  <2>. QED
    BY <2>1, <1>5, RespawnLeavesItems DEF SpectatorEnters
<1>6. ASSUME NEW c \in Clients, ForceRespawn(c) PROVE ItemsOwned(ents')
  <2>1. \A x, y : /\ Disowned(Disowned(ents, x), y) \in [Ids -> Entity]
                  /\ ItemsOwned(Disowned(Disowned(ents, x), y))
    BY <1>2, BodiesLeaveItems
  <2>. QED
    BY <2>1, <1>5, <1>6, RespawnLeavesItems DEF ForceRespawn
<1>7. CASE ClientStep
  <2>. PICK c \in Clients :
        \/ Connect(c) \/ ConnectFinished(c) \/ Disconnect(c)
        \/ PlayerReady(c) \/ ForceRespawn(c) \/ SelectSpectator(c)
        \/ PlayerStarted(c) \/ ChangeTeam(c) \/ ChangeSkin(c)
        \/ PlayerKilled(c) \/ BuyItems(c)
    BY <1>7 DEF ClientStep
  <2>1. CASE Connect(c) \/ Disconnect(c)
    BY <2>1 DEF Connect, Disconnect
  <2>2. CASE ConnectFinished(c)
    BY <2>2, <1>2 DEF ConnectFinished, Free
  <2>3. CASE PlayerReady(c)
    BY <2>3, <1>3, <1>5 DEF PlayerReady
  <2>4. CASE ForceRespawn(c)
    BY <2>4, <1>6
  <2>5. CASE SelectSpectator(c)
    BY <2>5, <1>3 DEF SelectSpectator
  <2>6. CASE PlayerStarted(c) \/ ChangeTeam(c) \/ ChangeSkin(c) \/ PlayerKilled(c)
    BY <2>6, <1>1, QuietStepBodies
  <2>7. CASE BuyItems(c)
    BY <2>7, <1>1, BuyItemsBodies
  <2>. QED
    BY <2>1, <2>2, <2>3, <2>4, <2>5, <2>6, <2>7
<1>8. CASE EntityStep
  <2>1. ASSUME NEW x \in Ids, BodyDies(x) PROVE SameBodies(ents, ents')
    BY <2>1, QuietStepBodies
  <2>2. ASSUME NEW x \in Ids, DestroyItem(x) PROVE SameBodies(ents, ents')
    BY <2>2, DestroyItemBodies
  <2>3. ASSUME NEW x \in Ids, NEW a \in Ids, RejectItem(a, x) PROVE SameBodies(ents, ents')
    BY <2>3, RejectItemBodies
  <2>4. ASSUME NEW x \in Ids, NEW a \in Ids, NEW s, TakeItem(s, a, x) PROVE SameBodies(ents, ents')
    BY <2>4, TakeItemBodies
  <2>. QED
    BY <2>1, <2>2, <2>3, <2>4, <1>1, <1>8 DEF EntityStep
<1>9. CASE CorpseStep
  <2>1. CASE RemoveCorpse
    BY <2>1, <1>1, BodiesLeaveItems DEF RemoveCorpse
  <2>. QED
    BY <2>1, <1>1, <1>9, QuietStepBodies DEF CorpseStep
<1>10. CASE RoundStep
  <2>1. CASE PlayerDisconnected
    BY <2>1, <1>2 DEF PlayerDisconnected
  <2>2. CASE RoundEnd
    <3>1. Connected \in SUBSET Clients
      BY DEF Connected
    <3>. QED
      BY <3>1, <2>2, <1>4 DEF RoundEnd
  <2>3. CASE RoundStart
    <3>1. ItemsOwned(SLS_Clear)
      BY KindsDiffer DEF ItemsOwned, SLS_Clear, NoEntity
    <3>2. {c \in Clients : status[c] = "ready"} \in SUBSET Clients
      OBVIOUS
    <3>. QED
      BY <3>1, <3>2, <2>3, <1>4 DEF RoundStart
  <2>. QED
    BY <2>1, <2>2, <2>3, <1>1, <1>10, QuietStepBodies DEF RoundStep
<1>11. CASE UNCHANGED vars
  BY <1>1, <1>11, QuietStepBodies
<1>. QED
  BY <1>7, <1>8, <1>9, <1>10, <1>11 DEF Next

\* The items of the server.
ItemsAreServers == ItemsOwned(ents)

\* An item belongs to the server's client from Process_spawn to its destruction,
\* whoever carries it, whenever g_restart comes and whatever ps->GameID starts with.
THEOREM ItemsStayWithServer == Spec => []ItemsAreServers
<1>1. Init => ItemsAreServers
  BY KindsDiffer DEF Init, ItemsAreServers, ItemsOwned, NoEntity
<1>2. IndInv /\ ItemsAreServers /\ [Next]_vars => ItemsAreServers'
  BY NextLeavesItems DEF ItemsAreServers
<1>. QED
  BY <1>1, <1>2, Invariance, PTL DEF Spec

-----------------------------------------------------------------------------
(***************************************************************************)
(* What a client leaves behind, in rounds that are cut short, too.         *)
(***************************************************************************)

\* In a running round a joining client has no entity: who got one from a round
\* that was cut short lost it when the next one started.
JoiningNamesNothing ==
    phase = "inprogress" => \A c \in Clients : status[c] = "joining" => mainId[c] = NoId

BehindInv == NothingLeftBehind /\ JoiningNamesNothing

\* From e to d no client gets an entity.
NobodyGains(e, d) == \A y \in Ids : d[y].owner \in Clients => d[y].owner = e[y].owner

\* The operators that rebuild the registry give a client nothing but the new body.
LEMMA OwnersGained ==
    ASSUME NEW e \in [Ids -> Entity]
    PROVE  /\ \A x : NobodyGains(e, Disowned(e, x))
           /\ \A x \in Ids : FreeIsEmpty(e) => Disowned(e, x)[x].owner \notin Clients
           /\ \A S : NobodyGains(e, Destroyed(e, S))
           /\ \A S : \A y \in Ids : y \in S => Destroyed(e, S)[y].owner \notin Clients
<1>1. ASSUME NEW x, NEW y \in Ids, Disowned(e, x)[y].owner \in Clients
      PROVE  Disowned(e, x)[y].owner = e[y].owner
  <2>1. CASE x \in Live(e) /\ y = x
    BY <1>1, <2>1, DisownedOwners, SentinelAssumption
  <2>2. CASE x \notin Live(e)
    BY <2>2 DEF Disowned
  <2>3. CASE y # x
    BY <2>3, DisownedOwners
  <2>. QED
    BY <2>1, <2>2, <2>3
<1>2. ASSUME NEW x \in Ids, FreeIsEmpty(e) PROVE Disowned(e, x)[x].owner \notin Clients
  <2>1. CASE x \in Live(e)
    BY <2>1, DisownedOwners, SentinelAssumption
  <2>2. CASE x \notin Live(e)
    BY <1>2, <2>2, SentinelAssumption DEF Disowned, Live, FreeIsEmpty, NoEntity
  <2>. QED
    BY <2>1, <2>2
<1>3. NoEntity.owner \notin Clients
  BY SentinelAssumption DEF NoEntity
<1>4. ASSUME NEW S, NEW y \in Ids, y \in S PROVE Destroyed(e, S)[y].owner \notin Clients
  BY <1>3, <1>4, DestroyedOwners
<1>5. ASSUME NEW S, NEW y \in Ids, Destroyed(e, S)[y].owner \in Clients
      PROVE  Destroyed(e, S)[y].owner = e[y].owner
  BY <1>4, <1>5, DestroyedOwners
<1>. QED
  BY <1>1, <1>2, <1>4, <1>5 DEF NobodyGains

\* A step by which no client gets an entity, leaves or loses its own.
LEMMA NobodyGainsKeeps ==
    ASSUME BehindInv, NobodyGains(ents, ents'), UNCHANGED <<status, leaving>>,
           phase' = "inprogress" => phase = "inprogress",
           \A c \in Clients : \/ mainId'[c] = mainId[c]
                              \/ /\ mainId'[c] = NoId
                                 /\ \A y \in Ids : y = mainId[c] => ents'[y].owner # c
    PROVE  BehindInv'
<1>1. NothingLeftBehind'
  <2>. SUFFICES ASSUME phase = "inprogress", NEW y \in Ids, ents'[y].owner \in Clients
                PROVE  \/ status[ents'[y].owner] # "absent" /\ mainId'[ents'[y].owner] = y
                       \/ y \in ToSet(leaving)
    BY DEF NothingLeftBehind, Connected
  <2>1. ents'[y].owner = ents[y].owner
    BY DEF NobodyGains
  <2>2. (status[ents[y].owner] # "absent" /\ mainId[ents[y].owner] = y) \/ y \in ToSet(leaving)
    BY <2>1 DEF BehindInv, NothingLeftBehind, Connected
  <2>. QED
    BY <2>1, <2>2
<1>2. JoiningNamesNothing'
  BY DEF BehindInv, JoiningNamesNothing
<1>. QED
  BY <1>1, <1>2 DEF BehindInv

\* A step by which the ready client c gets the body x in place of its former one.
LEMMA NewBodyLeavesNothing ==
    ASSUME IndInv, BehindInv, NEW c \in Clients, NEW x \in Ids,
           \A y \in Ids \ {x} : ents'[y].owner \in Clients =>
              ents'[y].owner = ents[y].owner /\ ~(y = mainId[c] /\ ents[y].owner = c),
           ents'[x].owner = c,
           mainId' = [mainId EXCEPT ![c] = x], status' = [status EXCEPT ![c] = "ready"],
           status[c] # "absent", UNCHANGED <<leaving, phase>>
    PROVE  BehindInv'
<1>1. /\ mainId \in [Clients -> Ids \cup {NoId}]
      /\ status \in [Clients -> {"absent", "joining", "ready"}]
  BY IndInvParts DEF OthersInv
<1>2. /\ mainId'[c] = x /\ status'[c] = "ready"
      /\ \A d \in Clients \ {c} : mainId'[d] = mainId[d] /\ status'[d] = status[d]
  BY <1>1
<1>3. NothingLeftBehind'
  <2>. SUFFICES ASSUME phase = "inprogress", NEW y \in Ids, ents'[y].owner \in Clients
                PROVE  \/ status'[ents'[y].owner] # "absent" /\ mainId'[ents'[y].owner] = y
                       \/ y \in ToSet(leaving)
    BY DEF NothingLeftBehind, Connected
  <2>1. CASE y = x
    BY <2>1, <1>2
  <2>2. CASE y # x
    <3>1. ents'[y].owner = ents[y].owner /\ ~(y = mainId[c] /\ ents[y].owner = c)
      BY <2>2
    <3>2. (status[ents[y].owner] # "absent" /\ mainId[ents[y].owner] = y) \/ y \in ToSet(leaving)
      BY <3>1 DEF BehindInv, NothingLeftBehind, Connected
    <3>. QED
      BY <3>1, <3>2, <1>2
  <2>. QED
    BY <2>1, <2>2
<1>4. JoiningNamesNothing'
  BY <1>2 DEF BehindInv, JoiningNamesNothing
<1>. QED
  BY <1>3, <1>4 DEF BehindInv

\* A step that leaves the bodies alone.
LEMMA SameBodiesGain ==
    ASSUME IndInv, IndInv', ItemsAreServers, SameBodies(ents, ents')
    PROVE  NobodyGains(ents, ents')
<1>1. ItemsOwned(ents') /\ Registry(ents')
  BY SameBodiesWork, Registries DEF ItemsAreServers
<1>. QED
  BY <1>1, OwnedBodies DEF NobodyGains, SameBodies

\* RespawnPlayer to an actor: e is the registry without the former body.
LEMMA RespawnLeavesNothing ==
    ASSUME IndInv, BehindInv, NEW c \in Clients, NEW e \in [Ids -> Entity],
           status[c] = "ready", NobodyGains(ents, e),
           mainId[c] \in Ids /\ e[mainId[c]].owner \notin Clients,
           RespawnAsActor(c, e), UNCHANGED <<status, leaving, phase>>
    PROVE  BehindInv'
<1>1. PICK loadout \in Loadouts : \E xs \in FreshIds(ents, 2 + Len(loadout)) :
        /\ ents' = Equipped(Created(e, xs[1], "actor", c), xs[1], Tail(xs), Kit(loadout))
        /\ Possesses(c, xs[1], "actor", flags[c])
  BY DEF RespawnAsActor
<1>2. PICK xs \in FreshIds(ents, 2 + Len(loadout)) :
        /\ ents' = Equipped(Created(e, xs[1], "actor", c), xs[1], Tail(xs), Kit(loadout))
        /\ Possesses(c, xs[1], "actor", flags[c])
  BY <1>1
<1>. DEFINE x == xs[1]
            d == Created(e, x, "actor", c)
            ys == Tail(xs)
            ks == Kit(loadout)
<1>3. Len(loadout) \in Nat /\ ks \in Seq(ItemKinds) /\ Len(ks) = 1 + Len(loadout)
  BY LoadoutKinds
<1>4. xs \in Seq(Ids) /\ Len(xs) = 2 + Len(loadout) /\ Distinct(xs)
  BY <1>3, FreshIdsWork
<1>5. /\ x \in ToSet(xs) /\ ys \in Seq(Ids) /\ Len(ys) = Len(ks)
      /\ ToSet(ys) \subseteq ToSet(xs) \ {x}
  BY <1>3, <1>4, TailOfDistinct
<1>6. ents' = Equipped(d, x, ys, ks) /\ mainId' = [mainId EXCEPT ![c] = x]
  BY <1>2 DEF Possesses
<1>. HIDE DEF x, ys, ks
<1>7. x \in Ids /\ x \notin ToSet(ys)
  BY <1>4, <1>5, SeqOfIds
<1>8. /\ d \in [Ids -> Entity] /\ d[x].owner = c
      /\ \A y \in Ids \ {x} : d[y] = e[y]
  BY <1>7, CreatedOwners, EmptyVector DEF Created, Entity, BodyKinds
<1>. HIDE DEF d
<1>9. /\ \A y \in Ids : y \notin ToSet(ys) => ents'[y].owner = d[y].owner
      /\ \A y \in ToSet(ys) : ents'[y].owner = SvClient
  BY <1>3, <1>5, <1>6, <1>7, <1>8, EquippedOwners
<1>10. ents'[x].owner = c
  BY <1>7, <1>8, <1>9
<1>11. \A y \in Ids \ {x} : ents'[y].owner \in Clients =>
         ents'[y].owner = ents[y].owner /\ ~(y = mainId[c] /\ ents[y].owner = c)
  BY <1>8, <1>9, SentinelAssumption DEF NobodyGains
<1>12. status' = [status EXCEPT ![c] = "ready"] /\ status[c] # "absent"
  BY IndInvParts DEF OthersInv
<1>. QED
  BY <1>6, <1>7, <1>10, <1>11, <1>12, NewBodyLeavesNothing

LEMMA SpectatorEntersLeavesNothing ==
    ASSUME IndInv, BehindInv, NEW c \in Clients, status[c] = "ready", mainId[c] # NoId,
           SpectatorEnters(c), UNCHANGED <<status, leaving, phase>>
    PROVE  BehindInv'
<1>. DEFINE m == mainId[c]
            e1 == Disowned(ents, m)
            e2 == Destroyed(e1, {m})
<1>1. ents \in [Ids -> Entity] /\ m \in Ids
  BY Registries, IndInvParts DEF OthersInv
<1>2. RespawnAsActor(c, e2)
  BY DEF SpectatorEnters
<1>. HIDE DEF m
<1>3. e1 \in [Ids -> Entity] /\ NobodyGains(ents, e1)
  BY <1>1, DisownedOwners, OwnersGained
<1>. HIDE DEF e1
<1>4. e2 \in [Ids -> Entity] /\ NobodyGains(e1, e2) /\ e2[m].owner \notin Clients
  BY <1>1, <1>3, DestroyedOwners, OwnersGained
<1>. HIDE DEF e2
<1>5. NobodyGains(ents, e2)
  BY <1>3, <1>4 DEF NobodyGains
<1>. QED
  BY <1>1, <1>2, <1>4, <1>5, RespawnLeavesNothing DEF m

\* A spectator in place of the actor, which GameID names, too.
LEMMA SpectatorSpawnLeavesNothing ==
    ASSUME IndInv, BehindInv, NEW c \in Clients, status[c] = "ready", IsActor(mainId[c]),
           NEW x \in Free(ents), NEW fl,
           ents' = Created(Disowned(ents, gameId[c]), x, "spectator", c),
           Possesses(c, x, "spectator", fl), UNCHANGED <<status, leaving, phase>>
    PROVE  BehindInv'
<1>. DEFINE e == Disowned(ents, mainId[c])
<1>1. /\ ents \in [Ids -> Entity] /\ FreeIsEmpty(ents) /\ mainId[c] \in Ids /\ x \in Ids
      /\ gameId[c] = mainId[c]
  BY IndInvParts, Registries, SentinelAssumption DEF OthersInv, OwnIdsAgree, IsActor, Free, Registry
<1>2. e \in [Ids -> Entity] /\ NobodyGains(ents, e) /\ e[mainId[c]].owner \notin Clients
  BY <1>1, DisownedOwners, OwnersGained
<1>3. ents' = Created(e, x, "spectator", c)
  BY <1>1
<1>. HIDE DEF e
<1>4. ents'[x].owner = c /\ \A y \in Ids \ {x} : ents'[y] = e[y]
  BY <1>1, <1>2, <1>3, CreatedOwners
<1>5. \A y \in Ids \ {x} : ents'[y].owner \in Clients =>
         ents'[y].owner = ents[y].owner /\ ~(y = mainId[c] /\ ents[y].owner = c)
  BY <1>2, <1>4 DEF NobodyGains
<1>6. status' = [status EXCEPT ![c] = "ready"] /\ status[c] # "absent"
  BY IndInvParts DEF OthersInv
<1>7. mainId' = [mainId EXCEPT ![c] = x]
  BY DEF Possesses
<1>. QED
  BY <1>1, <1>4, <1>5, <1>6, <1>7, NewBodyLeavesNothing

\* A client that leaves: its event names what it had.
LEMMA DisconnectLeavesNothing ==
    ASSUME IndInv, BehindInv, NEW c \in Clients, Disconnect(c)
    PROVE  BehindInv'
<1>. DEFINE g == gameId[c]
<1>1. /\ status' = [status EXCEPT ![c] = "absent"]
      /\ leaving' = Append(leaving, g)
      /\ UNCHANGED <<ents, mainId, phase>>
  BY DEF Disconnect
<1>2. /\ status \in [Clients -> {"absent", "joining", "ready"}]
      /\ leaving \in Seq(Ids \cup {NoId}) /\ g \in Ids \cup {NoId}
      /\ mainId[c] # NoId => g = mainId[c]
  BY IndInvParts DEF OthersInv, OwnIdsAgree
<1>3. /\ \A d \in Clients \ {c} : status'[d] = status[d]
      /\ status'[c] = "absent"
  BY <1>1, <1>2
<1>4. ToSet(leaving) \cup {g} \subseteq ToSet(leaving')
  <2>. HIDE DEF g
  <2>1. /\ DOMAIN leaving = 1..Len(leaving) /\ Len(leaving) \in Nat
        /\ DOMAIN leaving' = 1..(Len(leaving) + 1)
        /\ leaving'[Len(leaving) + 1] = g
        /\ \A i \in 1..Len(leaving) : leaving'[i] = leaving[i]
    BY <1>1, <1>2
  <2>2. Len(leaving) + 1 \in DOMAIN leaving' /\ \A i \in DOMAIN leaving : i \in DOMAIN leaving'
    BY <2>1
  <2>. QED
    BY <2>1, <2>2 DEF ToSet
<1>. HIDE DEF g
<1>5. NothingLeftBehind'
  <2>. SUFFICES ASSUME phase = "inprogress", NEW y \in Ids, ents[y].owner \in Clients
                PROVE  \/ status'[ents[y].owner] # "absent" /\ mainId[ents[y].owner] = y
                       \/ y \in ToSet(leaving')
    BY <1>1 DEF NothingLeftBehind, Connected
  <2>1. (status[ents[y].owner] # "absent" /\ mainId[ents[y].owner] = y) \/ y \in ToSet(leaving)
    BY DEF BehindInv, NothingLeftBehind, Connected
  <2>. QED
    BY <2>1, <1>2, <1>3, <1>4, SentinelAssumption
<1>6. JoiningNamesNothing'
  BY <1>1, <1>3 DEF BehindInv, JoiningNamesNothing
<1>. QED
  BY <1>5, <1>6 DEF BehindInv

\* The event of a client that left: the body it names becomes the server's.
LEMMA PlayerDisconnectedLeavesNothing ==
    ASSUME IndInv, BehindInv, PlayerDisconnected
    PROVE  BehindInv'
<1>. DEFINE g == Head(leaving)
<1>1. /\ leaving # <<>> /\ leaving' = Tail(leaving)
      /\ ents' = Disowned(ents, g)
      /\ UNCHANGED <<status, mainId, phase>>
  BY DEF PlayerDisconnected, clientVars, roundVars
<1>2. /\ ents \in [Ids -> Entity] /\ FreeIsEmpty(ents)
      /\ leaving \in Seq(Ids \cup {NoId})
  BY Registries, IndInvParts DEF OthersInv, Registry
<1>3. \A y \in ToSet(leaving) : y = g \/ y \in ToSet(leaving')
  <2>1. /\ Len(leaving) \in Nat /\ DOMAIN leaving = 1..Len(leaving) /\ Len(leaving) >= 1
    BY <1>1, <1>2, EmptySeq
  <2>2. /\ Tail(leaving) \in Seq(Ids \cup {NoId}) /\ Len(Tail(leaving)) = Len(leaving) - 1
        /\ \A i \in 1..Len(Tail(leaving)) : Tail(leaving)[i] = leaving[i + 1]
        /\ g = leaving[1]
    BY <1>1, <1>2, <2>1, HeadTailProperties
  <2>3. DOMAIN leaving' = 1..(Len(leaving) - 1)
    BY <1>1, <2>1, <2>2, LenProperties
  <2>. HIDE DEF g
  <2>4. \A i \in DOMAIN leaving : \/ leaving[i] = g
                                  \/ i - 1 \in DOMAIN leaving' /\ leaving'[i - 1] = leaving[i]
    BY <1>1, <2>1, <2>2, <2>3
  <2>. QED
    BY <2>4 DEF ToSet
<1>. HIDE DEF g
<1>4. /\ NobodyGains(ents, ents')
      /\ \A y \in Ids : y = g => ents'[y].owner \notin Clients
  BY <1>1, <1>2, OwnersGained
<1>5. NothingLeftBehind'
  <2>. SUFFICES ASSUME phase = "inprogress", NEW y \in Ids, ents'[y].owner \in Clients
                PROVE  \/ status[ents'[y].owner] # "absent" /\ mainId[ents'[y].owner] = y
                       \/ y \in ToSet(leaving')
    BY <1>1 DEF NothingLeftBehind, Connected
  <2>1. ents'[y].owner = ents[y].owner /\ y # g
    BY <1>4 DEF NobodyGains
  <2>2. (status[ents[y].owner] # "absent" /\ mainId[ents[y].owner] = y) \/ y \in ToSet(leaving)
    BY <2>1 DEF BehindInv, NothingLeftBehind, Connected
  <2>. QED
    BY <2>1, <2>2, <1>3
<1>6. JoiningNamesNothing'
  BY <1>1 DEF BehindInv, JoiningNamesNothing
<1>. QED
  BY <1>5, <1>6 DEF BehindInv

\* OnRoundStart: SLS_Clear leaves nothing, and only who is ready gets a spectator.
LEMMA RoundStartLeavesNothing ==
    ASSUME RoundStart
    PROVE  BehindInv'
<1>. DEFINE ready == {c \in Clients : status[c] = "ready"}
<1>1. PICK f \in FreshFor(ready, SLS_Clear) :
        /\ ents' = WithSpectators(SLS_Clear, ready, f)
        /\ mainId' = [c \in Clients |-> IF c \in ready THEN f[c] ELSE NoId]
  BY DEF RoundStart
<1>2. UNCHANGED status
  BY DEF RoundStart
<1>3. \A x \in Ids : SLS_Clear[x] = NoEntity
  BY DEF SLS_Clear
<1>4. ready \in SUBSET Clients /\ \A c \in Clients : c \in ready <=> status[c] = "ready"
  OBVIOUS
<1>. HIDE DEF ready
<1>5. /\ \A c \in ready : ents'[f[c]].owner = c
      /\ \A x \in Ids : (\E c \in ready : x = f[c]) \/ ents'[x] = NoEntity
  BY <1>1, <1>3, <1>4, WithSpectatorsOwners
<1>6. NoEntity.owner \notin Clients
  BY SentinelAssumption DEF NoEntity
<1>7. \A x \in Ids : ents'[x].owner \in Clients =>
         ents'[x].owner \in ready /\ mainId'[ents'[x].owner] = x
  BY <1>1, <1>4, <1>5, <1>6
<1>8. NothingLeftBehind'
  BY <1>2, <1>4, <1>7 DEF NothingLeftBehind, Connected
<1>9. JoiningNamesNothing'
  BY <1>1, <1>2, <1>4 DEF JoiningNamesNothing
<1>. QED
  BY <1>8, <1>9 DEF BehindInv

\* Every handler leaves nothing behind.
LEMMA NextLeavesNothing ==
    IndInv /\ IndInv' /\ ItemsAreServers /\ BehindInv /\ [Next]_vars => BehindInv'
<1>. SUFFICES ASSUME IndInv, IndInv', ItemsAreServers, BehindInv, [Next]_vars PROVE BehindInv'
  OBVIOUS
<1>1. ents \in [Ids -> Entity]
  BY Registries
<1>2. ASSUME SameBodies(ents, ents'), UNCHANGED <<status, mainId, leaving>>,
             phase' = "inprogress" => phase = "inprogress"
      PROVE  BehindInv'
  BY <1>2, SameBodiesGain, NobodyGainsKeeps
<1>3. CASE ClientStep
  <2>. PICK c \in Clients :
        \/ Connect(c) \/ ConnectFinished(c) \/ Disconnect(c)
        \/ PlayerReady(c) \/ ForceRespawn(c) \/ SelectSpectator(c)
        \/ PlayerStarted(c) \/ ChangeTeam(c) \/ ChangeSkin(c)
        \/ PlayerKilled(c) \/ BuyItems(c)
    BY <1>3 DEF ClientStep
  <2>0. /\ mainId \in [Clients -> Ids \cup {NoId}]
        /\ status \in [Clients -> {"absent", "joining", "ready"}]
    BY IndInvParts DEF OthersInv
  <2>1. CASE Connect(c)
    <3>1. /\ ents' = ents /\ leaving' = leaving /\ phase' = phase
          /\ mainId' = [mainId EXCEPT ![c] = NoId] /\ status' = [status EXCEPT ![c] = "joining"]
          /\ \A x \in Ids : ents[x].owner # c
      BY <2>1 DEF Connect, roundVars
    <3>2. /\ mainId'[c] = NoId
          /\ \A d \in Clients \ {c} : mainId'[d] = mainId[d] /\ status'[d] = status[d]
      BY <3>1, <2>0
    <3>3. NothingLeftBehind'
      BY <3>1, <3>2 DEF BehindInv, NothingLeftBehind, Connected
    <3>4. JoiningNamesNothing'
      BY <3>1, <3>2 DEF BehindInv, JoiningNamesNothing
    <3>. QED
      BY <3>3, <3>4 DEF BehindInv
  <2>2. CASE ConnectFinished(c)
    <3>1. PICK x \in Free(ents) :
            /\ ents' = Created(ents, x, "spectator", c)
            /\ mainId' = [mainId EXCEPT ![c] = x]
      BY <2>2 DEF ConnectFinished, Possesses
    <3>2. /\ status[c] = "joining" /\ status' = [status EXCEPT ![c] = "ready"]
          /\ UNCHANGED <<leaving, phase>> /\ x \in Ids
      BY <2>2 DEF ConnectFinished, roundVars, Free
    <3>3. ents'[x].owner = c /\ \A y \in Ids \ {x} : ents'[y] = ents[y]
      BY <1>1, <3>1, <3>2, CreatedOwners
    <3>4. CASE phase = "inprogress"
      <4>1. mainId[c] = NoId
        BY <3>2, <3>4 DEF BehindInv, JoiningNamesNothing
      <4>2. \A y \in Ids \ {x} : ents'[y].owner \in Clients =>
              ents'[y].owner = ents[y].owner /\ ~(y = mainId[c] /\ ents[y].owner = c)
        BY <3>3, <4>1, SentinelAssumption
      <4>. QED
        BY <3>1, <3>2, <3>3, <4>2, NewBodyLeavesNothing
    <3>5. CASE phase # "inprogress"
      BY <3>2, <3>5 DEF BehindInv, NothingLeftBehind, JoiningNamesNothing
    <3>. QED
      BY <3>4, <3>5
  <2>3. CASE Disconnect(c)
    BY <2>3, DisconnectLeavesNothing
  <2>4. CASE PlayerReady(c)
    <3>1. status[c] = "ready" /\ mainId[c] # NoId /\ UNCHANGED <<status, leaving, phase>>
      BY <2>4 DEF PlayerReady, MayRespawn, roundVars
    <3>2. \/ SpectatorEnters(c)
          \/ /\ IsActor(mainId[c])
             /\ \E x \in Free(ents) :
                   /\ ents' = Created(Disowned(ents, gameId[c]), x, "spectator", c)
                   /\ Possesses(c, x, "spectator", flags[c])
      BY <2>4 DEF PlayerReady
    <3>. QED
      BY <3>1, <3>2, SpectatorEntersLeavesNothing, SpectatorSpawnLeavesNothing
  <2>5. CASE ForceRespawn(c)
    <3>1. status[c] = "ready" /\ mainId[c] # NoId /\ UNCHANGED <<status, leaving, phase>>
      BY <2>5 DEF ForceRespawn, MayRespawn, roundVars
    <3>2. CASE SpectatorEnters(c)
      BY <3>1, <3>2, SpectatorEntersLeavesNothing
    <3>3. CASE IsActor(mainId[c]) /\ RespawnAsActor(c, Disowned(Disowned(ents, gameId[c]), mainId[c]))
      <4>. DEFINE d == Disowned(ents, gameId[c])
                  e == Disowned(d, mainId[c])
      <4>1. mainId[c] \in Ids /\ RespawnAsActor(c, e) /\ FreeIsEmpty(ents) /\ gameId[c] = mainId[c]
        BY <3>1, <3>3, Registries, IndInvParts DEF IsActor, Registry, OthersInv, OwnIdsAgree
      <4>2. /\ d \in [Ids -> Entity] /\ NobodyGains(ents, d) /\ d[mainId[c]].owner \notin Clients
        BY <1>1, <4>1, DisownedOwners, OwnersGained
      <4>. HIDE DEF d
      <4>3. e \in [Ids -> Entity] /\ NobodyGains(d, e)
        BY <4>2, DisownedOwners, OwnersGained
      <4>. HIDE DEF e
      <4>4. NobodyGains(ents, e) /\ e[mainId[c]].owner \notin Clients
        BY <4>1, <4>2, <4>3 DEF NobodyGains
      <4>. QED
        BY <3>1, <4>1, <4>3, <4>4, RespawnLeavesNothing
    <3>. QED
      BY <2>5, <3>2, <3>3 DEF ForceRespawn
  <2>6. CASE SelectSpectator(c)
    <3>1. status[c] = "ready" /\ UNCHANGED <<status, leaving, phase>>
      BY <2>6 DEF SelectSpectator, Obeyed, roundVars
    <3>2. CASE UNCHANGED <<ents, mainId>>
      <4>1. NobodyGains(ents, ents')
        BY <3>2 DEF NobodyGains
      <4>. QED
        BY <3>1, <3>2, <4>1, NobodyGainsKeeps
    <3>3. \/ UNCHANGED <<ents, mainId>>
          \/ /\ IsActor(mainId[c])
             /\ \E x \in Free(ents) :
                   /\ ents' = Created(Disowned(ents, gameId[c]), x, "spectator", c)
                   /\ Possesses(c, x, "spectator", Killed(c) \cup {"watching"})
      BY <2>6 DEF SelectSpectator
    <3>. QED
      BY <3>1, <3>2, <3>3, SpectatorSpawnLeavesNothing
  <2>7. CASE PlayerStarted(c) \/ ChangeTeam(c) \/ ChangeSkin(c) \/ PlayerKilled(c)
    <3>1. SameBodies(ents, ents')
      BY <2>7, QuietStepBodies
    <3>2. UNCHANGED <<status, mainId, leaving, phase>>
      BY <2>7 DEF PlayerStarted, ChangeTeam, ChangeSkin, PlayerKilled, clientVars, roundVars
    <3>. QED
      BY <1>2, <3>1, <3>2
  <2>8. CASE BuyItems(c)
    <3>1. SameBodies(ents, ents')
      BY <2>8, BuyItemsBodies
    <3>2. UNCHANGED <<status, mainId, leaving, phase>>
      BY <2>8 DEF BuyItems, clientVars, roundVars
    <3>. QED
      BY <1>2, <3>1, <3>2
  <2>. QED
    BY <2>1, <2>2, <2>3, <2>4, <2>5, <2>6, <2>7, <2>8
<1>4. CASE EntityStep
  <2>1. ASSUME NEW x \in Ids, BodyDies(x) PROVE BehindInv'
    <3>1. UNCHANGED <<status, mainId, leaving, phase>>
      BY <2>1 DEF BodyDies, clientVars, roundVars
    <3>. QED
      BY <1>2, <2>1, <3>1, QuietStepBodies
  <2>2. ASSUME NEW x \in Ids, DestroyItem(x) PROVE BehindInv'
    <3>1. UNCHANGED <<status, mainId, leaving, phase>>
      BY <2>2 DEF DestroyItem, clientVars, roundVars
    <3>. QED
      BY <1>2, <2>2, <3>1, DestroyItemBodies
  <2>3. ASSUME NEW x \in Ids, NEW a \in Ids, RejectItem(a, x) PROVE BehindInv'
    <3>1. UNCHANGED <<status, mainId, leaving, phase>>
      BY <2>3 DEF RejectItem, clientVars, roundVars
    <3>. QED
      BY <1>2, <2>3, <3>1, RejectItemBodies
  <2>4. ASSUME NEW x \in Ids, NEW a \in Ids, NEW s, TakeItem(s, a, x) PROVE BehindInv'
    <3>1. UNCHANGED <<status, mainId, leaving, phase>>
      BY <2>4 DEF TakeItem, clientVars, roundVars
    <3>. QED
      BY <1>2, <2>4, <3>1, TakeItemBodies
  <2>. QED
    BY <2>1, <2>2, <2>3, <2>4, <1>4 DEF EntityStep
<1>5. CASE RemoveCorpse
  <2>1. PICK x \in Ids :
          /\ ents' = Destroyed(ents, {x})
          /\ mainId' = [c \in Clients |->
                           IF mainId[c] = x /\ ents[x].owner = c THEN NoId ELSE mainId[c]]
    <3>1. corpses[sweep] \in Ids
      BY <1>5 DEF RemoveCorpse, Live
    <3>. QED
      BY <1>5, <3>1 DEF RemoveCorpse
  <2>2. UNCHANGED <<status, leaving, phase>>
    BY <1>5 DEF RemoveCorpse, roundVars
  <2>3. NobodyGains(ents, ents') /\ ents'[x].owner \notin Clients
    BY <1>1, <2>1, OwnersGained
  <2>4. \A c \in Clients : \/ mainId'[c] = mainId[c]
                           \/ /\ mainId'[c] = NoId
                              /\ \A y \in Ids : y = mainId[c] => ents'[y].owner # c
    BY <2>1, <2>3
  <2>. QED
    BY <2>2, <2>3, <2>4, NobodyGainsKeeps
<1>6. CASE StartCorpseRemoval \/ CorpseRemovalEnds \/ SkipCorpse \/ ScoreReached \/ UNCHANGED vars
  <2>1. SameBodies(ents, ents')
    BY <1>6, QuietStepBodies
  <2>2. UNCHANGED <<status, mainId, leaving>> /\ (phase' = "inprogress" => phase = "inprogress")
    BY <1>6 DEF StartCorpseRemoval, CorpseRemovalEnds, SkipCorpse, ScoreReached, vars, gameVars,
          clientVars, roundVars
  <2>. QED
    BY <1>2, <2>1, <2>2
<1>7. CASE RoundEnd
  <2>1. phase' = "pending"
    BY <1>7 DEF RoundEnd
  <2>. QED
    BY <2>1 DEF BehindInv, NothingLeftBehind, JoiningNamesNothing
<1>. QED
  BY <1>3, <1>4, <1>5, <1>6, <1>7, PlayerDisconnectedLeavesNothing, RoundStartLeavesNothing
     DEF Next, CorpseStep, RoundStep

\* In a round a client owns nothing but the body of its connected player, or a body
\* whose disconnect event waits: the limbo of a client that left is always emptied,
\* whenever g_restart comes and whatever ps->GameID starts with.
THEOREM NothingStaysBehind == Spec => []NothingLeftBehind
<1>1. Init => BehindInv
  BY DEF Init, BehindInv, NothingLeftBehind, JoiningNamesNothing
<1>2. IndInv /\ IndInv' /\ ItemsAreServers /\ BehindInv /\ [Next]_vars => BehindInv'
  BY NextLeavesNothing
<1>3. BehindInv => NothingLeftBehind
  BY DEF BehindInv
<1>. QED
  BY <1>1, <1>2, <1>3, Invariance, ItemsStayWithServer, PTL DEF Spec

-----------------------------------------------------------------------------
(***************************************************************************)
(* The loop of the corpse removal ends.                                    *)
(***************************************************************************)

\* Without a member that is not kept, the vector is shorter.
LEMMA KeptShorter ==
    ASSUME NEW s \in Seq(Ids), NEW S, NEW i \in 1..Len(s), s[i] \notin S
    PROVE  Len(Kept(s, S)) < Len(s)
<1>. DEFINE K == {k \in DOMAIN s : s[k] \in S}
            n == Len(s)
            f == Numbering(K)
            t == Kept(s, S)
<1>1. n \in Nat /\ DOMAIN s = 1..n
  BY LenProperties
<1>2. IsFiniteSet(1..n) /\ Cardinality(1..n) = n /\ n >= 1
  <2>1. IsFiniteSet(1..n) /\ Cardinality(1..n) = IF 1 > n THEN 0 ELSE n - 1 + 1
    BY <1>1, FS_Interval
  <2>. QED
    BY <1>1, <2>1
<1>. DEFINE N == 1..n
<1>4. IsFiniteSet(N \ {i}) /\ Cardinality(N \ {i}) = n - 1
  <2>1. IsFiniteSet(N) /\ Cardinality(N) = n /\ i \in N
    BY <1>2
  <2>. HIDE DEF N, n
  <2>2. IsFiniteSet(N \ {i})
        /\ Cardinality(N \ {i}) = IF i \in N THEN Cardinality(N) - 1 ELSE Cardinality(N)
    BY <2>1, FS_RemoveElement
  <2>. QED
    BY <2>1, <2>2
<1>. DEFINE M == N \ {i}
<1>3. K \in SUBSET M
  BY <1>1
<1>. HIDE DEF K, M
<1>5. IsFiniteSet(K) /\ Cardinality(K) <= n - 1 /\ Cardinality(K) \in Nat
  <2>1. IsFiniteSet(M) /\ Cardinality(M) = n - 1
    BY <1>4 DEF M
  <2>2. IsFiniteSet(K) /\ Cardinality(K) <= Cardinality(M)
    BY <2>1, <1>3, FS_Subset
  <2>. QED
    BY <2>1, <2>2, FS_CardinalityType
<1>. HIDE DEF f, n
<1>6. t = [k \in 1..Cardinality(K) |-> s[f[k]]]
  BY DEF Kept, K, f
<1>. HIDE DEF t
<1>7. DOMAIN t = 1..Cardinality(K)
  BY <1>6
<1>8. t \in Seq(Ids)
  BY KeptIds DEF t
<1>9. Len(t) \in Nat /\ DOMAIN t = 1..Len(t)
  BY <1>8, LenProperties
<1>10. Len(t) = Cardinality(K)
  BY <1>5, <1>7, <1>9
<1>. QED
  BY <1>1, <1>5, <1>10 DEF t, n

\* RemoveAt and Front take one entry.
LEMMA OneLess ==
    ASSUME NEW s \in Seq(Ids)
    PROVE  /\ \A i \in 1..Len(s) : Len(RemoveAt(s, i)) = Len(s) - 1
           /\ Len(Front(s)) <= Len(s)
<1>. DEFINE n == Len(s)
<1>1. n \in Nat /\ DOMAIN s = 1..n /\ \A k \in 1..n : s[k] \in Ids
  BY LenProperties, ElementOfSeq
<1>2. ASSUME NEW i \in 1..n PROVE Len(RemoveAt(s, i)) = n - 1
  <2>. DEFINE u == SubSeq(s, 1, i - 1)
              v == SubSeq(s, i + 1, n)
  <2>1. u \in Seq(Ids) /\ Len(u) = i - 1
    <3>1. i - 1 \in Int /\ 1 \in Int /\ \A j \in 1..(i - 1) : s[j] \in Ids
      BY <1>1
    <3>2. u \in Seq(Ids) /\ Len(u) = IF 1 <= i - 1 THEN (i - 1) - 1 + 1 ELSE 0
      BY <3>1, SubSeqProperties
    <3>. QED
      BY <3>2, <1>1
  <2>2. v \in Seq(Ids) /\ Len(v) = n - i
    <3>1. i + 1 \in Int /\ n \in Int /\ \A j \in (i + 1)..n : s[j] \in Ids
      BY <1>1
    <3>2. v \in Seq(Ids) /\ Len(v) = IF i + 1 <= n THEN n - (i + 1) + 1 ELSE 0
      BY <3>1, SubSeqProperties
    <3>3. i \in 1..n
      OBVIOUS
    <3>. HIDE DEF v, n
    <3>. QED
      BY <3>2, <3>3, <1>1
  <2>3. RemoveAt(s, i) = u \o v
    BY DEF RemoveAt
  <2>. HIDE DEF u, v, n
  <2>4. Len(u \o v) = Len(u) + Len(v)
    BY <2>1, <2>2, ConcatProperties
  <2>. QED
    BY <1>1, <2>1, <2>2, <2>3, <2>4
<1>3. Len(Front(s)) <= n
  <2>1. Front(s) = SubSeq(s, 1, n - 1)
    BY DEF Front
  <2>2. Len(SubSeq(s, 1, n - 1)) = IF 1 <= n - 1 THEN n - 1 ELSE 0
    BY <1>1, SubSeqProperties
  <2>. QED
    BY <1>1, <2>1, <2>2
<1>. QED
  BY <1>2, <1>3

\* While the removal is in progress the main thread does nothing else.
LEMMA NothingElseMeanwhile ==
    ASSUME Next, sweep # 0
    PROVE  CorpseRemovalEnds \/ SkipCorpse \/ RemoveCorpse
<1>. USE DEF Idle
<1>1. ~StartCorpseRemoval
  BY DEF StartCorpseRemoval
<1>2. ASSUME NEW c \in Clients
      PROVE  /\ ~Connect(c) /\ ~ConnectFinished(c) /\ ~Disconnect(c)
             /\ ~PlayerReady(c) /\ ~ForceRespawn(c) /\ ~SelectSpectator(c)
             /\ ~PlayerStarted(c) /\ ~ChangeTeam(c) /\ ~ChangeSkin(c)
             /\ ~PlayerKilled(c) /\ ~BuyItems(c)
  <2>1. ~Connect(c) /\ ~ConnectFinished(c) /\ ~Disconnect(c)
    BY DEF Connect, ConnectFinished, Disconnect
  <2>2. ~PlayerReady(c) /\ ~ForceRespawn(c) /\ ~SelectSpectator(c)
    BY DEF PlayerReady, ForceRespawn, MayRespawn, SelectSpectator
  <2>3. ~PlayerStarted(c) /\ ~ChangeTeam(c) /\ ~ChangeSkin(c)
    BY DEF PlayerStarted, ChangeTeam, ChangeSkin
  <2>4. ~PlayerKilled(c) /\ ~BuyItems(c)
    BY DEF PlayerKilled, BuyItems
  <2>. QED
    BY <2>1, <2>2, <2>3, <2>4
<1>3. ~ClientStep
  BY <1>2, Zenon DEF ClientStep
<1>4. ASSUME NEW x \in Ids
      PROVE  /\ ~BodyDies(x) /\ ~DestroyItem(x)
             /\ \A a \in Ids : ~RejectItem(a, x)
             /\ \A a \in Ids, s \in Clients \cup {SvClient} : ~TakeItem(s, a, x)
  <2>1. ~BodyDies(x) /\ ~DestroyItem(x)
    BY DEF BodyDies, DestroyItem
  <2>2. \A a \in Ids : ~RejectItem(a, x)
    BY DEF RejectItem
  <2>3. \A a \in Ids, s \in Clients \cup {SvClient} : ~TakeItem(s, a, x)
    BY DEF TakeItem
  <2>. QED
    BY <2>1, <2>2, <2>3
<1>5. ~EntityStep
  BY <1>4, Zenon DEF EntityStep
<1>6. ~PlayerDisconnected /\ ~ScoreReached /\ ~RoundEnd /\ ~RoundStart
  <2>1. ~PlayerDisconnected /\ ~ScoreReached
    BY DEF PlayerDisconnected, ScoreReached
  <2>2. ~RoundEnd
    BY DEF RoundEnd
  <2>3. ~RoundStart
    BY DEF RoundStart
  <2>. QED
    BY <2>1, <2>2, <2>3
<1>. QED
  BY <1>1, <1>3, <1>5, <1>6, Zenon DEF Next, CorpseStep, RoundStep

\* How many entries the loop has not yet passed.
EntriesLeft == Len(corpses) + 1 - sweep

LEMMA CorpseStepAdvances ==
    ASSUME IndInv, SkipCorpse \/ RemoveCorpse
    PROVE  EntriesLeft' < EntriesLeft /\ EntriesLeft >= 1
<1>1. corpses \in Seq(Ids) /\ Len(corpses) \in Nat /\ sweep \in 1..Len(corpses)
  BY IndInvParts, LenProperties DEF OthersInv, SkipCorpse, RemoveCorpse, InRemovalLoop
<1>2. corpses' \in Seq(Ids) /\ Len(corpses') \in Nat
  <2>1. IndInv'
    BY SkipCorpseKeeps, RemoveCorpseKeeps
  <2>. QED
    BY <2>1, IndInvPartsPrime, LenProperties DEF IndInv, TypeOK
<1>3. CASE SkipCorpse
  <2>1. \/ UNCHANGED corpses /\ sweep' = sweep + 1
        \/ corpses' = RemoveAt(corpses, sweep) /\ sweep' = sweep
    BY <1>3 DEF SkipCorpse
  <2>2. Len(RemoveAt(corpses, sweep)) = Len(corpses) - 1
    BY <1>1, OneLess
  <2>. QED
    BY <1>1, <2>1, <2>2 DEF EntriesLeft
<1>4. CASE RemoveCorpse
  <2>. DEFINE x == corpses[sweep]
              left == CorpsesWithout({x})
  <2>1. x \notin Ids \ {x}
    OBVIOUS
  <2>2. Len(left) < Len(corpses) /\ left \in Seq(Ids)
    BY <1>1, <2>1, KeptShorter, KeptIds DEF CorpsesWithout
  <2>3. \/ sweep <= Len(left) /\ corpses' = RemoveAt(left, sweep)
        \/ corpses' \in {left, Front(left)}
    BY <1>4 DEF RemoveCorpse
  <2>4. sweep' = sweep
    BY <1>4 DEF RemoveCorpse
  <2>. HIDE DEF left
  <2>5. Len(left) \in Nat
    BY <2>2, LenProperties
  <2>6. Len(corpses') <= Len(left)
    <3>1. CASE sweep <= Len(left) /\ corpses' = RemoveAt(left, sweep)
      <4>1. sweep \in 1..Len(left)
        BY <1>1, <2>5, <3>1
      <4>2. Len(RemoveAt(left, sweep)) = Len(left) - 1
        BY <2>2, <4>1, OneLess
      <4>. QED  BY <2>5, <3>1, <4>2
    <3>2. CASE corpses' \in {left, Front(left)}
      BY <2>2, <2>5, <3>2, OneLess
    <3>. QED  BY <2>3, <3>1, <3>2
  <2>. QED
    BY <1>1, <1>2, <2>2, <2>4, <2>5, <2>6 DEF EntriesLeft
<1>. QED
  BY <1>3, <1>4

\* Between the start of the corpse removal and its end the main thread does
\* nothing else, and each iteration leaves fewer entries to pass, although the
\* loop erases the entry at its own index, once itself and once through
\* OnDestroyObject (game_sv_mp::Update): the safety half of its termination.
CorpseRemovalAdvances ==
    [][sweep # 0 => sweep' = 0 \/ (EntriesLeft' < EntriesLeft /\ EntriesLeft >= 1)]_vars

\* The removal of the corpses gets to its end in every behaviour, whatever it
\* erases on the way: game_sv_mp::Update, over m_CorpseList (game_sv_mp.cpp).
THEOREM CorpseRemovalGoesOn == Spec => CorpseRemovalAdvances
<1>1. ASSUME IndInv, Next, sweep # 0
      PROVE  sweep' = 0 \/ (EntriesLeft' < EntriesLeft /\ EntriesLeft >= 1)
  <2>1. CorpseRemovalEnds \/ SkipCorpse \/ RemoveCorpse
    BY <1>1, NothingElseMeanwhile
  <2>2. CASE CorpseRemovalEnds
    BY <2>2 DEF CorpseRemovalEnds
  <2>3. CASE SkipCorpse \/ RemoveCorpse
    BY <1>1, <2>3, CorpseStepAdvances
  <2>. QED
    BY <2>1, <2>2, <2>3
<1>2. IndInv /\ [Next]_vars =>
        [sweep # 0 => sweep' = 0 \/ (EntriesLeft' < EntriesLeft /\ EntriesLeft >= 1)]_vars
  BY <1>1
<1>. QED
  BY <1>2, Invariance, PTL DEF Spec, CorpseRemovalAdvances

=============================================================================

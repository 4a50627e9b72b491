-------------------------- MODULE IdGeneratorProofs --------------------------
(* CID_Generator implements a pool of ids, for every number of ids and every *)
(* size of a block.                                                          *)
EXTENDS IdGenerator, SequenceTheorems, FiniteSetTheorems, TLAPS

(***************************************************************************)
(* Arithmetic of blocks and offsets.                                       *)
(***************************************************************************)

LEMMA DivMod ==
    ASSUME NEW v \in Nat, NEW B \in Nat \ {0}
    PROVE  v % B \in 0..(B - 1) /\ v \div B \in Nat /\ v = B * (v \div B) + (v % B)
OBVIOUS

LEMMA DivMonotonic ==
    ASSUME NEW v \in Nat, NEW m \in Nat, NEW B \in Nat \ {0}, v <= m
    PROVE  v \div B \in 0..(m \div B)
<1>1. /\ v % B \in 0..(B - 1) /\ v \div B \in Nat /\ v = B * (v \div B) + (v % B)
      /\ m % B \in 0..(B - 1) /\ m \div B \in Nat /\ m = B * (m \div B) + (m % B)
  BY DivMod
<1>. QED  BY <1>1

LEMMA ValueOf ==
    ASSUME NEW B \in Nat \ {0}, NEW b \in Nat, NEW o \in 0..(B - 1)
    PROVE  (o + b * B) \div B = b /\ (o + b * B) % B = o /\ o + b * B \in Nat
OBVIOUS

\* Blocks and offsets identify the ids.
LEMMA BlockAndOffset ==
    /\ \A v \in Values : /\ Block(v) \in Blocks /\ Offset(v) \in Offsets
                         /\ Value(Block(v), Offset(v)) = v
    /\ \A b \in Blocks, o \in Offsets :
        Block(Value(b, o)) = b /\ Offset(Value(b, o)) = o
<1>1. ASSUME NEW v \in Values
      PROVE  /\ Block(v) \in Blocks /\ Offset(v) \in Offsets
             /\ Value(Block(v), Offset(v)) = v
  <2>1. v \in Nat /\ v <= MaxValue /\ BlockSize \in Nat \ {0} /\ MaxValue \in Nat
    BY SizeAssumption DEF Values
  <2>2. /\ v % BlockSize \in 0..(BlockSize - 1) /\ v \div BlockSize \in Nat
        /\ v = BlockSize * (v \div BlockSize) + (v % BlockSize)
    BY <2>1, DivMod
  <2>3. v \div BlockSize \in 0..(MaxValue \div BlockSize)
    BY <2>1, DivMonotonic
  <2>. QED  BY <2>1, <2>2, <2>3 DEF Block, Offset, Value, Blocks, Offsets
<1>2. ASSUME NEW b \in Blocks, NEW o \in Offsets
      PROVE  Block(Value(b, o)) = b /\ Offset(Value(b, o)) = o
  <2>1. BlockSize \in Nat \ {0} /\ b \in Nat /\ o \in 0..(BlockSize - 1)
    BY <1>2, SizeAssumption DEF Blocks, Offsets
  <2>. QED  BY <2>1, ValueOf DEF Block, Offset, Value
<1>. QED  BY <1>1, <1>2

\* The block b has exactly the offsets below Count(b).
LEMMA CountOf ==
    ASSUME NEW b \in Blocks
    PROVE  /\ Count(b) \in 1..BlockSize
           /\ \A o \in 0..(Count(b) - 1) : o \in Offsets /\ Value(b, o) \in Values
           /\ \A v \in Values : Block(v) = b => Offset(v) \in 0..(Count(b) - 1)
<1>. DEFINE d == MaxValue \div BlockSize
            r == MaxValue % BlockSize
<1>1. /\ BlockSize \in Nat \ {0} /\ MaxValue \in Nat
      /\ r \in 0..(BlockSize - 1) /\ d \in Nat /\ MaxValue = BlockSize * d + r
  BY SizeAssumption, DivMod
<1>2. b \in 0..d /\ Count(b) = IF b = d THEN r + 1 ELSE BlockSize
  BY DEF Blocks, Count
<1>. HIDE DEF d, r
<1>3. Count(b) \in 1..BlockSize
  BY <1>1, <1>2
<1>4. ASSUME NEW o \in 0..(Count(b) - 1) PROVE o \in Offsets /\ Value(b, o) \in Values
  <2>1. o \in Nat /\ o <= BlockSize - 1
    BY <1>1, <1>3, <1>4
  <2>2. CASE b = d
    <3>1. o <= r /\ o + b * BlockSize \in Nat
      BY <1>1, <1>2, <1>4, <2>2
    <3>. QED  BY <1>1, <2>1, <2>2, <3>1 DEF Offsets, Value, Values
  <2>3. CASE b # d
    <3>1. b \in Nat /\ b + 1 <= d
      BY <1>1, <1>2, <2>3
    <3>2. (b + 1) * BlockSize <= d * BlockSize
      BY <1>1, <3>1
    <3>3. o + b * BlockSize \in Nat /\ o + b * BlockSize <= MaxValue
      BY <1>1, <2>1, <3>1, <3>2
    <3>. QED  BY <2>1, <3>3 DEF Offsets, Value, Values
  <2>. QED  BY <2>2, <2>3
<1>5. ASSUME NEW v \in Values, Block(v) = b PROVE Offset(v) \in 0..(Count(b) - 1)
  <2>1. Offset(v) \in 0..(BlockSize - 1) /\ v = Offset(v) + b * BlockSize /\ v <= MaxValue
    BY <1>5, BlockAndOffset DEF Offsets, Value, Values
  <2>. QED  BY <1>1, <1>2, <2>1
<1>. QED  BY <1>3, <1>4, <1>5

(***************************************************************************)
(* Stacks.                                                                 *)
(***************************************************************************)

\* What Front is.
LEMMA FrontOf ==
    ASSUME NEW S, NEW u \in Seq(S), NEW n \in Nat, n = Len(u), n >= 1
    PROVE  /\ Front(u) \in Seq(S) /\ Len(Front(u)) = n - 1
           /\ DOMAIN Front(u) = 1..(n - 1)
           /\ \A i \in 1..(n - 1) : Front(u)[i] = u[i]
<1>1. PICK l \in Nat : l = n - 1 /\ l < Len(u)
  OBVIOUS
<1>2. Front(u) = SubSeq(u, 1, l)
  BY <1>1 DEF Front
<1>3. SubSeq(u, 1, l) \in Seq(S)
  BY <1>1
<1>4. Len(SubSeq(u, 1, l)) = l
  BY <1>1
<1>5. \A i \in 1..l : SubSeq(u, 1, l)[i] = u[i]
  BY <1>1
<1>6. DOMAIN SubSeq(u, 1, l) = 1..l
  BY <1>3, <1>4, LenProperties
<1>. QED  BY <1>1, <1>2, <1>3, <1>4, <1>5, <1>6

\* A stack from which the id at k was taken: the last one has its place.
LEMMA Removed ==
    ASSUME NEW S, NEW s \in Seq(S), IsInjective(s), NEW k \in 1..Len(s),
           NEW t, t = Front([s EXCEPT ![k] = Last(s)])
    PROVE  /\ t \in Seq(S) /\ Len(t) = Len(s) - 1
           /\ IsInjective(t)
           /\ Range(t) = Range(s) \ {s[k]}
           /\ s[k] \in Range(s)
<1>0. PICK n \in Nat : n = Len(s)
  BY LenProperties
<1>1. /\ n >= 1 /\ k \in 1..n /\ DOMAIN s = 1..n
      /\ \A i \in 1..n : s[i] \in S
  BY <1>0, ElementOfSeq, LenProperties
<1>. DEFINE u == [s EXCEPT ![k] = Last(s)]
<1>2. /\ u \in Seq(S) /\ Len(u) = n
      /\ \A i \in 1..n : u[i] = IF i = k THEN s[n] ELSE s[i]
  BY <1>0, <1>1, ExceptSeq DEF Last
<1>3. t = Front(u)
  OBVIOUS
<1>. HIDE DEF u
<1>4. /\ t \in Seq(S) /\ Len(t) = n - 1 /\ DOMAIN t = 1..(n - 1)
      /\ \A i \in 1..(n - 1) : t[i] = u[i]
  <2>1. u \in Seq(S) /\ n = Len(u)
    BY <1>0, <1>2
  <2>2. /\ Front(u) \in Seq(S) /\ Len(Front(u)) = n - 1 /\ DOMAIN Front(u) = 1..(n - 1)
        /\ \A i \in 1..(n - 1) : Front(u)[i] = u[i]
    BY <1>1, <2>1, FrontOf
  <2>. QED  BY <1>3, <2>2
<1>5. \A i \in 1..(n - 1) : t[i] = IF i = k THEN s[n] ELSE s[i]
  <2>1. TAKE i \in 1..(n - 1)
  <2>2. i \in 1..n
    BY <1>1
  <2>. QED  BY <1>2, <1>4, <2>2
<1>6. \A i, j \in 1..n : s[i] = s[j] => i = j
  BY <1>1 DEF IsInjective
<1>7. IsInjective(t)
  <2>1. SUFFICES ASSUME NEW i \in 1..(n - 1), NEW j \in 1..(n - 1), t[i] = t[j]
                 PROVE  i = j
    BY <1>4 DEF IsInjective
  <2>2. i \in 1..n /\ j \in 1..n /\ n \in 1..n /\ i # n /\ j # n
    BY <1>1
  <2>. QED  BY <1>5, <1>6, <2>1, <2>2
<1>8. Range(t) = Range(s) \ {s[k]}
  <2>1. ASSUME NEW x \in Range(t) PROVE x \in Range(s) /\ x # s[k]
    <3>1. PICK i \in 1..(n - 1) : x = t[i]
      BY <1>4, <2>1 DEF Range
    <3>2. i \in 1..n /\ n \in 1..n /\ i # n
      BY <1>1
    <3>3. CASE i = k
      <4>1. x = s[n] /\ s[n] # s[k]
        BY <1>5, <1>6, <3>1, <3>2, <3>3
      <4>. QED  BY <1>1, <3>2, <4>1 DEF Range
    <3>4. CASE i # k
      <4>1. x = s[i]
        BY <1>5, <3>1, <3>4
      <4>2. s[i] # s[k]
        BY <1>1, <1>6, <3>2, <3>4
      <4>. QED  BY <1>1, <3>2, <4>1, <4>2 DEF Range
    <3>. QED  BY <3>3, <3>4
  <2>2. ASSUME NEW x \in Range(s), x # s[k] PROVE x \in Range(t)
    <3>1. PICK i \in 1..n : x = s[i]
      BY <1>1, <2>2 DEF Range
    <3>2. CASE i = n
      <4>1. k # n
        BY <2>2, <3>1, <3>2
      <4>2. k \in 1..(n - 1)
        BY <1>1, <4>1
      <4>3. t[k] = x
        BY <1>5, <3>1, <3>2, <4>2
      <4>. QED  BY <1>4, <4>2, <4>3 DEF Range
    <3>3. CASE i # n
      <4>1. i \in 1..(n - 1)
        BY <1>1, <3>1, <3>3
      <4>2. i # k
        BY <2>2, <3>1
      <4>3. t[i] = x
        BY <1>5, <3>1, <4>1, <4>2
      <4>. QED  BY <1>4, <4>1, <4>3 DEF Range
    <3>. QED  BY <3>2, <3>3
  <2>. QED  BY <2>1, <2>2
<1>9. s[k] \in Range(s)
  BY <1>1 DEF Range
<1>. QED  BY <1>0, <1>4, <1>7, <1>8, <1>9

\* A stack to which an id was returned.
LEMMA Returned ==
    ASSUME NEW S, NEW s \in Seq(S), NEW o \in S, NEW t \in Seq(S), t = Append(s, o),
           IsInjective(s), ~(o \in Range(s))
    PROVE  Len(t) = Len(s) + 1 /\ IsInjective(t) /\ Range(t) = Range(s) \cup {o}
<1>1. /\ Len(s) \in Nat /\ DOMAIN s = 1..Len(s) /\ \A i \in 1..Len(s) : s[i] \in S
      /\ t \in Seq(S) /\ Len(t) = Len(s) + 1 /\ DOMAIN t = 1..(Len(s) + 1)
      /\ \A i \in 1..Len(s) : t[i] = s[i]
      /\ t[Len(s) + 1] = o
  BY ElementOfSeq, LenProperties, AppendProperties
<1>2. \A i \in 1..Len(s) : s[i] # o
  BY <1>1 DEF Range
<1>3. \A i, j \in 1..Len(s) : s[i] = s[j] => i = j
  BY <1>1 DEF IsInjective
<1>4. \A i \in 1..(Len(s) + 1) : i \in 1..Len(s) \/ i = Len(s) + 1
  BY <1>1
<1>5. \A i \in 1..Len(s) : i \in 1..(Len(s) + 1)
  BY <1>1
<1>6. Len(s) + 1 \in 1..(Len(s) + 1)
  BY <1>1
<1>7. IsInjective(t)
  BY <1>1, <1>2, <1>3, <1>4 DEF IsInjective
<1>8. Range(t) = Range(s) \cup {o}
  <2>1. ASSUME NEW x \in Range(t) PROVE x \in Range(s) \cup {o}
    <3>1. PICK i \in 1..(Len(s) + 1) : x = t[i]
      BY <1>1, <2>1 DEF Range
    <3>. QED  BY <1>1, <1>4, <3>1 DEF Range
  <2>2. ASSUME NEW x \in Range(s) PROVE x \in Range(t)
    <3>1. PICK i \in 1..Len(s) : x = s[i]
      BY <1>1, <2>2 DEF Range
    <3>. QED  BY <1>1, <1>5, <3>1 DEF Range
  <2>3. o \in Range(t)
    BY <1>1, <1>6 DEF Range
  <2>. QED  BY <2>1, <2>2, <2>3
<1>. QED  BY <1>1, <1>7, <1>8

(***************************************************************************)
(* The invariant.                                                          *)
(***************************************************************************)

LEMMA BlocksFinite ==
    /\ IsFiniteSet(Blocks) /\ Blocks \subseteq Nat
    /\ Cardinality(Blocks) = (MaxValue \div BlockSize) + 1
    /\ \A T \in SUBSET Blocks : IsFiniteSet(T) /\ Cardinality(T) \in Nat
<1>1. MaxValue \div BlockSize \in Nat
  BY SizeAssumption, DivMod
<1>2. IsFiniteSet(Blocks) /\ Cardinality(Blocks) = (MaxValue \div BlockSize) + 1
  BY <1>1, FS_Interval DEF Blocks
<1>3. \A T \in SUBSET Blocks : IsFiniteSet(T) /\ Cardinality(T) \in Nat
  BY <1>2, FS_Subset, FS_CardinalityType
<1>. QED  BY <1>1, <1>2, <1>3 DEF Blocks

LEMMA InitImpliesIndInv == Init => IndInv /\ FreeIds = Values
<1>. SUFFICES ASSUME Init PROVE IndInv /\ FreeIds = Values
  OBVIOUS
<1>1. /\ DOMAIN chunk = Blocks
      /\ \A b \in Blocks : chunk[b] = [i \in 1..Count(b) |-> Count(b) - i]
      /\ entities = {}
  BY DEF Init
<1>2. ASSUME NEW b \in Blocks
      PROVE  /\ chunk[b] \in Seq(Offsets) /\ chunk[b] # <<>>
             /\ IsInjective(chunk[b]) /\ Range(chunk[b]) = 0..(Count(b) - 1)
  <2>. DEFINE n == Count(b)
              s == [i \in 1..n |-> n - i]
  <2>1. n \in Nat /\ n >= 1 /\ \A o \in 0..(n - 1) : o \in Offsets
    BY CountOf, SizeAssumption
  <2>2. chunk[b] = s
    BY <1>1
  <2>. HIDE DEF n
  <2>3. s \in [1..n -> Offsets]
    BY <2>1
  <2>4. s \in Seq(Offsets) /\ Len(s) = n /\ DOMAIN s = 1..n
    BY <2>1, <2>3
  <2>5. IsInjective(s)
    BY <2>1 DEF IsInjective
  <2>6. Range(s) = 0..(n - 1)
    <3>1. ASSUME NEW o \in 0..(n - 1) PROVE o \in Range(s)
      <4>1. n - o \in 1..n /\ s[n - o] = o
        BY <2>1
      <4>. QED  BY <2>4, <4>1 DEF Range
    <3>2. ASSUME NEW x \in Range(s) PROVE x \in 0..(n - 1)
      BY <2>1, <2>4 DEF Range
    <3>. QED  BY <3>1, <3>2
  <2>7. s # <<>>
    BY <2>1, <2>4
  <2>. QED  BY <2>2, <2>4, <2>5, <2>6, <2>7 DEF n
<1>3. TypeOK
  <2>1. chunk \in [Blocks -> Seq(Offsets)]
    BY <1>2 DEF Init
  <2>2. MaxValue \div BlockSize \in Nat
    BY SizeAssumption, DivMod
  <2>. QED  BY <2>1, <2>2, SizeAssumption DEF Init, TypeOK
<1>4. AvailableAgrees
  <2>1. NonEmpty = Blocks
    BY <1>2 DEF NonEmpty
  <2>. QED  BY <2>1, BlocksFinite DEF AvailableAgrees, Init
<1>5. ASSUME NEW v \in Values PROVE Offset(v) \in Range(chunk[Block(v)])
  BY <1>2, BlockAndOffset, CountOf
<1>6. Stacks
  BY <1>1, <1>2, <1>5, CountOf DEF Stacks
<1>7. FreeIds = Values
  BY <1>5 DEF FreeIds
<1>. QED  BY <1>3, <1>4, <1>6, <1>7 DEF IndInv

\* The free ids are those that are not in use.
LEMMA FreeIdsAre ==
    ASSUME IndInv
    PROVE  FreeIds = Values \ entities
<1>1. ASSUME NEW v \in FreeIds PROVE v \notin entities
  <2>1. /\ v \in Values /\ Block(v) \in Blocks /\ Value(Block(v), Offset(v)) = v
        /\ Offset(v) \in Range(chunk[Block(v)])
    BY BlockAndOffset DEF FreeIds
  <2>. QED  BY <2>1 DEF IndInv, Stacks
<1>. QED  BY <1>1 DEF FreeIds, IndInv, Stacks

\* The number of the blocks with free ids when one block changes.
LEMMA NonEmptyCount ==
    ASSUME NEW A, NEW B, A \in SUBSET Blocks, NEW b \in Blocks
    PROVE  /\ Cardinality(A) \in Nat
           /\ b \in A => Cardinality(A \ {b}) = Cardinality(A) - 1 /\ Cardinality(A) # 0
           /\ b \notin A => Cardinality(A \cup {b}) = Cardinality(A) + 1
<1>1. IsFiniteSet(A) /\ Cardinality(A) \in Nat
  BY BlocksFinite
<1>2. IsFiniteSet(A \ {b}) /\ Cardinality(A \ {b}) = IF b \in A THEN Cardinality(A) - 1 ELSE Cardinality(A)
  BY <1>1, FS_RemoveElement
<1>3. Cardinality(A \cup {b}) = IF b \in A THEN Cardinality(A) ELSE Cardinality(A) + 1
  BY <1>1, FS_AddElement
<1>4. b \in A => Cardinality(A) # 0
  BY <1>1, FS_EmptySet
<1>. QED  BY <1>1, <1>2, <1>3, <1>4

\* tfGetID: the id v, at k in the stack of its block, is taken.
LEMMA Taken ==
    ASSUME IndInv, NEW b \in Blocks, NEW k \in DOMAIN chunk[b],
           TakenFrom(b, Front([chunk[b] EXCEPT ![k] = Last(chunk[b])])),
           entities' = entities \cup {Value(b, chunk[b][k])},
           UNCHANGED <<stamp, now, freedAt>>
    PROVE  /\ IndInv'
           /\ Value(b, chunk[b][k]) \in Values \ entities
<1>. DEFINE s == chunk[b]
            o == s[k]
            v == Value(b, o)
            t == Front([s EXCEPT ![k] = Last(s)])
<1>1. /\ TypeOK /\ Stacks /\ AvailableAgrees
      /\ chunk \in [Blocks -> Seq(Offsets)] /\ s \in Seq(Offsets) /\ IsInjective(s)
  BY DEF IndInv, TypeOK, Stacks
<1>2. DOMAIN s = 1..Len(s) /\ k \in 1..Len(s) /\ Len(s) \in Nat
  BY <1>1, LenProperties
<1>3. /\ t \in Seq(Offsets) /\ Len(t) = Len(s) - 1 /\ IsInjective(t)
      /\ Range(t) = Range(s) \ {o} /\ o \in Range(s)
  <2>. HIDE DEF t
  <2>1. t = Front([s EXCEPT ![k] = Last(s)])
    BY DEF t
  <2>. HIDE DEF s
  <2>. QED  BY <1>1, <1>2, <2>1, Removed
<1>4. o \in Offsets
  BY <1>1, <1>2, ElementOfSeq
<1>5. v \in Values \ entities /\ Block(v) = b /\ Offset(v) = o
  BY <1>1, <1>3, <1>4, BlockAndOffset DEF Stacks
<1>6. /\ chunk' = [chunk EXCEPT ![b] = t]
      /\ available' = IF Len(s) = 1 THEN available - 1 ELSE available
      /\ entities' = entities \cup {v}
  BY DEF TakenFrom
<1>7. chunk'[b] = t /\ \A c \in Blocks \ {b} : chunk'[c] = chunk[c]
  BY <1>1, <1>6
<1>. HIDE DEF s, t, v, o
<1>8. (t = <<>>) <=> (Len(s) = 1)
  <2>1. (t = <<>>) <=> (Len(t) = 0)
    BY <1>3, EmptySeq
  <2>. QED  BY <1>2, <1>3, <2>1
<1>9. AvailableAgrees' /\ available' \in Nat
  <2>1. NonEmpty \subseteq Blocks /\ b \in NonEmpty
    <3>1. s # <<>>
      BY <1>1, <1>2, EmptySeq
    <3>. QED  BY <3>1 DEF NonEmpty, s
  <2>2. NonEmpty' = IF Len(s) = 1 THEN NonEmpty \ {b} ELSE NonEmpty
    BY <1>7, <1>8, <2>1 DEF NonEmpty
  <2>3. available = Cardinality(NonEmpty) /\ Cardinality(NonEmpty) \in Nat
    BY <1>1, <2>1, BlocksFinite DEF AvailableAgrees
  <2>4. Cardinality(NonEmpty \ {b}) = Cardinality(NonEmpty) - 1 /\ Cardinality(NonEmpty) # 0
    BY <2>1, NonEmptyCount
  <2>5. CASE Len(s) = 1
    <3>1. available' = available - 1 /\ NonEmpty' = NonEmpty \ {b}
      BY <1>6, <2>2, <2>5
    <3>. QED  BY <2>3, <2>4, <3>1 DEF AvailableAgrees
  <2>6. CASE Len(s) # 1
    BY <1>6, <2>2, <2>3, <2>6 DEF AvailableAgrees
  <2>. QED  BY <2>5, <2>6
<1>10. TypeOK'
  <2>1. chunk' \in [Blocks -> Seq(Offsets)]
    BY <1>1, <1>3, <1>6
  <2>2. entities' \in SUBSET Values
    BY <1>1, <1>5, <1>6 DEF TypeOK
  <2>. QED  BY <1>1, <1>9, <2>1, <2>2 DEF TypeOK
<1>11. Stacks'
  <2>1. ASSUME NEW c \in Blocks
        PROVE  /\ IsInjective(chunk'[c])
               /\ \A p \in Range(chunk'[c]) : Value(c, p) \in Values \ entities'
    <3>1. IsInjective(chunk'[c]) /\ Range(chunk'[c]) \subseteq Range(chunk[c])
      BY <1>1, <1>3, <1>7 DEF Stacks, s
    <3>2. ASSUME NEW p \in Range(chunk'[c]) PROVE Value(c, p) # v
      <4>1. p \in Offsets
        <5>1. chunk[c] \in Seq(Offsets) /\ p \in Range(chunk[c])
          BY <1>1, <3>1, <3>2
        <5>2. PICK i \in DOMAIN chunk[c] : p = chunk[c][i]
          BY <5>1 DEF Range
        <5>. QED  BY <5>1, <5>2, ElementOfSeq, LenProperties
      <4>2. Block(Value(c, p)) = c /\ Offset(Value(c, p)) = p
        BY <4>1, BlockAndOffset
      <4>3. CASE c = b
        BY <1>3, <1>5, <1>7, <3>2, <4>2, <4>3
      <4>4. CASE c # b
        BY <1>5, <4>2, <4>4
      <4>. QED  BY <4>3, <4>4
    <3>3. \A p \in Range(chunk'[c]) : Value(c, p) \in Values \ entities
      BY <1>1, <3>1 DEF Stacks
    <3>. QED  BY <1>6, <3>1, <3>2, <3>3
  <2>2. ASSUME NEW w \in Values \ entities' PROVE Offset(w) \in Range(chunk'[Block(w)])
    <3>1. /\ w \in Values \ entities /\ w # v /\ Block(w) \in Blocks
          /\ Value(Block(w), Offset(w)) = w /\ Offset(w) \in Range(chunk[Block(w)])
      BY <1>1, <1>6, <2>2, BlockAndOffset DEF Stacks
    <3>2. CASE Block(w) = b
      <4>1. Offset(w) # o
        BY <3>1, <3>2 DEF v
      <4>. QED  BY <1>3, <1>7, <3>1, <3>2, <4>1 DEF s
    <3>3. CASE Block(w) # b
      BY <1>7, <3>1, <3>3
    <3>. QED  BY <3>2, <3>3
  <2>. QED  BY <2>1, <2>2 DEF Stacks
<1>. QED  BY <1>5, <1>9, <1>10, <1>11 DEF IndInv, v, o, s

LEMMA GetIDStep ==
    ASSUME IndInv, NEW b \in Blocks, GetID(b)
    PROVE  /\ IndInv'
           /\ \E v \in Values \ entities : entities' = entities \cup {v}
<1>. DEFINE s == chunk[b]
            n == Len(s)
<1>1. s \in Seq(Offsets) /\ s # <<>>
  BY DEF IndInv, TypeOK, GetID, NonEmpty
<1>2. /\ TakenFrom(b, Front(s)) /\ entities' = entities \cup {Value(b, Last(s))}
      /\ UNCHANGED <<stamp, now, freedAt>>
  BY DEF GetID
<1>. HIDE DEF s
<1>3. n \in Nat \ {0} /\ DOMAIN s = 1..n /\ Last(s) = s[n]
  BY <1>1, EmptySeq, LenProperties DEF Last
<1>4. n \in DOMAIN s
  BY <1>3
<1>5. [s EXCEPT ![n] = Last(s)] = s
  BY <1>1, <1>3
<1>. HIDE DEF n
<1>6. /\ n \in DOMAIN chunk[b]
      /\ TakenFrom(b, Front([chunk[b] EXCEPT ![n] = Last(chunk[b])]))
      /\ entities' = entities \cup {Value(b, chunk[b][n])}
  BY <1>2, <1>3, <1>4, <1>5 DEF s
<1>7. IndInv' /\ Value(b, chunk[b][n]) \in Values \ entities
  BY <1>2, <1>6, Taken
<1>. QED  BY <1>6, <1>7

LEMMA GetThisIDStep ==
    ASSUME IndInv, NEW v \in Values, NEW k \in DOMAIN chunk[Block(v)], GetThisID(v, k)
    PROVE  IndInv' /\ v \in Values \ entities /\ entities' = entities \cup {v}
<1>. DEFINE b == Block(v)
<1>1. b \in Blocks /\ Value(b, Offset(v)) = v
  BY BlockAndOffset
<1>2. /\ chunk[b][k] = Offset(v) /\ k \in DOMAIN chunk[b]
      /\ TakenFrom(b, Front([chunk[b] EXCEPT ![k] = Last(chunk[b])]))
      /\ entities' = entities \cup {v} /\ UNCHANGED <<stamp, now, freedAt>>
  BY DEF GetThisID
<1>. HIDE DEF b
<1>3. entities' = entities \cup {Value(b, chunk[b][k])}
  BY <1>1, <1>2
<1>4. IndInv' /\ Value(b, chunk[b][k]) \in Values \ entities
  BY <1>1, <1>2, <1>3, Taken
<1>. QED  BY <1>1, <1>2, <1>4

LEMMA FreeIDStep ==
    ASSUME IndInv, NEW v \in Values, FreeID(v)
    PROVE  IndInv' /\ v \in entities /\ entities' = entities \ {v}
<1>. DEFINE b == Block(v)
            o == Offset(v)
            s == chunk[b]
            t == Append(s, o)
<1>1. /\ TypeOK /\ Stacks /\ AvailableAgrees
      /\ b \in Blocks /\ o \in Offsets /\ Value(b, o) = v
      /\ chunk \in [Blocks -> Seq(Offsets)] /\ s \in Seq(Offsets) /\ IsInjective(s)
  BY BlockAndOffset DEF IndInv, TypeOK, Stacks
<1>2. /\ v \in entities /\ entities' = entities \ {v}
      /\ available' = IF s = <<>> THEN available + 1 ELSE available
      /\ chunk' = [chunk EXCEPT ![b] = t]
      /\ stamp' = [stamp EXCEPT ![b] = now % TimePeriod]
      /\ freedAt' = [freedAt EXCEPT ![v] = now]
      /\ now' = now
  BY DEF FreeID
<1>3. o \notin Range(s)
  BY <1>1, <1>2 DEF Stacks
<1>4. chunk'[b] = t /\ \A c \in Blocks \ {b} : chunk'[c] = chunk[c]
  BY <1>1, <1>2
<1>. HIDE DEF b, o, s
<1>5. t = Append(s, o) /\ t # <<>>
  BY <1>1
<1>. HIDE DEF t
<1>6. /\ t \in Seq(Offsets) /\ Len(t) = Len(s) + 1 /\ IsInjective(t)
      /\ Range(t) = Range(s) \cup {o}
  <2>1. t \in Seq(Offsets) /\ s \in Seq(Offsets) /\ IsInjective(s) /\ o \in Offsets /\ o \notin Range(s) /\ t = Append(s, o)
    BY <1>1, <1>3, <1>5
  <2>. HIDE DEF t
  <2>2. Len(t) = Len(s) + 1 /\ IsInjective(t) /\ Range(t) = Range(s) \cup {o}
    BY <2>1, Returned, ZenonT(40)
  <2>. QED  BY <2>1, <2>2
<1>7. AvailableAgrees' /\ available' \in Nat
  <2>1. NonEmpty \subseteq Blocks /\ NonEmpty' = NonEmpty \cup {b}
    BY <1>1, <1>4, <1>5 DEF NonEmpty
  <2>2. available = Cardinality(NonEmpty) /\ Cardinality(NonEmpty) \in Nat
    BY <1>1, <2>1, BlocksFinite DEF AvailableAgrees
  <2>3. CASE s = <<>>
    <3>1. b \notin NonEmpty
      BY <2>3 DEF NonEmpty, s
    <3>2. Cardinality(NonEmpty \cup {b}) = Cardinality(NonEmpty) + 1
      BY <1>1, <2>1, <3>1, NonEmptyCount
    <3>. QED  BY <1>2, <2>1, <2>2, <2>3, <3>2 DEF AvailableAgrees
  <2>4. CASE s # <<>>
    <3>1. NonEmpty' = NonEmpty
      BY <1>1, <2>1, <2>4 DEF NonEmpty, s
    <3>. QED  BY <1>2, <2>2, <2>4, <3>1 DEF AvailableAgrees
  <2>. QED  BY <2>3, <2>4
<1>8. TypeOK'
  <2>1. chunk' \in [Blocks -> Seq(Offsets)]
    BY <1>1, <1>2, <1>6
  <2>2. now \in Nat /\ now % TimePeriod \in 0..(TimePeriod - 1)
    BY <1>1, SizeAssumption, DivMod DEF TypeOK
  <2>. QED  BY <1>1, <1>2, <1>7, <2>1, <2>2 DEF TypeOK
<1>9. Stacks'
  <2>1. ASSUME NEW c \in Blocks
        PROVE  /\ IsInjective(chunk'[c])
               /\ \A p \in Range(chunk'[c]) : Value(c, p) \in Values \ entities'
    <3>1. IsInjective(chunk'[c])
      BY <1>1, <1>4, <1>6 DEF Stacks
    <3>2. ASSUME NEW p \in Range(chunk'[c]) PROVE Value(c, p) \in Values \ entities'
      <4>1. CASE c = b /\ p = o
        BY <1>1, <1>2, <4>1
      <4>2. CASE ~(c = b /\ p = o)
        <5>1. p \in Range(chunk[c])
          BY <1>4, <1>6, <3>2, <4>2 DEF s
        <5>. QED  BY <1>1, <1>2, <5>1 DEF Stacks
      <4>. QED  BY <4>1, <4>2
    <3>. QED  BY <3>1, <3>2
  <2>2. ASSUME NEW w \in Values \ entities' PROVE Offset(w) \in Range(chunk'[Block(w)])
    <3>1. Block(w) \in Blocks
      BY BlockAndOffset
    <3>2. CASE w = v
      BY <1>1, <1>4, <1>6, <3>2 DEF b, o
    <3>3. CASE w # v
      <4>1. Offset(w) \in Range(chunk[Block(w)])
        BY <1>1, <1>2, <2>2, <3>3 DEF Stacks
      <4>. QED  BY <1>4, <1>6, <3>1, <4>1 DEF s
    <3>. QED  BY <3>2, <3>3
  <2>. QED  BY <2>1, <2>2 DEF Stacks
<1>. QED  BY <1>2, <1>7, <1>8, <1>9 DEF IndInv

\* A step that takes or frees no id.
LEMMA OtherStep ==
    ASSUME IndInv, Tick \/ UNCHANGED vars
    PROVE  IndInv' /\ entities' = entities
<1>1. UNCHANGED <<chunk, stamp, available, entities, freedAt>> /\ now' \in Nat
  BY DEF IndInv, TypeOK, Tick, vars
<1>2. TypeOK'
  BY <1>1 DEF IndInv, TypeOK
<1>3. AvailableAgrees'
  BY <1>1 DEF IndInv, AvailableAgrees, NonEmpty
<1>4. Stacks'
  BY <1>1 DEF IndInv, Stacks
<1>. QED  BY <1>1, <1>2, <1>3, <1>4 DEF IndInv

\* Each step takes an id that was free, frees one that was in use, or neither.
LEMMA NextStep ==
    ASSUME IndInv, [Next]_vars
    PROVE  /\ IndInv'
           /\ \/ \E v \in Values \ entities : entities' = entities \cup {v}
              \/ \E v \in entities : v \in Values /\ entities' = entities \ {v}
              \/ entities' = entities
<1>1. CASE \E b \in Blocks : GetID(b)
  BY <1>1, GetIDStep
<1>2. CASE \E v \in Values : \E k \in DOMAIN chunk[Block(v)] : GetThisID(v, k)
  BY <1>2, GetThisIDStep
<1>3. CASE \E v \in Values : FreeID(v)
  BY <1>3, FreeIDStep
<1>4. CASE Tick \/ UNCHANGED vars
  BY <1>4, OtherStep
<1>. QED  BY <1>1, <1>2, <1>3, <1>4 DEF Next

(***************************************************************************)
(* Theorems.                                                               *)
(***************************************************************************)

THEOREM Invariance == Spec => []IndInv
<1>1. Init => IndInv
  BY InitImpliesIndInv
<1>2. IndInv /\ [Next]_vars => IndInv'
  BY NextStep
<1>. QED  BY <1>1, <1>2, PTL DEF Spec

\* tfGetID finds a block with a free id whenever an id is free, and reports
\* "Not enough IDs" only when none is.
THEOREM AvailableAgreesAlways == Spec => []AvailableAgrees
<1>1. IndInv => AvailableAgrees
  BY DEF IndInv
<1>. QED  BY <1>1, Invariance, PTL

\* The array m_tpIDs of a block never overflows.
THEOREM RoomToFreeAlways == Spec => []RoomToFree
<1>1. IndInv => RoomToFree
  <2>1. SUFFICES ASSUME IndInv, NEW v \in entities
                 PROVE  Len(chunk[Block(v)]) < BlockSize
    BY DEF RoomToFree
  <2>. DEFINE b == Block(v)
              o == Offset(v)
              s == chunk[b]
  <2>2. /\ v \in Values /\ b \in Blocks /\ o \in Offsets /\ Value(b, o) = v
        /\ s \in Seq(Offsets) /\ IsInjective(s)
    BY <2>1, BlockAndOffset DEF IndInv, TypeOK, Stacks
  <2>3. o \notin Range(s)
    BY <2>1, <2>2 DEF IndInv, Stacks
  <2>. HIDE DEF b, o, s
  <2>4. PICK n \in Nat : n = Len(s)
    BY <2>2, LenProperties
  <2>5. DOMAIN s = 1..n /\ \A i \in 1..n : s[i] \in Offsets \ {o}
    BY <2>2, <2>3, <2>4, LenProperties, ElementOfSeq DEF Range
  <2>6. s \in Injection(1..n, Offsets \ {o})
    <3>1. s \in [1..n -> Offsets \ {o}]
      BY <2>2, <2>4, <2>5
    <3>2. \A i, j \in 1..n : s[i] = s[j] => i = j
      BY <2>2, <2>5 DEF IsInjective
    <3>. QED  BY <3>1, <3>2 DEF Injection, IsInjective
  <2>7. IsFiniteSet(Offsets) /\ Cardinality(Offsets) = BlockSize
    BY SizeAssumption, FS_Interval DEF Offsets
  <2>8. IsFiniteSet(Offsets \ {o}) /\ Cardinality(Offsets \ {o}) = BlockSize - 1
    BY <2>2, <2>7, FS_RemoveElement
  <2>9. Cardinality(1..n) = n
    <3>1. 1 \in Int /\ n \in Int
      BY <2>4
    <3>2. Cardinality(1..n) = IF 1 > n THEN 0 ELSE n - 1 + 1
      BY <3>1, FS_Interval, Zenon
    <3>. QED  BY <2>4, <3>2
  <2>10. n <= BlockSize - 1
    BY <2>6, <2>8, <2>9, FS_Injection
  <2>. QED  BY <2>4, <2>10, SizeAssumption DEF s, b
<1>. QED  BY <1>1, Invariance, PTL

\* CID_Generator implements the pool: an id has at most one user, and each id
\* that is freed can be had again.
THEOREM ImplementsIdPool == Spec => IsIdPool
<1>1. Init => Pool!Init
  BY InitImpliesIndInv DEF Init, Pool!Init
<1>. DEFINE FreeIfUnused == FreeIds = Values \ entities
<1>2. IndInv => FreeIfUnused
  BY FreeIdsAre
<1>3. IndInv /\ FreeIfUnused /\ FreeIfUnused' /\ [Next]_vars => [Pool!Next]_(Pool!vars)
  <2>1. SUFFICES ASSUME IndInv, FreeIds = Values \ entities, FreeIds' = Values \ entities',
                        [Next]_vars
                 PROVE  [Pool!Next]_(Pool!vars)
    OBVIOUS
  <2>2. CASE \E v \in Values \ entities : entities' = entities \cup {v}
    <3>1. PICK v \in Values \ entities : entities' = entities \cup {v}
      BY <2>2
    <3>2. FreeIds' = FreeIds \ {v} /\ v \in FreeIds
      BY <2>1, <3>1
    <3>. QED  BY <3>1, <3>2 DEF Pool!Next, Pool!Get
  <2>3. CASE \E v \in entities : v \in Values /\ entities' = entities \ {v}
    <3>1. PICK v \in entities : v \in Values /\ entities' = entities \ {v}
      BY <2>3
    <3>2. FreeIds' = FreeIds \cup {v}
      BY <2>1, <3>1
    <3>. QED  BY <3>1, <3>2 DEF Pool!Next, Pool!Return
  <2>4. CASE entities' = entities
    BY <2>1, <2>4 DEF Pool!vars
  <2>. QED  BY <2>1, <2>2, <2>3, <2>4, NextStep
<1>. HIDE DEF FreeIfUnused
<1>. QED  BY <1>1, <1>2, <1>3, Invariance, PTL DEF Spec, IsIdPool, Pool!Spec

(***************************************************************************)
(* The order of reuse, before Device.TimerAsync wraps.                     *)
(***************************************************************************)

\* Until the wrap, the time of a block is that at which the last of its ids was
\* freed.
StampsAgree ==
    /\ \A b \in Blocks : stamp[b] <= now
    /\ \A v \in Values : freedAt[v] <= stamp[Block(v)]
    /\ \A b \in Blocks : \E v \in Values : Block(v) = b /\ freedAt[v] = stamp[b]

StampsAgreeSoFar == now < TimePeriod => StampsAgree

LEMMA StampsAgreeAtFirst == Init => StampsAgree
<1>. SUFFICES ASSUME Init PROVE StampsAgree
  OBVIOUS
<1>2. ASSUME NEW v \in Values PROVE freedAt[v] <= stamp[Block(v)]
  BY BlockAndOffset DEF Init
<1>3. ASSUME NEW b \in Blocks PROVE \E v \in Values : Block(v) = b /\ freedAt[v] = stamp[b]
  <2>1. 0 \in Offsets /\ Value(b, 0) \in Values
    BY CountOf, SizeAssumption DEF Offsets
  <2>2. Block(Value(b, 0)) = b
    BY <2>1, BlockAndOffset
  <2>. QED  BY <2>1, <2>2 DEF Init
<1>4. \A b \in Blocks : stamp[b] <= now
  BY DEF Init
<1>. QED  BY <1>2, <1>3, <1>4 DEF StampsAgree

LEMMA StampsAgreeNext ==
    ASSUME now < TimePeriod, IndInv, StampsAgree, [Next]_vars
    PROVE  StampsAgree'
<1>1. ASSUME NEW v \in Values, FreeID(v) PROVE StampsAgree'
  <2>1. /\ stamp' = [stamp EXCEPT ![Block(v)] = now % TimePeriod]
        /\ freedAt' = [freedAt EXCEPT ![v] = now] /\ now' = now
    BY <1>1 DEF FreeID
  <2>2. /\ now \in Nat /\ now < TimePeriod /\ Block(v) \in Blocks
        /\ stamp \in [Blocks -> 0..(TimePeriod - 1)] /\ freedAt \in [Values -> Nat]
    BY BlockAndOffset DEF IndInv, TypeOK, StampsAgree
  <2>3. now % TimePeriod = now
    BY <2>2, SizeAssumption
  <2>4. /\ stamp'[Block(v)] = now /\ \A b \in Blocks \ {Block(v)} : stamp'[b] = stamp[b]
        /\ freedAt'[v] = now /\ \A w \in Values \ {v} : freedAt'[w] = freedAt[w]
    BY <2>1, <2>2, <2>3
  <2>5. \A b \in Blocks : stamp'[b] <= now'
    BY <2>1, <2>2, <2>4 DEF StampsAgree
  <2>6. ASSUME NEW w \in Values PROVE freedAt'[w] <= stamp'[Block(w)]
    <3>1. /\ Block(w) \in Blocks /\ freedAt[w] <= stamp[Block(w)] /\ stamp[Block(w)] <= now
          /\ freedAt[w] \in Nat /\ stamp[Block(w)] \in Nat
      BY <2>2, BlockAndOffset DEF StampsAgree
    <3>. QED  BY <2>2, <2>4, <3>1
  <2>7. ASSUME NEW b \in Blocks PROVE \E w \in Values : Block(w) = b /\ freedAt'[w] = stamp'[b]
    <3>1. CASE b = Block(v)
      BY <2>4, <3>1
    <3>2. CASE b # Block(v)
      <4>1. PICK w \in Values : Block(w) = b /\ freedAt[w] = stamp[b]
        BY DEF StampsAgree
      <4>. QED  BY <2>4, <3>2, <4>1
    <3>. QED  BY <3>1, <3>2
  <2>. QED  BY <2>1, <2>2, <2>5, <2>6, <2>7 DEF StampsAgree
<1>2. CASE Tick
  <2>1. /\ now' = now + 1 /\ now \in Nat
        /\ stamp' = stamp /\ freedAt' = freedAt /\ stamp \in [Blocks -> 0..(TimePeriod - 1)]
    BY <1>2, SizeAssumption DEF Tick, IndInv, TypeOK
  <2>3. ASSUME NEW b \in Blocks PROVE stamp'[b] <= now'
    <3>1. stamp[b] <= now /\ stamp[b] \in Nat
      BY <2>1, SizeAssumption DEF StampsAgree
    <3>. QED  BY <2>1, <3>1
  <2>. QED  BY <2>1, <2>3 DEF StampsAgree
<1>3. ASSUME UNCHANGED <<stamp, now, freedAt>> PROVE StampsAgree'
  BY <1>3 DEF StampsAgree
<1>. QED  BY <1>1, <1>2, <1>3 DEF Next, GetID, GetThisID, vars

\* While Device.TimerAsync has not wrapped, an id that is handed out was freed no
\* later than some id of each other block that still has free ids.
THEOREM OldestFirstBeforeWrap == Spec => OldestFirst
<1>1. ASSUME IndInv, StampsAgreeSoFar, [Next]_vars PROVE StampsAgreeSoFar'
  <2>. SUFFICES ASSUME (now < TimePeriod)' PROVE StampsAgree'
    BY DEF StampsAgreeSoFar
  <2>1. now < TimePeriod
    <3>1. now' = now \/ now' = now + 1
      BY <1>1 DEF Next, GetID, GetThisID, FreeID, Tick, vars
    <3>2. now \in Int /\ TimePeriod \in Int
      BY <1>1, SizeAssumption DEF IndInv, TypeOK
    <3>. QED  BY <3>1, <3>2
  <2>. QED  BY <1>1, <2>1, StampsAgreeNext DEF StampsAgreeSoFar
<1>2. Spec => [](IndInv /\ StampsAgreeSoFar)
  <2>1. Init => StampsAgreeSoFar
    BY StampsAgreeAtFirst DEF StampsAgreeSoFar
  <2>. QED  BY <1>1, <2>1, Invariance, PTL DEF Spec
<1>3. ASSUME IndInv, StampsAgreeSoFar, [Next]_vars
      PROVE  [\A b \in Blocks : now < TimePeriod /\ GetID(b) =>
                \A v \in entities' \ entities, c \in NonEmpty : FreedNoLater(v, c)]_vars
  <2>0. SUFFICES ASSUME now < TimePeriod,
                        NEW b \in Blocks, GetID(b), NEW v \in entities' \ entities,
                        NEW c \in NonEmpty
                 PROVE  FreedNoLater(v, c)
    OBVIOUS
  <2>1. StampsAgree
    BY <1>3, <2>0 DEF StampsAgreeSoFar
  <2>2. /\ b \in NonEmpty /\ stamp[b] <= stamp[c] /\ c \in Blocks
        /\ v = Value(b, Last(chunk[b]))
    BY <1>3, <2>0, SizeAssumption DEF GetID, Precedes, NonEmpty, IndInv, TypeOK
  <2>3. Last(chunk[b]) \in Offsets
    <3>1. chunk[b] \in Seq(Offsets) /\ chunk[b] # <<>>
      BY <1>3, <2>2 DEF IndInv, TypeOK, NonEmpty
    <3>2. Len(chunk[b]) \in 1..Len(chunk[b])
      BY <3>1, EmptySeq, LenProperties
    <3>. QED  BY <3>1, <3>2, ElementOfSeq DEF Last
  <2>4. v \in Values /\ Block(v) = b
    <3>1. entities' \in SUBSET Values
      BY <1>3, NextStep DEF IndInv, TypeOK
    <3>. QED  BY <2>2, <2>3, <3>1, BlockAndOffset
  <2>5. PICK w \in Values : Block(w) = c /\ freedAt[w] = stamp[c]
    BY <2>1, <2>2 DEF StampsAgree
  <2>6. freedAt[v] <= stamp[b]
    BY <2>1, <2>4 DEF StampsAgree
  <2>7. /\ freedAt[v] \in Nat /\ stamp[b] \in Nat /\ stamp[c] \in Nat
    BY <1>3, <2>2, <2>4, SizeAssumption DEF IndInv, TypeOK
  <2>8. freedAt[v] <= freedAt[w]
    BY <2>2, <2>5, <2>6, <2>7
  <2>. QED  BY <2>5, <2>8 DEF FreedNoLater
<1>. QED  BY <1>2, <1>3, PTL DEF Spec, OldestFirst

=============================================================================

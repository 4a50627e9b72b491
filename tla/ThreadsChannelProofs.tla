------------------------ MODULE ThreadsChannelProofs ------------------------
(* The lists of a one_way_threads_channel are well-formed whatever the      *)
(* number of values, and the channel implements OwnedFifo.                  *)
EXTENDS ThreadsChannel, SequenceTheorems, FiniteSetTheorems, TLAPS

(***************************************************************************)
(* Linked lists.                                                           *)
(***************************************************************************)

\* What a member of a list has to do with its ends.
LEMMA ListEnds ==
    ASSUME NEW s \in Seq(Nodes), NEW nx, NEW a, NEW l, LinkedList(s, nx, a, l)
    PROVE  /\ Len(s) \in Nat /\ Len(s) >= 1
           /\ a \in Nodes /\ l \in Nodes
           /\ a \in Range(s) /\ l \in Range(s)
           /\ Range(s) \subseteq Nodes
BY DEF LinkedList, Range

\* The list whose first node links to nothing is that node.
LEMMA ListOfOne ==
    ASSUME NEW s \in Seq(Nodes), NEW nx, NEW a, NEW l,
           LinkedList(s, nx, a, l), nx[a] = Null
    PROVE  Len(s) = 1 /\ Range(s) = {a} /\ l = a /\ Tail(s) = <<>>
<1>1. Len(s) \in Nat /\ Len(s) >= 1 /\ s[1] = a /\ s[Len(s)] = l
  BY DEF LinkedList
<1>2. Len(s) = 1
  <2>1. ASSUME Len(s) > 1 PROVE FALSE
    <3>1. nx[s[1]] = s[2] /\ s[2] \in Nodes
      BY <1>1, <2>1 DEF LinkedList
    <3>. QED  BY <1>1, <3>1, NullAssumption
  <2>2. \A n \in Nat : n >= 1 /\ ~(n > 1) => n = 1
    OBVIOUS
  <2>. QED  BY <1>1, <2>1, <2>2, Zenon
<1>3. Range(s) = {a}
  BY <1>1, <1>2 DEF Range
<1>4. Tail(s) = <<>>
  <2>1. Tail(s) \in Seq(Nodes) /\ Len(Tail(s)) = Len(s) - 1
    BY <1>1
  <2>2. ~(Len(Tail(s)) \in Nat \ {0})
    BY <1>2, <2>1
  <2>. QED  BY <2>1, <2>2, EmptySeq, Zenon
<1>. QED  BY <1>1, <1>2, <1>3, <1>4

\* What pop_front makes of a list.
LEMMA ListTail ==
    ASSUME NEW s \in Seq(Nodes), NEW nx, NEW a, NEW l,
           LinkedList(s, nx, a, l), nx[a] # Null
    PROVE  /\ Len(s) > 1 /\ nx[a] = s[2]
           /\ Tail(s) \in Seq(Nodes)
           /\ LinkedList(Tail(s), nx, nx[a], l)
           /\ Range(s) = Range(Tail(s)) \cup {a}
           /\ a \notin Range(Tail(s))
<1>. DEFINE t == Tail(s)
<1>1. Len(s) \in Nat /\ Len(s) >= 1 /\ s[1] = a /\ s[Len(s)] = l
  BY DEF LinkedList
<1>2. Len(s) > 1
  BY <1>1 DEF LinkedList
<1>3. nx[a] = s[2]
  BY <1>1, <1>2 DEF LinkedList
<1>4. /\ t \in Seq(Nodes) /\ Len(t) = Len(s) - 1
      /\ \A i \in 1..Len(t) : t[i] = s[i + 1]
      /\ DOMAIN t = 1..(Len(s) - 1) /\ DOMAIN s = 1..Len(s)
  BY <1>1, <1>2
<1>. HIDE DEF t
<1>5. IsInjective(t)
  <2>1. IsInjective(s)
    BY DEF LinkedList
  <2>2. SUFFICES ASSUME NEW i \in 1..(Len(s) - 1), NEW j \in 1..(Len(s) - 1),
                        t[i] = t[j]
                 PROVE  i = j
    BY <1>4 DEF IsInjective
  <2>3. i + 1 \in DOMAIN s /\ j + 1 \in DOMAIN s /\ s[i + 1] = s[j + 1]
    BY <1>1, <1>4, <2>2
  <2>. QED  BY <2>1, <2>3 DEF IsInjective
<1>6. LinkedList(t, nx, nx[a], l)
  BY <1>1, <1>2, <1>3, <1>4, <1>5 DEF LinkedList
<1>7. Range(s) = Range(t) \cup {a}
  <2>1. ASSUME NEW x \in Range(s) PROVE x \in Range(t) \cup {a}
    <3>1. PICK i \in 1..Len(s) : x = s[i]
      BY <1>4, <2>1 DEF Range
    <3>2. CASE i = 1
      BY <1>1, <3>1, <3>2
    <3>3. CASE i # 1
      <4>1. i - 1 \in 1..(Len(s) - 1) /\ t[i - 1] = s[i]
        BY <1>1, <1>4, <3>1, <3>3
      <4>. QED  BY <1>4, <3>1, <4>1 DEF Range
    <3>. QED  BY <3>2, <3>3
  <2>2. ASSUME NEW x \in Range(t) PROVE x \in Range(s)
    <3>1. PICK i \in 1..(Len(s) - 1) : x = t[i]
      BY <1>4, <2>2 DEF Range
    <3>2. i + 1 \in 1..Len(s) /\ x = s[i + 1]
      BY <1>1, <1>4, <3>1
    <3>. QED  BY <1>4, <3>2 DEF Range
  <2>3. a \in Range(s)
    BY <1>1, <1>4 DEF Range
  <2>. QED  BY <2>1, <2>2, <2>3
<1>8. a \notin Range(t)
  <2>1. SUFFICES ASSUME NEW i \in 1..(Len(s) - 1), a = t[i] PROVE FALSE
    BY <1>4 DEF Range
  <2>2. i + 1 \in 1..Len(s) /\ s[i + 1] = s[1] /\ 1 \in 1..Len(s) /\ i + 1 # 1
    BY <1>1, <1>4, <2>1
  <2>. QED  BY <1>4, <2>2 DEF LinkedList, IsInjective
<1>. QED  BY <1>2, <1>3, <1>4, <1>6, <1>7, <1>8 DEF t

\* All but the first node of a list.
LEMMA ListRest ==
    ASSUME NEW s \in Seq(Nodes), NEW nx, NEW a, NEW l, LinkedList(s, nx, a, l)
    PROVE  /\ Tail(s) \in Seq(Nodes)
           /\ Range(s) = Range(Tail(s)) \cup {a} /\ a \notin Range(Tail(s))
<1>1. CASE nx[a] = Null
  <2>1. Range(s) = {a} /\ Tail(s) = <<>>
    BY <1>1, ListOfOne
  <2>2. Range(<<>>) = {} /\ <<>> \in Seq(Nodes)
    BY DEF Range
  <2>. QED  BY <2>1, <2>2
<1>2. CASE nx[a] # Null
  BY <1>2, ListTail
<1>. QED  BY <1>1, <1>2

LEMMA AppendRange ==
    ASSUME NEW s \in Seq(Nodes), NEW v \in Nodes
    PROVE  Range(Append(s, v)) = Range(s) \cup {v}
<1>. DEFINE t == Append(s, v)
<1>1. /\ Len(s) \in Nat /\ DOMAIN t = 1..(Len(s) + 1) /\ DOMAIN s = 1..Len(s)
      /\ \A i \in 1..Len(s) : t[i] = s[i]
      /\ t[Len(s) + 1] = v
  OBVIOUS
<1>. HIDE DEF t
<1>2. ASSUME NEW x \in Range(t) PROVE x \in Range(s) \cup {v}
  <2>1. PICK i \in 1..(Len(s) + 1) : x = t[i]
    BY <1>1, <1>2 DEF Range
  <2>2. i \in 1..Len(s) \/ i = Len(s) + 1
    BY <1>1, <2>1
  <2>. QED  BY <1>1, <2>1, <2>2 DEF Range
<1>3. ASSUME NEW x \in Range(s) PROVE x \in Range(t)
  <2>1. PICK i \in 1..Len(s) : x = s[i]
    BY <1>1, <1>3 DEF Range
  <2>2. i \in 1..(Len(s) + 1) /\ x = t[i]
    BY <1>1, <2>1
  <2>. QED  BY <1>1, <2>2 DEF Range
<1>4. v \in Range(t)
  <2>1. Len(s) + 1 \in 1..(Len(s) + 1)
    BY <1>1
  <2>. QED  BY <1>1, <2>1 DEF Range
<1>. QED  BY <1>2, <1>3, <1>4 DEF t

\* What push_back makes of a list, up to its assignment of m_head.
LEMMA ListAppend ==
    ASSUME NEW s \in Seq(Nodes), NEW nx \in [Nodes -> Nodes \cup {Null}],
           NEW a, NEW l, LinkedList(s, nx, a, l),
           NEW v \in Nodes, v \notin Range(s)
    PROVE  /\ Append(s, v) \in Seq(Nodes)
           /\ LinkedList(Append(s, v), [nx EXCEPT ![v] = Null, ![l] = v], a, v)
           /\ Range(Append(s, v)) = Range(s) \cup {v}
<1>. DEFINE t == Append(s, v)
            n == [nx EXCEPT ![v] = Null, ![l] = v]
<1>1. Len(s) \in Nat /\ Len(s) >= 1 /\ s[1] = a /\ s[Len(s)] = l
  BY DEF LinkedList
<1>2. /\ t \in Seq(Nodes) /\ Len(t) = Len(s) + 1
      /\ \A i \in 1..Len(s) : t[i] = s[i] /\ s[i] \in Nodes
      /\ t[Len(s) + 1] = v
      /\ DOMAIN t = 1..(Len(s) + 1) /\ DOMAIN s = 1..Len(s)
  BY <1>1
<1>3. \A i \in 1..Len(s) : s[i] # v
  BY <1>2 DEF Range
<1>4. n[v] = Null /\ n[l] = v /\ \A x \in Nodes : x # v /\ x # l => n[x] = nx[x]
  BY <1>1, <1>2, <1>3
<1>. HIDE DEF t, n
<1>5. IsInjective(t)
  <2>1. IsInjective(s)
    BY DEF LinkedList
  <2>2. SUFFICES ASSUME NEW i \in 1..(Len(s) + 1), NEW j \in 1..(Len(s) + 1),
                        t[i] = t[j]
                 PROVE  i = j
    BY <1>2 DEF IsInjective
  <2>3. CASE i \in 1..Len(s) /\ j \in 1..Len(s)
    BY <1>2, <2>1, <2>2, <2>3 DEF IsInjective
  <2>4. CASE i = Len(s) + 1 \/ j = Len(s) + 1
    BY <1>1, <1>2, <1>3, <2>2, <2>4
  <2>. QED  BY <1>1, <2>3, <2>4
<1>6. \A i \in 1..(Len(t) - 1) : n[t[i]] = t[i + 1]
  <2>1. SUFFICES ASSUME NEW i \in 1..Len(s) PROVE n[t[i]] = t[i + 1]
    BY <1>1, <1>2
  <2>2. CASE i = Len(s)
    BY <1>1, <1>2, <1>4, <2>2
  <2>3. CASE i # Len(s)
    <3>1. i \in 1..(Len(s) - 1) /\ i + 1 \in 1..Len(s) /\ Len(s) \in 1..Len(s)
      BY <1>1, <2>1, <2>3
    <3>2. s[i] # s[Len(s)]
      BY <1>2, <2>3, <3>1 DEF LinkedList, IsInjective
    <3>3. n[s[i]] = nx[s[i]] /\ nx[s[i]] = s[i + 1]
      BY <1>1, <1>2, <1>3, <1>4, <3>1, <3>2 DEF LinkedList
    <3>. QED  BY <1>2, <3>1, <3>3
  <2>. QED  BY <2>2, <2>3
<1>7. t # <<>> /\ t[1] = a /\ t[Len(t)] = v /\ n[v] = Null
  BY <1>1, <1>2, <1>4
<1>8. LinkedList(t, n, a, v)
  BY <1>5, <1>6, <1>7 DEF LinkedList
<1>9. Range(t) = Range(s) \cup {v}
  BY AppendRange DEF t
<1>. QED  BY <1>2, <1>8, <1>9 DEF t, n

\* A push to one list leaves another one as it is.
LEMMA ListFrame ==
    ASSUME NEW s \in Seq(Nodes), NEW nx \in [Nodes -> Nodes \cup {Null}],
           NEW a, NEW l, LinkedList(s, nx, a, l),
           NEW v, NEW h, v \notin Range(s), h \notin Range(s)
    PROVE  LinkedList(s, [nx EXCEPT ![v] = Null, ![h] = v], a, l)
<1>. DEFINE n == [nx EXCEPT ![v] = Null, ![h] = v]
<1>1. Len(s) \in Nat /\ Len(s) >= 1 /\ s[Len(s)] = l /\ DOMAIN s = 1..Len(s)
  BY DEF LinkedList
<1>2. \A i \in 1..Len(s) : s[i] \in Nodes /\ s[i] # v /\ s[i] # h
  BY <1>1 DEF Range
<1>3. \A x \in Nodes : x # v /\ x # h => n[x] = nx[x]
  OBVIOUS
<1>. HIDE DEF n
<1>4. \A i \in 1..Len(s) : n[s[i]] = nx[s[i]]
  BY <1>2, <1>3
<1>5. \A i \in 1..(Len(s) - 1) : n[s[i]] = s[i + 1]
  BY <1>1, <1>4 DEF LinkedList
<1>6. n[l] = Null
  BY <1>1, <1>4 DEF LinkedList
<1>7. LinkedList(s, n, a, l)
  BY <1>5, <1>6 DEF LinkedList
<1>. QED  BY <1>7 DEF n

(***************************************************************************)
(* The invariant.                                                          *)
(***************************************************************************)

LEMMA InitImpliesIndInv == Init => IndInv
<1>. SUFFICES ASSUME Init PROVE IndInv
  OBVIOUS
<1>1. PICK f \in Nodes, b \in Nodes :
        /\ f # b
        /\ allocated = {f, b}
        /\ head = [q \in Queues |-> IF q = "forward" THEN f ELSE b]
        /\ list = [q \in Queues |-> IF q = "forward" THEN <<f>> ELSE <<b>>]
  BY DEF Init
<1>2. /\ tail = head /\ next = [v \in Nodes |-> Null] /\ kept = {}
      /\ owner = "idle" /\ ownerReg = Null
      /\ user = "idle" /\ userReg = Null /\ userItem = Null
  BY DEF Init
<1>3. /\ list["forward"] = <<f>> /\ list["backward"] = <<b>>
      /\ tail["forward"] = f /\ tail["backward"] = b
      /\ head["forward"] = f /\ head["backward"] = b
  BY <1>1, <1>2 DEF Queues
<1>4. TypeOK
  <2>1. list \in [Queues -> Seq(Nodes)]
    <3>1. <<f>> \in Seq(Nodes) /\ <<b>> \in Seq(Nodes)
      OBVIOUS
    <3>. QED  BY <1>1, <3>1
  <2>2. head \in [Queues -> Nodes] /\ tail \in [Queues -> Nodes]
    BY <1>1, <1>2
  <2>. QED  BY <1>1, <1>2, <2>1, <2>2 DEF TypeOK, OwnerStates, UserStates
<1>5. Finalizing
  BY <1>2 DEF Finalizing
<1>6. \A x \in Nodes : LinkedList(<<x>>, next, x, x) /\ Range(<<x>>) = {x}
  <2>1. TAKE x \in Nodes
  <2>2. Len(<<x>>) = 1 /\ DOMAIN <<x>> = 1..1 /\ <<x>>[1] = x /\ <<x>> # <<>>
    OBVIOUS
  <2>3. IsInjective(<<x>>)
    BY <2>2 DEF IsInjective
  <2>4. next[x] = Null
    BY <1>2
  <2>. QED  BY <2>2, <2>3, <2>4 DEF LinkedList, Range
<1>7. LastForward = f /\ LastBackward = b /\ InTransit = {}
  BY <1>2, <1>3 DEF LastForward, LastBackward, InTransit
<1>8. OnePlace({f}, {b}, {})
  BY <1>1, <1>2 DEF OnePlace
<1>9. RegistersValid
  BY <1>2 DEF RegistersValid
<1>10. WellFormed
  BY <1>3, <1>6, <1>7, <1>8, <1>9 DEF WellFormed
<1>. QED  BY <1>4, <1>5, <1>10 DEF IndInv, ListsAreWellFormed

\* What the invariant says of a channel that is not finalized.
LEMMA Facts ==
    ASSUME IndInv, owner # "closed"
    PROVE  /\ list["forward"] \in Seq(Nodes) /\ list["backward"] \in Seq(Nodes)
           /\ next \in [Nodes -> Nodes \cup {Null}]
           /\ DOMAIN list = Queues /\ DOMAIN tail = Queues /\ DOMAIN head = Queues
           /\ tail["forward"] \in Nodes /\ tail["backward"] \in Nodes
           /\ tail["forward"] \in Range(list["forward"])
           /\ tail["backward"] \in Range(list["backward"])
           /\ LastForward \in Range(list["forward"])
           /\ LastBackward \in Range(list["backward"])
           /\ Range(list["forward"]) \subseteq Nodes
           /\ Range(list["backward"]) \subseteq Nodes
           /\ LinkedList(list["forward"], next, tail["forward"], LastForward)
           /\ LinkedList(list["backward"], next, tail["backward"], LastBackward)
           /\ next[LastForward] = Null /\ next[LastBackward] = Null
           /\ OnePlace(Range(list["forward"]), Range(list["backward"]), InTransit)
           /\ RegistersValid
<1>1. TypeOK /\ WellFormed
  BY DEF IndInv, ListsAreWellFormed
<1>2. /\ list["forward"] \in Seq(Nodes) /\ list["backward"] \in Seq(Nodes)
      /\ DOMAIN list = Queues /\ DOMAIN tail = Queues /\ DOMAIN head = Queues
  BY <1>1 DEF TypeOK, Queues
<1>3. /\ LinkedList(list["forward"], next, tail["forward"], LastForward)
      /\ LinkedList(list["backward"], next, tail["backward"], LastBackward)
      /\ OnePlace(Range(list["forward"]), Range(list["backward"]), InTransit)
      /\ RegistersValid
  BY <1>1 DEF WellFormed
<1>4. /\ tail["forward"] \in Nodes /\ tail["forward"] \in Range(list["forward"])
      /\ LastForward \in Range(list["forward"]) /\ Range(list["forward"]) \subseteq Nodes
  BY <1>2, <1>3, ListEnds
<1>5. /\ tail["backward"] \in Nodes /\ tail["backward"] \in Range(list["backward"])
      /\ LastBackward \in Range(list["backward"]) /\ Range(list["backward"]) \subseteq Nodes
  BY <1>2, <1>3, ListEnds
<1>6. next[LastForward] = Null /\ next[LastBackward] = Null
  BY <1>3 DEF LinkedList
<1>7. next \in [Nodes -> Nodes \cup {Null}]
  BY <1>1 DEF TypeOK
<1>. QED  BY <1>2, <1>3, <1>4, <1>5, <1>6, <1>7

\* The user works with a channel that is not finalized.
LEMMA UserAtWork ==
    ASSUME IndInv, user # "stopped"
    PROVE  owner \notin {"dropping", "draining", "sweeping", "closed"}
BY DEF IndInv, Finalizing

\* The steps that change neither a link nor what is allocated.
LEMMA LocalSteps ==
    ASSUME IndInv,
           OwnerReclaims \/ OwnerPops \/ UserPops \/ UserStops \/ Finalize
    PROVE  IndInv'
<1>1. owner # "closed"
  BY UserAtWork DEF OwnerReclaims, OwnerPops, UserPops, UserStops, Finalize
<1>2. UNCHANGED <<queueVars, allocated, kept, userItem>>
  BY DEF OwnerReclaims, OwnerPops, UserPops, UserStops, Finalize, userVars, ownerVars
<1>3. UNCHANGED <<LastForward, LastBackward, InTransit>>
  BY <1>2 DEF OwnerReclaims, OwnerPops, UserPops, UserStops, Finalize, userVars, ownerVars,
     queueVars, LastForward, LastBackward, InTransit
<1>4. NextValue("forward") \in Nodes \cup {Null} /\ NextValue("backward") \in Nodes \cup {Null}
  BY <1>1, Facts DEF NextValue
<1>5. TypeOK'
  BY <1>1, <1>2, <1>4 DEF IndInv, TypeOK, queueVars, OwnerStates, UserStates, userVars, ownerVars,
     OwnerReclaims, OwnerPops, UserPops, UserStops, Finalize
<1>6. Finalizing'
  BY <1>1, <1>2 DEF IndInv, Finalizing, NextValue, queueVars, userVars, ownerVars,
     OwnerReclaims, OwnerPops, UserPops, UserStops, Finalize
<1>7. RegistersValid'
  <2>1. RegistersValid
    BY <1>1, Facts
  <2>. QED
    BY <1>2, <2>1 DEF RegistersValid, NextValue, queueVars, userVars, ownerVars,
       OwnerReclaims, OwnerPops, UserPops, UserStops, Finalize
<1>8. WellFormed'
  <2>1. WellFormed
    BY <1>1 DEF IndInv, ListsAreWellFormed
  <2>2. UNCHANGED <<next, tail, list, kept, allocated>>
    BY <1>2 DEF queueVars
  <2>. QED  BY <1>3, <1>7, <2>1, <2>2 DEF WellFormed, OnePlace
<1>. QED  BY <1>5, <1>6, <1>8 DEF IndInv, ListsAreWellFormed

\* The assignment of m_head.
LEMMA HeadSteps ==
    ASSUME IndInv, OwnerPushed \/ UserHandedBack
    PROVE  IndInv'
<1>1. owner # "closed"
  BY UserAtWork DEF OwnerPushed, UserHandedBack
<1>2. UNCHANGED <<next, tail, list, allocated, kept, ownerReg, userReg, userItem>>
  BY DEF OwnerPushed, UserHandedBack, userVars, ownerVars
<1>3. TypeOK /\ RegistersValid /\ WellFormed /\ Finalizing
  BY <1>1, Facts DEF IndInv, ListsAreWellFormed
<1>4. LastForward \in Nodes /\ LastBackward \in Nodes
  BY <1>1, Facts
<1>5. UNCHANGED <<LastForward, LastBackward, InTransit>>
  <2>1. CASE OwnerPushed
    <3>1. head' = [head EXCEPT !["forward"] = ownerReg]
      BY <2>1 DEF OwnerPushed, MoveHead
    <3>2. head'["forward"] = ownerReg /\ head'["backward"] = head["backward"]
      BY <1>1, <3>1, Facts DEF Queues
    <3>. QED
      BY <2>1, <3>2 DEF OwnerPushed, LastForward, LastBackward, InTransit, userVars
  <2>2. CASE UserHandedBack
    <3>1. head' = [head EXCEPT !["backward"] = userItem]
      BY <2>2 DEF UserHandedBack, MoveHead
    <3>2. head'["backward"] = userItem /\ head'["forward"] = head["forward"]
      BY <1>1, <3>1, Facts DEF Queues
    <3>. QED
      BY <2>2, <3>2 DEF UserHandedBack, LastForward, LastBackward, InTransit, ownerVars
  <2>. QED  BY <2>1, <2>2
<1>6. TypeOK'
  <2>1. ownerReg \in Nodes \cup {Null} /\ userItem \in Nodes \cup {Null}
    BY <1>3 DEF TypeOK
  <2>. QED
    BY <1>1, <1>2, <1>3, <2>1 DEF TypeOK, OwnerPushed, UserHandedBack, MoveHead, userVars, ownerVars,
       OwnerStates, UserStates
<1>7. Finalizing'
  BY <1>1, <1>2, <1>3 DEF Finalizing, NextValue, OwnerPushed, UserHandedBack, userVars, ownerVars
<1>8. RegistersValid'
  BY <1>2, <1>3 DEF RegistersValid, NextValue, OwnerPushed, UserHandedBack, userVars, ownerVars
<1>9. WellFormed'
  BY <1>2, <1>3, <1>5, <1>8 DEF WellFormed, OnePlace
<1>. QED  BY <1>6, <1>7, <1>9 DEF IndInv, ListsAreWellFormed

\* The container of the user.
LEMMA KeptSteps ==
    ASSUME IndInv, UserKeeps \/ (\E v \in kept : UserReleases(v)) \/ FinalizeKept
    PROVE  IndInv'
<1>1. owner # "closed"
  BY UserAtWork DEF UserKeeps, UserReleases, FinalizeKept
<1>2. UNCHANGED <<queueVars, ownerReg, userReg>>
  BY DEF UserKeeps, UserReleases, FinalizeKept, ownerVars
<1>3. /\ TypeOK /\ RegistersValid /\ WellFormed /\ Finalizing
      /\ OnePlace(Range(list["forward"]), Range(list["backward"]), InTransit)
      /\ tail["forward"] \in Nodes /\ tail["forward"] \in Range(list["forward"])
  BY <1>1, Facts DEF IndInv, ListsAreWellFormed
<1>4. UNCHANGED <<LastForward, LastBackward>>
  BY <1>2 DEF LastForward, LastBackward, UserKeeps, UserReleases, FinalizeKept, queueVars, ownerVars
<1>5. TypeOK'
  <2>1. kept \in SUBSET Nodes /\ allocated \in SUBSET Nodes
    BY <1>3 DEF TypeOK
  <2>. QED
    BY <1>1, <1>2, <1>3, <2>1 DEF TypeOK, UserKeeps, UserReleases, FinalizeKept, ownerVars,
       queueVars, OwnerStates, UserStates
<1>6. Finalizing'
  <2>1. CASE user # "stopped"
    BY <1>2, <2>1, UserAtWork DEF Finalizing, UserKeeps, UserReleases, FinalizeKept, ownerVars
  <2>2. CASE user = "stopped"
    BY <1>2, <1>3, <2>2 DEF Finalizing, UserKeeps, UserReleases, FinalizeKept
  <2>. QED  BY <2>1, <2>2
<1>7. RegistersValid'
  BY <1>2, <1>3 DEF RegistersValid, NextValue, queueVars, UserKeeps, UserReleases, FinalizeKept, ownerVars
<1>8. OnePlace(Range(list["forward"]), Range(list["backward"]), InTransit)'
  <2>1. tail' = tail
    BY <1>2 DEF queueVars
  <2>2. ASSUME NEW f, NEW b, OnePlace(f, b, InTransit), tail["forward"] \in f
        PROVE  OnePlace(f, b, InTransit)'
    <3>1. CASE UserKeeps
      BY <2>1, <2>2, <3>1 DEF UserKeeps, OnePlace, InTransit
    <3>2. CASE \E v \in kept : UserReleases(v)
      BY <2>1, <2>2, <3>2 DEF UserReleases, OnePlace, InTransit
    <3>3. CASE FinalizeKept
      <4>1. user = "stopped" /\ InTransit = {} /\ InTransit' = {}
        BY <1>3, <3>3 DEF Finalizing, FinalizeKept, InTransit
      <4>. QED  BY <2>1, <2>2, <3>3, <4>1 DEF FinalizeKept, OnePlace
    <3>. QED  BY <3>1, <3>2, <3>3
  <2>3. PICK f, b : f = Range(list["forward"]) /\ b = Range(list["backward"])
    OBVIOUS
  <2>4. OnePlace(f, b, InTransit)'
    BY <1>3, <2>2, <2>3
  <2>5. list' = list
    BY <1>2 DEF queueVars
  <2>. QED  BY <2>3, <2>4, <2>5 DEF OnePlace
<1>9. WellFormed'
  BY <1>2, <1>3, <1>4, <1>7, <1>8 DEF WellFormed, queueVars
<1>. QED  BY <1>5, <1>6, <1>9 DEF IndInv, ListsAreWellFormed

\* What a push to either queue makes of the lists and of what a pop has read.
LEMMA PublishLists ==
    ASSUME IndInv, owner # "closed",
           NEW q \in Queues, NEW r \in Queues, q # r,
           NEW v \in Nodes,
           v \notin Range(list[q]), v \notin Range(list[r]),
           head[q] \in Range(list[q]), next[head[q]] = Null,
           NEW l, LinkedList(list[q], next, tail[q], head[q]),
           LinkedList(list[r], next, tail[r], l),
           Publish(q, v)
    PROVE  /\ next' \in [Nodes -> Nodes \cup {Null}]
           /\ list' \in [Queues -> Seq(Nodes)]
           /\ list'[r] = list[r]
           /\ LinkedList(list'[q], next', tail[q], v)
           /\ LinkedList(list'[r], next', tail[r], l)
           /\ Range(list'[q]) = Range(list[q]) \cup {v}
           /\ \A p \in Queues : next[tail[p]] # Null => next'[tail[p]] = next[tail[p]]
<1>1. /\ list \in [Queues -> Seq(Nodes)] /\ next \in [Nodes -> Nodes \cup {Null}]
      /\ \A p \in Queues : list[p] \in Seq(Nodes)
  BY DEF IndInv, TypeOK
<1>2. /\ next' = [next EXCEPT ![v] = Null, ![head[q]] = v]
      /\ list' = [list EXCEPT ![q] = Append(@, v)]
  BY DEF Publish
<1>3. list'[q] = Append(list[q], v) /\ list'[r] = list[r]
  BY <1>1, <1>2
<1>4. head[q] \notin Range(list[r]) /\ head[q] \in Nodes
  <2>1. Range(list["forward"]) \cap Range(list["backward"]) = {}
    BY Facts DEF OnePlace
  <2>2. Range(list[q]) \cap Range(list[r]) = {}
    BY <2>1 DEF Queues
  <2>3. Range(list[q]) \subseteq Nodes
    BY Facts DEF Queues
  <2>. QED  BY <2>2, <2>3
<1>5. /\ Append(list[q], v) \in Seq(Nodes)
      /\ LinkedList(Append(list[q], v), next', tail[q], v)
      /\ Range(Append(list[q], v)) = Range(list[q]) \cup {v}
  BY <1>1, <1>2, ListAppend
<1>6. LinkedList(list[r], next', tail[r], l)
  BY <1>1, <1>2, <1>4, ListFrame
<1>7. next' \in [Nodes -> Nodes \cup {Null}]
  BY <1>1, <1>2
<1>8. list' \in [Queues -> Seq(Nodes)]
  BY <1>1, <1>2, <1>5
<1>9. ASSUME NEW p \in Queues, next[tail[p]] # Null
      PROVE  next'[tail[p]] = next[tail[p]]
  <2>1. tail[p] \in Nodes /\ tail[p] \in Range(list[p])
    BY Facts DEF Queues
  <2>2. p = q \/ p = r
    BY DEF Queues
  <2>3. tail[p] # v /\ tail[p] # head[q]
    BY <1>9, <2>1, <2>2
  <2>. QED  BY <1>1, <1>2, <2>1, <2>3
<1>. QED  BY <1>3, <1>5, <1>6, <1>7, <1>8, <1>9

LEMMA OwnerPushStep ==
    ASSUME IndInv, NEW v \in Nodes, OwnerPush(v)
    PROVE  IndInv'
<1>1. owner = "idle" /\ owner' = "pushing" /\ ownerReg' = v /\ owner # "closed"
  BY DEF OwnerPush
<1>2. /\ v \notin allocated /\ allocated' = allocated \cup {v} /\ Publish("forward", v)
      /\ UNCHANGED <<head, tail, user, userReg, userItem, kept>>
  BY DEF OwnerPush, userVars
<1>3. LastForward = head["forward"] /\ LastForward' = v
  BY <1>1 DEF LastForward
<1>4. LastBackward' = LastBackward /\ InTransit' = InTransit
  BY <1>2 DEF LastBackward, InTransit
<1>5. OnePlace(Range(list["forward"]), Range(list["backward"]), InTransit)
  BY <1>1, Facts
<1>6. v \notin Range(list["forward"]) /\ v \notin Range(list["backward"])
  BY <1>2, <1>5 DEF OnePlace
<1>7. /\ next' \in [Nodes -> Nodes \cup {Null}]
      /\ list' \in [Queues -> Seq(Nodes)]
      /\ list'["backward"] = list["backward"]
      /\ LinkedList(list'["forward"], next', tail["forward"], v)
      /\ LinkedList(list'["backward"], next', tail["backward"], LastBackward)
      /\ Range(list'["forward"]) = Range(list["forward"]) \cup {v}
      /\ \A p \in Queues : next[tail[p]] # Null => next'[tail[p]] = next[tail[p]]
  <2>1. /\ "forward" \in Queues /\ "backward" \in Queues
        /\ head["forward"] \in Range(list["forward"]) /\ next[head["forward"]] = Null
        /\ LinkedList(list["forward"], next, tail["forward"], head["forward"])
        /\ LinkedList(list["backward"], next, tail["backward"], LastBackward)
    BY <1>1, <1>3, Facts DEF Queues
  <2>. QED  BY <1>1, <1>2, <1>6, <2>1, PublishLists
<1>8. TypeOK'
  <2>1. TypeOK
    BY DEF IndInv
  <2>. QED  BY <1>1, <1>2, <1>7, <2>1 DEF TypeOK, OwnerStates
<1>9. Finalizing'
  BY <1>1 DEF Finalizing
<1>10. RegistersValid'
  <2>1. RegistersValid
    BY <1>1, Facts
  <2>. QED  BY <1>1, <1>2, <1>7, <2>1 DEF RegistersValid, NextValue, Queues
<1>11. OnePlace(Range(list["forward"]), Range(list["backward"]), InTransit)'
  BY <1>2, <1>4, <1>5, <1>6, <1>7 DEF OnePlace
<1>12. WellFormed'
  BY <1>2, <1>3, <1>4, <1>7, <1>10, <1>11 DEF WellFormed
<1>. QED  BY <1>8, <1>9, <1>12 DEF IndInv, ListsAreWellFormed

LEMMA UserHandsBackStep ==
    ASSUME IndInv, UserHandsBack
    PROVE  IndInv'
<1>1. user = "handing" /\ user' = "handed"
  BY DEF UserHandsBack
<1>2. owner \notin {"dropping", "draining", "sweeping", "closed"}
  BY <1>1, UserAtWork
<1>3. /\ Publish("backward", userItem)
      /\ UNCHANGED <<head, tail, owner, ownerReg, userReg, userItem, kept, allocated>>
  BY DEF UserHandsBack, ownerVars
<1>4. LastBackward = head["backward"] /\ LastBackward' = userItem
  BY <1>1, <1>3 DEF LastBackward
<1>5. LastForward' = LastForward /\ InTransit = {userItem} /\ InTransit' = {}
  BY <1>1, <1>3 DEF LastForward, InTransit
<1>6. OnePlace(Range(list["forward"]), Range(list["backward"]), InTransit)
  BY <1>2, Facts
<1>7. TypeOK
  BY DEF IndInv
<1>8. /\ userItem \notin Range(list["forward"]) /\ userItem \notin Range(list["backward"])
      /\ userItem \notin kept /\ userItem \in Nodes
  BY <1>5, <1>6, <1>7 DEF OnePlace, TypeOK
<1>9. /\ next' \in [Nodes -> Nodes \cup {Null}]
      /\ list' \in [Queues -> Seq(Nodes)]
      /\ list'["forward"] = list["forward"]
      /\ LinkedList(list'["backward"], next', tail["backward"], userItem)
      /\ LinkedList(list'["forward"], next', tail["forward"], LastForward)
      /\ Range(list'["backward"]) = Range(list["backward"]) \cup {userItem}
      /\ \A p \in Queues : next[tail[p]] # Null => next'[tail[p]] = next[tail[p]]
  <2>1. /\ "forward" \in Queues /\ "backward" \in Queues
        /\ head["backward"] \in Range(list["backward"]) /\ next[head["backward"]] = Null
        /\ LinkedList(list["backward"], next, tail["backward"], head["backward"])
        /\ LinkedList(list["forward"], next, tail["forward"], LastForward)
    BY <1>2, <1>4, Facts DEF Queues
  <2>. QED  BY <1>2, <1>3, <1>8, <2>1, PublishLists
<1>10. TypeOK'
  BY <1>1, <1>3, <1>7, <1>9 DEF TypeOK, UserStates
<1>11. Finalizing'
  BY <1>2, <1>3 DEF Finalizing
<1>12. RegistersValid'
  <2>1. RegistersValid
    BY <1>2, Facts
  <2>. QED  BY <1>1, <1>3, <1>9, <2>1 DEF RegistersValid, NextValue, Queues
<1>13. OnePlace(Range(list["forward"]), Range(list["backward"]), InTransit)'
  BY <1>3, <1>5, <1>6, <1>8, <1>9 DEF OnePlace
<1>14. WellFormed'
  BY <1>3, <1>4, <1>5, <1>9, <1>12, <1>13 DEF WellFormed
<1>. QED  BY <1>10, <1>11, <1>14 DEF IndInv, ListsAreWellFormed

\* What the end of a pop makes of the lists.
LEMMA MoveTailLists ==
    ASSUME IndInv, owner # "closed",
           NEW q \in Queues, NEW r \in Queues, q # r,
           NextValue(q) # Null, MoveTail(q, NextValue(q)),
           NEW l, LinkedList(list[q], next, tail[q], l)
    PROVE  /\ list' \in [Queues -> Seq(Nodes)] /\ tail' \in [Queues -> Nodes]
           /\ list'[q] = Tail(list[q]) /\ list'[r] = list[r]
           /\ tail'[q] = NextValue(q) /\ tail'[r] = tail[r]
           /\ LinkedList(list'[q], next, tail'[q], l)
           /\ Range(list[q]) = Range(list'[q]) \cup {tail[q]}
           /\ tail[q] \notin Range(list'[q]) /\ tail'[q] \in Range(list'[q])
<1>1. /\ list \in [Queues -> Seq(Nodes)] /\ list[q] \in Seq(Nodes)
      /\ tail \in [Queues -> Nodes]
  BY DEF IndInv, TypeOK
<1>2. /\ tail' = [tail EXCEPT ![q] = NextValue(q)]
      /\ list' = [list EXCEPT ![q] = Tail(@)]
  BY DEF MoveTail
<1>3. /\ Tail(list[q]) \in Seq(Nodes)
      /\ LinkedList(Tail(list[q]), next, NextValue(q), l)
      /\ Range(list[q]) = Range(Tail(list[q])) \cup {tail[q]}
      /\ tail[q] \notin Range(Tail(list[q]))
  BY <1>1, ListTail DEF NextValue
<1>4. NextValue(q) \in Nodes /\ NextValue(q) \in Range(Tail(list[q]))
  BY <1>3, ListEnds
<1>5. /\ list'[q] = Tail(list[q]) /\ list'[r] = list[r]
      /\ tail'[q] = NextValue(q) /\ tail'[r] = tail[r]
  BY <1>1, <1>2
<1>6. list' \in [Queues -> Seq(Nodes)] /\ tail' \in [Queues -> Nodes]
  BY <1>1, <1>2, <1>3, <1>4
<1>. QED  BY <1>3, <1>4, <1>5, <1>6

LEMMA OwnerDeletesStep ==
    ASSUME IndInv, OwnerDeletes
    PROVE  IndInv'
<1>1. owner = "deleting" /\ owner' = "reclaiming" /\ owner # "closed"
  BY DEF OwnerDeletes
<1>2. /\ MoveTail("backward", ownerReg)
      /\ allocated' = allocated \ {tail["backward"]}
      /\ UNCHANGED <<next, head, ownerReg, user, userReg, userItem, kept>>
  BY DEF OwnerDeletes, userVars
<1>3. /\ TypeOK /\ RegistersValid
      /\ LinkedList(list["forward"], next, tail["forward"], LastForward)
      /\ LinkedList(list["backward"], next, tail["backward"], LastBackward)
      /\ OnePlace(Range(list["forward"]), Range(list["backward"]), InTransit)
  BY <1>1, Facts DEF IndInv
<1>4. ownerReg = NextValue("backward") /\ ownerReg # Null
  BY <1>1, <1>3 DEF RegistersValid
<1>5. /\ list' \in [Queues -> Seq(Nodes)] /\ tail' \in [Queues -> Nodes]
      /\ list'["forward"] = list["forward"] /\ tail'["forward"] = tail["forward"]
      /\ LinkedList(list'["backward"], next, tail'["backward"], LastBackward)
      /\ Range(list["backward"]) = Range(list'["backward"]) \cup {tail["backward"]}
      /\ tail["backward"] \notin Range(list'["backward"])
  <2>1. "backward" \in Queues /\ "forward" \in Queues /\ "backward" # "forward"
    BY DEF Queues
  <2>. QED  BY <1>1, <1>2, <1>3, <1>4, <2>1, MoveTailLists
<1>6. UNCHANGED <<LastForward, LastBackward, InTransit>>
  BY <1>1, <1>2 DEF LastForward, LastBackward, InTransit
<1>7. TypeOK'
  BY <1>1, <1>2, <1>3, <1>5 DEF TypeOK, OwnerStates
<1>8. Finalizing'
  BY <1>1 DEF Finalizing
<1>9. RegistersValid'
  BY <1>1, <1>2, <1>3, <1>5 DEF RegistersValid, NextValue
<1>10. OnePlace(Range(list["forward"]), Range(list["backward"]), InTransit)'
  BY <1>2, <1>3, <1>5, <1>6 DEF OnePlace
<1>11. WellFormed'
  BY <1>2, <1>3, <1>5, <1>6, <1>9, <1>10 DEF WellFormed
<1>. QED  BY <1>7, <1>8, <1>11 DEF IndInv, ListsAreWellFormed

LEMMA UserPoppedStep ==
    ASSUME IndInv, UserPopped
    PROVE  IndInv'
<1>1. user = "popping" /\ user' = IF tail["forward"] \in kept THEN "idle" ELSE "handing"
  BY DEF UserPopped
<1>2. owner \notin {"dropping", "draining", "sweeping", "closed"}
  BY <1>1, UserAtWork
<1>3. /\ MoveTail("forward", userReg) /\ userItem' = tail["forward"]
      /\ UNCHANGED <<next, head, owner, ownerReg, userReg, kept, allocated>>
  BY DEF UserPopped, ownerVars
<1>4. /\ TypeOK /\ RegistersValid
      /\ LinkedList(list["forward"], next, tail["forward"], LastForward)
      /\ LinkedList(list["backward"], next, tail["backward"], LastBackward)
      /\ OnePlace(Range(list["forward"]), Range(list["backward"]), InTransit)
  BY <1>2, Facts DEF IndInv
<1>5. userReg = NextValue("forward") /\ userReg # Null
  BY <1>1, <1>4 DEF RegistersValid
<1>6. /\ list' \in [Queues -> Seq(Nodes)] /\ tail' \in [Queues -> Nodes]
      /\ list'["backward"] = list["backward"] /\ tail'["backward"] = tail["backward"]
      /\ LinkedList(list'["forward"], next, tail'["forward"], LastForward)
      /\ Range(list["forward"]) = Range(list'["forward"]) \cup {tail["forward"]}
      /\ tail["forward"] \notin Range(list'["forward"])
  <2>1. "backward" \in Queues /\ "forward" \in Queues /\ "backward" # "forward"
    BY DEF Queues
  <2>. QED  BY <1>2, <1>3, <1>4, <1>5, <2>1, MoveTailLists
<1>7. LastForward' = LastForward /\ LastBackward' = LastBackward
  BY <1>1, <1>3 DEF LastForward, LastBackward
<1>8. InTransit = {} /\ InTransit' = {tail["forward"]} \ kept
  BY <1>1, <1>3 DEF InTransit
<1>9. TypeOK'
  <2>1. tail["forward"] \in Nodes
    BY <1>2, Facts
  <2>. QED  BY <1>1, <1>2, <1>3, <1>4, <1>6, <2>1 DEF TypeOK, UserStates
<1>10. Finalizing'
  BY <1>2, <1>3 DEF Finalizing
<1>11. RegistersValid'
  BY <1>1, <1>3, <1>4, <1>6 DEF RegistersValid, NextValue
<1>12. OnePlace(Range(list["forward"]), Range(list["backward"]), InTransit)'
  BY <1>3, <1>4, <1>6, <1>8 DEF OnePlace
<1>13. WellFormed'
  BY <1>3, <1>4, <1>6, <1>7, <1>11, <1>12 DEF WellFormed
<1>. QED  BY <1>9, <1>10, <1>13 DEF IndInv, ListsAreWellFormed

\* The loops of owner_finalize.
LEMMA EmptiedStep ==
    ASSUME IndInv, FinalizeForward \/ FinalizeBackward
    PROVE  IndInv'
<1>1. owner \in {"draining", "sweeping"} /\ owner' \in {"draining", "sweeping"} /\ user = "stopped"
  BY DEF FinalizeForward, FinalizeBackward, Emptied, IndInv, Finalizing
<1>2. UNCHANGED <<next, head, ownerReg, user, userReg, userItem, kept>>
  BY DEF FinalizeForward, FinalizeBackward, Emptied, userVars
<1>3. /\ TypeOK /\ RegistersValid /\ Finalizing /\ WellFormed
      /\ LinkedList(list["forward"], next, tail["forward"], LastForward)
      /\ LinkedList(list["backward"], next, tail["backward"], LastBackward)
      /\ OnePlace(Range(list["forward"]), Range(list["backward"]), InTransit)
  BY <1>1, Facts DEF IndInv, ListsAreWellFormed
<1>4. UNCHANGED <<LastForward, LastBackward, InTransit>>
  BY <1>1, <1>2 DEF LastForward, LastBackward, InTransit
<1>5. RegistersValid'
  BY <1>1, <1>2 DEF RegistersValid
<1>6. CASE FinalizeForward /\ NextValue("forward") = Null
  <2>1. UNCHANGED <<tail, list, allocated>> /\ owner' = "sweeping" /\ owner = "draining"
    BY <1>6 DEF FinalizeForward, Emptied
  <2>2. TypeOK'
    BY <1>2, <1>3, <2>1 DEF TypeOK, OwnerStates
  <2>3. Finalizing'
    BY <1>1, <1>2, <1>3, <1>6, <2>1 DEF Finalizing, NextValue
  <2>4. WellFormed'
    BY <1>2, <1>3, <1>4, <1>5, <2>1 DEF WellFormed, OnePlace
  <2>. QED  BY <2>2, <2>3, <2>4 DEF IndInv, ListsAreWellFormed
<1>7. ASSUME NEW q \in Queues, NEW r \in Queues, q # r,
             NextValue(q) # Null, MoveTail(q, NextValue(q)),
             allocated' = allocated \ {tail[q]}, owner' = owner,
             owner = "sweeping" => q = "backward"
      PROVE  IndInv'
  <2>1. CASE q = "forward" /\ r = "backward"
    <3>1. /\ list' \in [Queues -> Seq(Nodes)] /\ tail' \in [Queues -> Nodes]
          /\ list'["backward"] = list["backward"] /\ tail'["backward"] = tail["backward"]
          /\ LinkedList(list'["forward"], next, tail'["forward"], LastForward)
          /\ Range(list["forward"]) = Range(list'["forward"]) \cup {tail["forward"]}
          /\ tail["forward"] \notin Range(list'["forward"])
      BY <1>1, <1>3, <1>7, <2>1, MoveTailLists
    <3>2. kept = {} /\ InTransit = {}
      BY <1>1, <1>3 DEF Finalizing, InTransit
    <3>3. TypeOK'
      BY <1>1, <1>2, <1>3, <1>7, <3>1 DEF TypeOK
    <3>4. Finalizing'
      BY <1>1, <1>2, <1>3, <1>7, <2>1 DEF Finalizing
    <3>5. OnePlace(Range(list["forward"]), Range(list["backward"]), InTransit)'
      BY <1>2, <1>3, <1>4, <1>7, <2>1, <3>1, <3>2 DEF OnePlace
    <3>6. WellFormed'
      BY <1>2, <1>3, <1>4, <1>5, <3>1, <3>5 DEF WellFormed
    <3>. QED  BY <3>3, <3>4, <3>6 DEF IndInv, ListsAreWellFormed
  <2>2. CASE q = "backward" /\ r = "forward"
    <3>1. /\ list' \in [Queues -> Seq(Nodes)] /\ tail' \in [Queues -> Nodes]
          /\ list'["forward"] = list["forward"] /\ tail'["forward"] = tail["forward"]
          /\ LinkedList(list'["backward"], next, tail'["backward"], LastBackward)
          /\ Range(list["backward"]) = Range(list'["backward"]) \cup {tail["backward"]}
          /\ tail["backward"] \notin Range(list'["backward"])
      BY <1>1, <1>3, <1>7, <2>2, MoveTailLists
    <3>2. kept = {} /\ InTransit = {}
      BY <1>1, <1>3 DEF Finalizing, InTransit
    <3>3. TypeOK'
      BY <1>1, <1>2, <1>3, <1>7, <3>1 DEF TypeOK
    <3>4. Finalizing'
      BY <1>1, <1>2, <1>3, <1>7, <3>1 DEF Finalizing, NextValue
    <3>5. OnePlace(Range(list["forward"]), Range(list["backward"]), InTransit)'
      BY <1>2, <1>3, <1>4, <1>7, <2>2, <3>1, <3>2 DEF OnePlace
    <3>6. WellFormed'
      BY <1>2, <1>3, <1>4, <1>5, <3>1, <3>5 DEF WellFormed
    <3>. QED  BY <3>3, <3>4, <3>6 DEF IndInv, ListsAreWellFormed
  <2>. QED  BY <1>7, <2>1, <2>2 DEF Queues
<1>8. CASE FinalizeForward /\ NextValue("forward") # Null
  <2>1. /\ MoveTail("forward", NextValue("forward")) /\ owner' = owner /\ owner = "draining"
        /\ allocated' = allocated \ {tail["forward"]}
    BY <1>8 DEF FinalizeForward, Emptied
  <2>2. "forward" \in Queues /\ "backward" \in Queues
    BY DEF Queues
  <2>. QED  BY <1>7, <1>8, <2>1, <2>2
<1>9. CASE FinalizeBackward
  <2>1. /\ MoveTail("backward", NextValue("backward")) /\ owner' = owner
        /\ allocated' = allocated \ {tail["backward"]} /\ NextValue("backward") # Null
    BY <1>9 DEF FinalizeBackward, Emptied
  <2>2. "forward" \in Queues /\ "backward" \in Queues
    BY DEF Queues
  <2>. QED  BY <1>7, <2>1, <2>2
<1>. QED  BY <1>6, <1>8, <1>9

\* The end of owner_finalize: only the two null nodes are left.
LEMMA NullNodesStep ==
    ASSUME IndInv, FinalizeNullNodes
    PROVE  IndInv'
<1>1. /\ owner = "sweeping" /\ owner' = "closed" /\ user = "stopped" /\ kept = {}
      /\ NextValue("backward") = Null /\ NextValue("forward") = Null
  BY DEF FinalizeNullNodes, IndInv, Finalizing
<1>2. /\ allocated' = allocated \ {tail["forward"], tail["backward"]}
      /\ head' = [q \in Queues |-> Null] /\ tail' = [q \in Queues |-> Null]
      /\ list' = [q \in Queues |-> <<>>]
      /\ UNCHANGED <<next, ownerReg, user, userReg, userItem, kept>>
  BY DEF FinalizeNullNodes, userVars
<1>3. Range(list["forward"]) = {tail["forward"]} /\ Range(list["backward"]) = {tail["backward"]}
  BY <1>1, Facts, ListOfOne DEF NextValue
<1>4. allocated' = {}
  <2>1. OnePlace(Range(list["forward"]), Range(list["backward"]), InTransit) /\ InTransit = {}
    BY <1>1, Facts DEF InTransit
  <2>. QED  BY <1>1, <1>2, <1>3, <2>1 DEF OnePlace
<1>5. TypeOK'
  <2>1. <<>> \in Seq(Nodes)
    OBVIOUS
  <2>2. list' \in [Queues -> Seq(Nodes)]
    BY <1>2, <2>1
  <2>3. TypeOK
    BY DEF IndInv
  <2>. QED  BY <1>1, <1>2, <1>4, <2>2, <2>3 DEF TypeOK, OwnerStates
<1>6. Finalizing'
  BY <1>1, <1>2, <1>4 DEF Finalizing
<1>. QED  BY <1>1, <1>5, <1>6 DEF IndInv, ListsAreWellFormed

(***************************************************************************)
(* Theorems.                                                               *)
(***************************************************************************)

LEMMA Stutter ==
    ASSUME IndInv, UNCHANGED vars
    PROVE  IndInv'
BY DEF IndInv, TypeOK, Finalizing, ListsAreWellFormed, WellFormed, LinkedList, OnePlace,
   RegistersValid, LastForward, LastBackward, InTransit, NextValue,
   vars, queueVars, ownerVars, userVars

\* The lists are well-formed and disjoint at each step of either thread, and a
\* finalization frees all values, whatever the number of values.
THEOREM Invariance == Spec => []IndInv
<1>1. Init => IndInv
  BY InitImpliesIndInv
<1>2. IndInv /\ [Next]_vars => IndInv'
  BY LocalSteps, HeadSteps, KeptSteps, OwnerPushStep, UserHandsBackStep, OwnerDeletesStep,
     UserPoppedStep, EmptiedStep, NullNodesStep, Stutter DEF Next, OwnerStep, UserStep
<1>. QED  BY <1>1, <1>2, PTL DEF Spec

THEOREM WellFormedAlways == Spec => []ListsAreWellFormed
<1>1. IndInv => ListsAreWellFormed
  BY DEF IndInv
<1>. QED  BY <1>1, Invariance, PTL

\* owner_finalize leaves no value in memory.
THEOREM NothingLeaksAlways == Spec => []NothingLeaks
<1>1. IndInv => NothingLeaks
  BY DEF IndInv, Finalizing, NothingLeaks
<1>. QED  BY <1>1, Invariance, PTL

(***************************************************************************)
(* The channel implements OwnedFifo.                                       *)
(***************************************************************************)

\* What the user may use, and what is left of the forward queue.
LEMMA Mapping ==
    ASSUME IndInv, owner # "closed"
    PROVE  /\ Undelivered = Tail(list["forward"])
           /\ Usable = kept \cup {tail["forward"]}
           /\ Garbage = allocated \ (Range(Undelivered) \cup Usable)
           /\ Range(Undelivered) \cup Usable \cup Garbage = allocated
           /\ Range(list["forward"]) = Range(Undelivered) \cup {tail["forward"]}
           /\ tail["forward"] \notin Range(Undelivered)
           /\ Undelivered \in Seq(Nodes)
<1>1. /\ list["forward"] \in Seq(Nodes) /\ list["forward"] # <<>>
      /\ LinkedList(list["forward"], next, tail["forward"], LastForward)
      /\ OnePlace(Range(list["forward"]), Range(list["backward"]), InTransit)
  BY Facts DEF LinkedList
<1>2. /\ Undelivered = Tail(list["forward"])
      /\ Usable = kept \cup {tail["forward"]}
      /\ Garbage = allocated \ (Range(Undelivered) \cup Usable)
  BY <1>1 DEF Undelivered, Usable, Garbage
<1>3. /\ Range(list["forward"]) = Range(Undelivered) \cup {tail["forward"]}
      /\ tail["forward"] \notin Range(Undelivered)
      /\ Undelivered \in Seq(Nodes)
  BY <1>1, <1>2, ListRest
<1>4. Range(Undelivered) \cup Usable \cup Garbage = allocated
  BY <1>1, <1>2, <1>3 DEF OnePlace
<1>. QED  BY <1>2, <1>3, <1>4

LEMMA InitRefines == Init => Promise!Init
<1>. SUFFICES ASSUME Init PROVE Promise!Init
  OBVIOUS
<1>1. IndInv /\ owner # "closed" /\ user = "idle" /\ next[tail["forward"]] = Null
  <2>1. IndInv
    BY InitImpliesIndInv
  <2>2. owner = "idle" /\ user = "idle" /\ next = [v \in Nodes |-> Null]
    BY DEF Init
  <2>3. tail["forward"] \in Nodes
    BY <2>1, <2>2, Facts
  <2>. QED  BY <2>1, <2>2, <2>3
<1>2. Undelivered = <<>>
  <2>1. Tail(list["forward"]) = <<>>
    BY <1>1, Facts, ListOfOne
  <2>. QED  BY <1>1, <2>1, Mapping
<1>3. allocated \in SUBSET Nodes
  BY <1>1 DEF IndInv, TypeOK
<1>4. Usable \subseteq Nodes /\ Garbage \subseteq Nodes \ Usable
  BY <1>1, <1>3, Mapping
<1>. QED  BY <1>1, <1>2, <1>4 DEF Promise!Init

\* What the abstract queue has in memory is what the channel has allocated.
LEMMA ExistingIsAllocated == IndInv => Promise!Existing = allocated
<1>1. CASE owner # "closed"
  BY <1>1, Mapping DEF Promise!Existing, Promise!Range, Range
<1>2. CASE owner = "closed"
  <2>1. ASSUME IndInv PROVE allocated = {} /\ Undelivered = <<>> /\ Usable = {}
    BY <1>2, <2>1 DEF IndInv, Finalizing, Undelivered, Usable, Queues
  <2>2. Range(<<>>) = {}
    BY DEF Range
  <2>. QED  BY <2>1, <2>2 DEF Promise!Existing, Promise!Range, Range, Garbage
<1>. QED  BY <1>1, <1>2

LEMMA ExistingIsAllocatedNext == IndInv' => (Promise!Existing = allocated)'
BY ExistingIsAllocated, PTL

LEMMA PushRefines ==
    ASSUME IndInv, NEW v \in Nodes, OwnerPush(v)
    PROVE  Promise!Push(v)
<1>. DEFINE f == list["forward"]
<1>1. /\ owner # "closed" /\ owner' # "closed" /\ v \notin allocated
      /\ allocated' = allocated \cup {v}
      /\ list' = [list EXCEPT !["forward"] = Append(@, v)]
      /\ UNCHANGED <<tail, user, kept>>
  BY DEF OwnerPush, Publish, userVars
<1>2. f \in Seq(Nodes) /\ f # <<>> /\ list'["forward"] = Append(f, v)
  BY <1>1, Facts DEF LinkedList, Queues
<1>3. Append(f, v) # <<>> /\ Tail(Append(f, v)) = Append(Tail(f), v)
  BY <1>2, HeadTailAppend
<1>4. Undelivered = Tail(f) /\ Undelivered' = Append(Undelivered, v)
  BY <1>1, <1>2, <1>3, Mapping DEF Undelivered
<1>5. UNCHANGED Usable
  BY <1>1 DEF Usable
<1>6. Range(Undelivered') = Range(Undelivered) \cup {v}
  <2>1. Undelivered \in Seq(Nodes)
    BY <1>1, Mapping
  <2>. QED  BY <1>4, <2>1, AppendRange
<1>7. Garbage' = Garbage
  BY <1>1, <1>5, <1>6 DEF Garbage
<1>8. v \notin Promise!Existing
  BY <1>1, ExistingIsAllocated
<1>. QED  BY <1>1, <1>4, <1>5, <1>7, <1>8 DEF Promise!Push

LEMMA FreeRefines ==
    ASSUME IndInv, OwnerDeletes
    PROVE  \E v \in Garbage : Promise!Free(v)
<1>. DEFINE v == tail["backward"]
<1>1. /\ owner # "closed" /\ owner = "deleting" /\ owner' # "closed"
      /\ allocated' = allocated \ {v} /\ UNCHANGED <<user, kept>>
      /\ MoveTail("backward", ownerReg)
  BY DEF OwnerDeletes, userVars
<1>2. list'["forward"] = list["forward"] /\ tail'["forward"] = tail["forward"]
  BY <1>1, Facts DEF MoveTail, Queues
<1>3. UNCHANGED <<Undelivered, Usable>>
  BY <1>1, <1>2 DEF Undelivered, Usable
<1>4. Garbage' = Garbage \ {v}
  BY <1>1, <1>3 DEF Garbage
<1>5. v \in Garbage
  <2>1. /\ v \in Range(list["backward"]) /\ tail["forward"] \in Range(list["forward"])
        /\ OnePlace(Range(list["forward"]), Range(list["backward"]), InTransit)
    BY <1>1, Facts
  <2>2. v \in allocated /\ v \notin kept /\ v \notin Range(list["forward"])
    BY <2>1 DEF OnePlace
  <2>. QED  BY <1>1, <2>1, <2>2, Mapping
<1>. QED  BY <1>1, <1>3, <1>4, <1>5 DEF Promise!Free

LEMMA PopRefines ==
    ASSUME IndInv, UserPopped
    PROVE  \E back \in SUBSET Usable : Promise!Pop(back)
<1>. DEFINE f == list["forward"]
            a == tail["forward"]
            back == {a} \ kept
<1>1. /\ user = "popping" /\ user' # "stopped" /\ MoveTail("forward", userReg)
      /\ UNCHANGED <<next, owner, kept, allocated>>
  BY DEF UserPopped, ownerVars
<1>2. owner # "closed"
  BY <1>1, UserAtWork
<1>3. userReg = next[a] /\ next[a] # Null
  BY <1>1, <1>2, Facts DEF RegistersValid, NextValue
<1>4. /\ f \in Seq(Nodes) /\ LinkedList(f, next, a, LastForward)
      /\ DOMAIN list = Queues /\ DOMAIN tail = Queues
      /\ OnePlace(Range(f), Range(list["backward"]), InTransit)
  BY <1>2, Facts
<1>5. list'["forward"] = Tail(f) /\ tail'["forward"] = userReg
  BY <1>1, <1>4 DEF MoveTail, Queues
<1>6. /\ Tail(f) \in Seq(Nodes) /\ LinkedList(Tail(f), next, userReg, LastForward)
      /\ Range(f) = Range(Tail(f)) \cup {a} /\ a \notin Range(Tail(f))
  BY <1>3, <1>4, ListTail
<1>7. /\ Range(Tail(f)) = Range(Tail(Tail(f))) \cup {userReg}
      /\ Tail(f) # <<>> /\ Head(Tail(f)) = userReg
  <2>. DEFINE s == Tail(f)
  <2>1. s \in Seq(Nodes) /\ LinkedList(s, next, userReg, LastForward)
    BY <1>6
  <2>. HIDE DEF s
  <2>2. Range(s) = Range(Tail(s)) \cup {userReg}
    BY <2>1, ListRest
  <2>3. s # <<>> /\ s[1] = userReg
    BY <2>1 DEF LinkedList
  <2>4. Head(s) = s[1]
    BY <2>1, <2>3
  <2>. QED  BY <2>2, <2>3, <2>4 DEF s
<1>8. Undelivered = Tail(f) /\ Undelivered' = Tail(Tail(f))
  BY <1>2, <1>5, <1>7, Mapping DEF Undelivered
<1>9. Usable = kept \cup {a} /\ Usable' = kept \cup {userReg}
  BY <1>1, <1>2, <1>5 DEF Usable
<1>10. Garbage' = Garbage \cup back
  <2>1. a \in allocated
    BY <1>4, <1>6 DEF OnePlace
  <2>2. Garbage' = allocated \ (Range(Tail(f)) \cup kept)
    BY <1>1, <1>7, <1>8, <1>9 DEF Garbage
  <2>3. Garbage = allocated \ (Range(Tail(f)) \cup kept \cup {a})
    BY <1>8, <1>9 DEF Garbage
  <2>. QED  BY <1>6, <2>1, <2>2, <2>3
<1>11. Usable' = (Usable \ back) \cup {Head(Undelivered)}
  BY <1>7, <1>8, <1>9
<1>12. Promise!Pop(back)
  <2>1. Undelivered # <<>> /\ Undelivered' = Tail(Undelivered)
    BY <1>7, <1>8
  <2>2. user # "stopped" /\ UNCHANGED (user # "stopped")
    BY <1>1
  <2>. HIDE DEF back
  <2>. QED  BY <1>10, <1>11, <2>1, <2>2 DEF Promise!Pop
<1>. QED  BY <1>9, <1>12

LEMMA GiveBackRefines ==
    ASSUME IndInv, NEW v \in kept, UserReleases(v)
    PROVE  (Promise!GiveBack(v) /\ v \in Usable) \/ UNCHANGED Promise!vars
<1>1. /\ user = "idle" /\ user' # "stopped" /\ kept' = kept \ {v}
      /\ UNCHANGED <<owner, list, tail, allocated>>
  BY DEF UserReleases, queueVars, ownerVars
<1>2. owner # "closed"
  BY <1>1, UserAtWork
<1>3. UNCHANGED Undelivered
  BY <1>1 DEF Undelivered
<1>4. Usable = kept \cup {tail["forward"]} /\ Usable' = (kept \ {v}) \cup {tail["forward"]}
  BY <1>1, <1>2 DEF Usable
<1>5. CASE v = tail["forward"]
  BY <1>1, <1>3, <1>4, <1>5 DEF Garbage, Promise!vars
<1>6. CASE v # tail["forward"]
  <2>1. v \in allocated /\ v \notin Range(Undelivered)
    <3>1. /\ OnePlace(Range(list["forward"]), Range(list["backward"]), InTransit)
          /\ Range(list["forward"]) = Range(Undelivered) \cup {tail["forward"]}
      BY <1>2, Facts, Mapping
    <3>. QED  BY <1>6, <3>1 DEF OnePlace
  <2>2. Usable' = Usable \ {v} /\ Garbage' = Garbage \cup {v}
    BY <1>1, <1>3, <1>4, <1>6, <2>1 DEF Garbage
  <2>. QED  BY <1>1, <1>3, <1>4, <2>2 DEF Promise!GiveBack
<1>. QED  BY <1>5, <1>6

LEMMA DiscardRefines ==
    ASSUME IndInv, IndInv',
           FinalizeKept \/ FinalizeForward \/ FinalizeBackward \/ FinalizeNullNodes
    PROVE  Promise!Discard
<1>1. user = "stopped" /\ user' = "stopped"
  BY DEF IndInv, Finalizing, FinalizeKept, FinalizeForward, FinalizeBackward,
     FinalizeNullNodes, Emptied, userVars
<1>2. allocated' \subseteq allocated
  BY DEF FinalizeKept, FinalizeForward, FinalizeBackward, FinalizeNullNodes, Emptied
<1>3. Promise!Existing = allocated /\ (Promise!Existing)' = allocated'
  BY ExistingIsAllocated, ExistingIsAllocatedNext
<1>. QED  BY <1>1, <1>2, <1>3 DEF Promise!Discard

\* The user puts away what it may use already.
LEMMA KeepsUnseen ==
    ASSUME IndInv, UserKeeps
    PROVE  UNCHANGED Promise!vars
<1>1. /\ user = "idle" /\ user' = user /\ kept' = kept \cup {tail["forward"]}
      /\ UNCHANGED <<owner, list, tail, allocated>>
  BY DEF UserKeeps, queueVars, ownerVars
<1>2. UNCHANGED <<Undelivered, Usable>>
  BY <1>1 DEF Undelivered, Usable
<1>. QED  BY <1>1, <1>2 DEF Garbage, Promise!vars

\* The other half of a push or a pop, and what changes a local variable only.
LEMMA OtherStepsUnseen ==
    ASSUME IndInv,
           \/ OwnerReclaims \/ OwnerPops \/ UserPops \/ Finalize
           \/ OwnerPushed \/ UserHandedBack \/ UserHandsBack \/ UNCHANGED vars
    PROVE  UNCHANGED Promise!vars
<1>1. UNCHANGED <<tail["forward"], list["forward"], allocated, kept>>
  <2>1. CASE UserHandsBack
    <3>1. owner # "closed" /\ Publish("backward", userItem) /\ UNCHANGED <<tail, allocated, kept>>
      BY <2>1, UserAtWork DEF UserHandsBack
    <3>. QED  BY <3>1, Facts DEF Publish, Queues
  <2>2. CASE ~UserHandsBack
    BY <2>2 DEF OwnerReclaims, OwnerPops, UserPops, Finalize, OwnerPushed, UserHandedBack,
       vars, queueVars, ownerVars, userVars
  <2>. QED  BY <2>1, <2>2
<1>2. UNCHANGED (owner = "closed") /\ UNCHANGED (user # "stopped")
  BY DEF OwnerReclaims, OwnerPops, UserPops, Finalize, OwnerPushed, UserHandedBack, UserHandsBack,
     vars, ownerVars, userVars
<1>3. UNCHANGED <<Undelivered, Usable>>
  BY <1>1, <1>2 DEF Undelivered, Usable
<1>. QED  BY <1>1, <1>2, <1>3 DEF Garbage, Promise!vars

LEMMA StopRefines ==
    ASSUME IndInv, UserStops
    PROVE  Promise!Close
<1>1. /\ user = "idle" /\ user' = "stopped"
      /\ UNCHANGED <<owner, list, tail, allocated, kept>>
  BY DEF UserStops, queueVars, ownerVars
<1>2. UNCHANGED <<Undelivered, Usable>>
  BY <1>1 DEF Undelivered, Usable
<1>. QED  BY <1>1, <1>2 DEF Garbage, Promise!Close

\* The channel is a first-in first-out queue whose owner frees no value that the
\* user may still use, whatever the number of values.
THEOREM ImplementsOwnedFifo == Spec => IsOwnedFifo
<1>1. Init => Promise!Init
  BY InitRefines
<1>2. ASSUME IndInv, IndInv', [Next]_vars
      PROVE  [Promise!Next]_(Promise!vars)
  <2>1. ASSUME NEW v \in Nodes, OwnerPush(v) PROVE Promise!Next
    BY <1>2, <2>1, PushRefines DEF Promise!Next
  <2>2. CASE OwnerDeletes
    BY <1>2, <2>2, FreeRefines DEF Promise!Next
  <2>3. CASE UserPopped
    BY <1>2, <2>3, PopRefines DEF Promise!Next
  <2>4. ASSUME NEW v \in kept, UserReleases(v) PROVE [Promise!Next]_(Promise!vars)
    BY <1>2, <2>4, GiveBackRefines DEF Promise!Next
  <2>5. CASE FinalizeKept \/ FinalizeForward \/ FinalizeBackward \/ FinalizeNullNodes
    BY <1>2, <2>5, DiscardRefines DEF Promise!Next
  <2>6. CASE UserStops
    BY <1>2, <2>6, StopRefines DEF Promise!Next
  <2>7. CASE UserKeeps
    BY <1>2, <2>7, KeepsUnseen
  <2>8. CASE \/ OwnerReclaims \/ OwnerPops \/ UserPops \/ Finalize
             \/ OwnerPushed \/ UserHandedBack \/ UserHandsBack \/ UNCHANGED vars
    BY <1>2, <2>8, OtherStepsUnseen
  <2>. QED
    BY <1>2, <2>1, <2>2, <2>3, <2>4, <2>5, <2>6, <2>7, <2>8 DEF Next, OwnerStep, UserStep
<1>3. Spec => []IndInv
  BY Invariance
<1>. QED  BY <1>1, <1>2, <1>3, PTL DEF Spec, IsOwnedFifo, Promise!Spec

(***************************************************************************)
(* What owner_delete_processed_items leaves.                               *)
(***************************************************************************)

\* When the loop ends, what was given back is the null node of the backward queue
\* and the value the user has in its hands.
LEMMA ReclaimLeaves ==
    ASSUME IndInv, [Next]_vars, ReclaimReturns
    PROVE  Garbage \subseteq {tail["backward"]} \cup InTransit
<1>1. owner \in {"reclaiming", "deleting"} /\ owner' = "idle"
  BY DEF ReclaimReturns
<1>2. CASE OwnerStep
  <2>1. OwnerPops
    BY <1>1, <1>2 DEF OwnerStep, OwnerPush, OwnerPushed, OwnerReclaims, OwnerDeletes, Finalize,
       FinalizeKept, FinalizeForward, FinalizeBackward, FinalizeNullNodes, Emptied
  <2>2. next[tail["backward"]] = Null
    BY <1>1, <2>1 DEF OwnerPops, NextValue
  <2>3. Range(list["backward"]) = {tail["backward"]}
    BY <1>1, <2>2, Facts, ListOfOne
  <2>4. /\ Garbage = allocated \ (Range(Undelivered) \cup Usable)
        /\ Usable = kept \cup {tail["forward"]}
        /\ Range(list["forward"]) = Range(Undelivered) \cup {tail["forward"]}
    BY <1>1, Mapping
  <2>5. allocated = Range(list["forward"]) \cup Range(list["backward"]) \cup kept \cup InTransit
    BY <1>1, Facts DEF OnePlace
  <2>. QED
    BY <2>3, <2>4, <2>5
<1>3. ~UserStep /\ vars' # vars
  BY <1>1 DEF UserStep, UserPops, UserPopped, UserHandsBack, UserHandedBack, UserKeeps, UserStops,
     UserReleases, ownerVars, vars
<1>. QED
  BY <1>2, <1>3 DEF Next

\* owner_delete_processed_items frees all that has been given back, but for the
\* null node of the backward queue and one value that is on its way.
THEOREM ReclaimCompletes == Spec => ReclaimIsComplete
<1>1. ASSUME IndInv, [Next]_vars, ReclaimReturns PROVE Cardinality(Garbage) <= 2
  <2>. DEFINE a == tail["backward"]
              S == {a} \cup {userItem}
              G == Garbage
  <2>1. G \subseteq S
    BY <1>1, ReclaimLeaves DEF InTransit
  <2>. HIDE DEF a, G
  <2>2. IsFiniteSet({a}) /\ Cardinality({a}) = 1
    BY FS_Singleton
  <2>3. /\ IsFiniteSet(S)
        /\ Cardinality(S) = IF userItem \in {a} THEN Cardinality({a}) ELSE Cardinality({a}) + 1
    BY <2>2, FS_AddElement
  <2>4. Cardinality(S) <= 2
    BY <2>2, <2>3
  <2>. HIDE DEF S
  <2>5. IsFiniteSet(G) /\ Cardinality(G) <= Cardinality(S)
    BY <2>1, <2>3, FS_Subset
  <2>6. Cardinality(G) \in Nat /\ Cardinality(S) \in Nat
    BY <2>3, <2>5, FS_CardinalityType
  <2>7. Cardinality(G) <= 2
    BY <2>4, <2>5, <2>6
  <2>. QED
    BY <2>7 DEF G
<1>2. IndInv /\ [Next]_vars => [ReclaimReturns => Cardinality(Garbage) <= 2]_vars
  BY <1>1
<1>. QED
  BY <1>2, Invariance, PTL DEF Spec, ReclaimIsComplete

=============================================================================

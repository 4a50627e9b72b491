------------------------- MODULE FileTransferProofs -------------------------
(* The memory file of a proxy has one user and no relay reads beyond its    *)
(* end, whatever the clients, the packets and the timeouts; and what an     *)
(* administrator saves is the whole of a file.                              *)
EXTENDS FileTransfer, SequenceTheorems, FiniteSetTheorems, TLAPS

(***************************************************************************)
(* Packets.                                                                *)
(***************************************************************************)

\* SendTo appends one packet or none.
LEMMA SentType ==
    ASSUME NEW T, NEW q \in Seq(T), NEW c, NEW p \in T
    PROVE  Sent(q, c, p) \in Seq(T)
BY AppendProperties DEF Sent

LEMMA RestType ==
    ASSUME NEW T, NEW q \in Seq(T), q # <<>>
    PROVE  Tail(q) \in Seq(T) /\ Head(q) \in T
BY HeadTailProperties

LEMMA ConcatType ==
    ASSUME NEW T, NEW m \in Seq(T), NEW n \in Seq(T)
    PROVE  m \o n \in Seq(T) /\ Len(m) \in Nat /\ Len(m) <= Len(m \o n)
BY ConcatProperties, LenProperties

LEMMA WrittenType ==
    ASSUME NEW mem \in Contents, NEW total \in Nat, NEW units \in Contents
    PROVE  LET r == Written(mem, total, units)
           IN  /\ r.mem \in Contents /\ r.total \in Nat
               /\ r.done \in BOOLEAN /\ Len(mem) <= Len(r.mem)
BY ConcatType DEF Written, Contents

\* A chunk leaves in the memory file what was there.
LEMMA ReceiveType ==
    ASSUME NEW mem \in Contents, NEW total \in Nat, NEW chunk \in Chunks,
           NEW r \in Receive(mem, total, chunk)
    PROVE  /\ r.mem \in Contents /\ r.total \in Nat
           /\ r.done \in BOOLEAN /\ Len(mem) <= Len(r.mem)
<1>1. /\ chunk.units \in Contents /\ chunk.size \in Nat \cup {None}
      /\ <<>> \in Contents /\ <<Torn>> \in Contents
  BY DEF Chunks, Contents, Units
<1>2. CASE mem # <<>>
  <2>1. PICK head \in {<<>>, <<Torn>>} :
          r = Written(mem, total, head \o chunk.units)
    BY <1>2 DEF Receive
  <2>2. head \o chunk.units \in Contents
    BY <1>1, ConcatType DEF Contents
  <2>. QED  BY <2>1, <2>2, WrittenType
<1>3. CASE mem = <<>> /\ chunk.size # None
  <2>1. r = Written(mem, chunk.size, chunk.units)
    BY <1>3 DEF Receive
  <2>. QED  BY <1>1, <1>3, <2>1, WrittenType
<1>4. CASE mem = <<>> /\ chunk.size = None
  <2>1. CASE r = [mem |-> <<>>, total |-> 0, done |-> FALSE]
    BY <1>1, <1>4, <2>1
  <2>2. CASE \E n \in AnySize : /\ chunk.units # <<>>
                                /\ r = Written(<<>>, n, <<Torn>> \o Tail(chunk.units))
    <3>1. PICK n \in AnySize : /\ chunk.units # <<>>
                               /\ r = Written(mem, n, <<Torn>> \o Tail(chunk.units))
      BY <1>4, <2>2
    <3>2. n \in Nat
      BY ConstantsAssumption
    <3>3. <<Torn>> \o Tail(chunk.units) \in Contents
      BY <1>1, <3>1, RestType, ConcatType DEF Contents
    <3>. QED  BY <3>1, <3>2, <3>3, WrittenType
  <2>. QED  BY <1>4, <2>1, <2>2 DEF Receive
<1>. QED  BY <1>2, <1>3, <1>4

\* What is left to relay is not negative, and a turn does not exceed it.
LEMMA ReadyType ==
    ASSUME TypeOK, RelayWithinFile,
           NEW t \in Pairs, transfers[t] # None, NEW n \in Nat
    PROVE  /\ Source(t) \in Contents /\ Len(Source(t)) \in Nat
           /\ transfers[t].sent \in Nat /\ transfers[t].max \in Nat
           /\ Ready(t, n) \in Nat
           /\ transfers[t].sent + Ready(t, n) <= Len(Source(t))
<1>1. transfers[t] \in [proxy : ProxyIds, sent : Nat, max : Nat]
  BY DEF TypeOK
<1>2. /\ Source(t) \in Contents /\ Len(Source(t)) \in Nat
  <2>1. transfers[t].proxy \in ProxyIds
    BY <1>1
  <2>2. proxy[transfers[t].proxy].mem \in Contents
    BY <2>1 DEF TypeOK
  <2>. QED  BY <2>2, LenProperties DEF Source, Contents
<1>3. transfers[t].sent <= Len(Source(t))
  BY DEF RelayWithinFile
<1>. QED  BY <1>1, <1>2, <1>3 DEF Ready, SmallerOf

LEMMA RelayChunkType ==
    ASSUME TypeOK, RelayWithinFile,
           NEW t \in Pairs, transfers[t] # None, NEW n \in Nat
    PROVE  RelayChunk(t, n) \in Chunks
<1>1. /\ Source(t) \in Contents /\ Len(Source(t)) \in Nat
      /\ transfers[t].sent \in Nat /\ transfers[t].max \in Nat
      /\ Ready(t, n) \in Nat
      /\ transfers[t].sent + Ready(t, n) <= Len(Source(t))
  BY ReadyType
<1>. DEFINE a == transfers[t].sent + 1
            b == transfers[t].sent + Ready(t, n)
            units == SubSeq(Source(t), a, b)
<1>2. units \in Contents
  <2>1. a \in Nat /\ b \in Nat /\ a >= 1 /\ b <= Len(Source(t))
    BY <1>1
  <2>. HIDE DEF a, b
  <2>2. \A i \in a..b : i \in 1..Len(Source(t))
    BY <1>1, <2>1
  <2>3. \A i \in a..b : Source(t)[i] \in Units
    BY <1>1, <2>2, ElementOfSeq DEF Contents
  <2>. QED  BY <1>1, <2>1, <2>3, SubSeqProperties DEF Contents
<1>. HIDE DEF units
<1>3. (IF transfers[t].sent = 0 THEN transfers[t].max ELSE None) \in Nat \cup {None}
  BY <1>1
<1>4. RelayChunk(t, n) =
        Chunk(IF transfers[t].sent = 0 THEN transfers[t].max ELSE None, units)
  BY DEF RelayChunk, units
<1>. QED  BY <1>2, <1>3, <1>4 DEF Chunk, Chunks

(***************************************************************************)
(* The sessions.                                                           *)
(***************************************************************************)

\* Sessions that end, and go on with the proxy they had, disturb nobody.
LEMMA FewerSessions ==
    ASSUME OneUser, RelayWithinFile, UNCHANGED proxy,
           \A s \in Suspects : receivers'[s] # None =>
               receivers[s] # None /\ receivers'[s].proxy = receivers[s].proxy,
           \A t \in Pairs : transfers'[t] # None => transfers'[t] = transfers[t]
    PROVE  OneUser' /\ RelayWithinFile'
<1>1. OneUser'
  BY DEF OneUser
<1>2. RelayWithinFile'
  BY DEF RelayWithinFile, Source
<1>. QED  BY <1>1, <1>2

LEMMA ServerUnchanged ==
    ASSUME OneUser, RelayWithinFile, UNCHANGED server
    PROVE  OneUser' /\ RelayWithinFile'
BY FewerSessions DEF server

LEMMA StopReceiveType ==
    ASSUME TypeOK, NEW S \in SUBSET Suspects,
           \A s \in S : receivers[s] # None, StopReceive(S)
    PROVE  /\ receivers' \in [Suspects -> [proxy : ProxyIds, total : Nat] \cup {None}]
           /\ ask' \in [Suspects -> Seq({Asked(k) : k \in Kinds} \cup {Reject})]
           /\ \A s \in Suspects : receivers'[s] # None => receivers'[s] = receivers[s]
<1>. DEFINE P == {Asked(k) : k \in Kinds} \cup {Reject}
<1>1. receivers' \in [Suspects -> [proxy : ProxyIds, total : Nat] \cup {None}]
  BY DEF TypeOK, StopReceive
<1>2. ASSUME NEW s \in Suspects
      PROVE  ask[s] \in Seq(P) /\ Sent(ask[s], s, Reject) \in Seq(P)
  <2>1. ask[s] \in Seq(P) /\ Reject \in P
    BY DEF TypeOK
  <2>. QED  BY <2>1, SentType
<1>3. ask' \in [Suspects -> Seq(P)]
  <2>. HIDE DEF P
  <2>. QED  BY <1>2 DEF StopReceive
<1>4. \A s \in Suspects : receivers'[s] # None => receivers'[s] = receivers[s]
  BY DEF StopReceive
<1>. QED  BY <1>1, <1>3, <1>4

LEMMA StopSessionsType ==
    ASSUME TypeOK, NEW T \in SUBSET Pairs, StopSessions(T)
    PROVE  /\ session' \in [Pairs -> [mem : Contents, total : Nat] \cup {None}]
           /\ back' \in [Pairs -> Seq({Reject})]
<1>1. session' \in [Pairs -> [mem : Contents, total : Nat] \cup {None}]
  BY DEF TypeOK, StopSessions
<1>2. ASSUME NEW t \in Pairs
      PROVE  back[t] \in Seq({Reject}) /\ Append(back[t], Reject) \in Seq({Reject})
  BY AppendProperties DEF TypeOK
<1>. QED  BY <1>1, <1>2 DEF StopSessions

(***************************************************************************)
(* The steps.                                                              *)
(***************************************************************************)

LEMMA InitInv == Init => IndInv
<1>. SUFFICES ASSUME Init PROVE IndInv
  OBVIOUS
<1>1. TypeOK
  <2>1. Len(FileSize) \in Nat /\ <<>> \in Contents
    BY ConstantsAssumption, LenProperties DEF Contents
  <2>2. 0 \in 0..Len(FileSize)
    BY <2>1
  <2>. QED  BY <2>1, <2>2 DEF Init, TypeOK
<1>2. OneUser /\ RelayWithinFile
  BY DEF Init, OneUser, RelayWithinFile
<1>. QED  BY <1>1, <1>2 DEF IndInv

\* A proxy that is not active serves no session.
LEMMA FreeProxy ==
    ASSUME IndInv, NEW i \in ProxyIds, Free(i)
    PROVE  /\ \A s \in Suspects : receivers[s] # None => receivers[s].proxy # i
           /\ \A t \in Pairs : transfers[t] # None => transfers[t].proxy # i
<1>1. ~Active(i)
  BY DEF Free
<1>2. \A s \in Suspects : receivers[s] # None => receivers[s].proxy # i
  BY <1>1 DEF IndInv, OneUser, Active
<1>3. ASSUME NEW t \in Pairs, transfers[t] # None, transfers[t].proxy = i
      PROVE  FALSE
  <2>1. /\ t[1] \in Admins /\ t[2] \in Suspects /\ t = <<t[1], t[2]>>
    BY DEF Pairs
  <2>2. proxy[i].admin = t[1] /\ proxy[i].suspect = t[2]
    BY <1>3 DEF IndInv, OneUser
  <2>3. transfers[<<t[1], t[2]>>] # None
    BY <1>3, <2>1
  <2>. QED  BY <1>1, <2>1, <2>2, <2>3 DEF Active
<1>. QED  BY <1>2, <1>3

LEMMA MakeDataInv ==
    ASSUME IndInv, NEW a \in Admins, NEW s \in Suspects, NEW k \in Kinds,
           MakeData(a, s, k)
    PROVE  IndInv'
<1>1. PICK i \in ProxyIds :
        /\ Free(i)
        /\ IF s \notin online \/ receivers[s] # None
           THEN Turned(i, a, s) /\ UNCHANGED <<receivers, ask>>
           ELSE /\ Emptied(i, a, s)
                /\ \E n \in AnySize :
                     receivers' = [receivers EXCEPT
                         ![s] = [proxy |-> i, total |-> n]]
                /\ ask' = [ask EXCEPT ![s] = Append(@, Asked(k))]
  BY DEF MakeData
<1>2. /\ \A x \in Suspects : receivers[x] # None => receivers[x].proxy # i
      /\ \A t \in Pairs : transfers[t] # None => transfers[t].proxy # i
  BY <1>1, FreeProxy
<1>3. TypeOK /\ OneUser /\ RelayWithinFile /\ UNCHANGED transfers
  BY DEF IndInv, MakeData
<1>4. proxy' \in [ProxyIds -> [admin : Admins \cup {None},
                             suspect : Suspects \cup {None},
                             first : BOOLEAN, mem : Contents]]
  <2>1. <<>> \in Contents
    BY DEF Contents
  <2>2. CASE Turned(i, a, s)
    <3>. DEFINE R == [admin : Admins \cup {None}, suspect : Suspects \cup {None},
                      first : BOOLEAN, mem : Contents]
                p == [proxy[i] EXCEPT !.admin = a]
    <3>1. proxy \in [ProxyIds -> R] /\ proxy[i] \in R
      BY <1>3 DEF TypeOK
    <3>2. p \in R
      BY <3>1
    <3>3. [p EXCEPT !.suspect = s] \in R
      <4>. HIDE DEF p
      <4>. QED  BY <3>2
    <3>4. proxy' = [proxy EXCEPT ![i] = [p EXCEPT !.suspect = s]]
      BY <2>2, <3>1 DEF Turned
    <3>. HIDE DEF R, p
    <3>5. proxy' \in [ProxyIds -> R]
      BY <3>1, <3>3, <3>4
    <3>. QED  BY <3>5 DEF R
  <2>3. CASE Emptied(i, a, s)
    BY <1>3, <2>1, <2>3 DEF Emptied, TypeOK
  <2>. QED  BY <1>1, <2>2, <2>3
<1>5. receivers' \in [Suspects -> [proxy : ProxyIds, total : Nat] \cup {None}]
  <2>1. AnySize \subseteq Nat
    BY ConstantsAssumption
  <2>2. CASE UNCHANGED receivers
    BY <1>3, <2>2 DEF TypeOK
  <2>3. CASE ~UNCHANGED receivers
    <3>1. PICK n \in AnySize :
            receivers' = [receivers EXCEPT ![s] = [proxy |-> i, total |-> n]]
      BY <1>1, <2>3
    <3>2. [proxy |-> i, total |-> n] \in [proxy : ProxyIds, total : Nat]
      BY <2>1
    <3>. QED  BY <1>3, <3>1, <3>2 DEF TypeOK
  <2>. QED  BY <2>2, <2>3
<1>6. ask' \in [Suspects -> Seq({Asked(x) : x \in Kinds} \cup {Reject})]
  <2>. DEFINE P == {Asked(x) : x \in Kinds} \cup {Reject}
  <2>1. Asked(k) \in P /\ ask \in [Suspects -> Seq(P)]
    BY <1>3 DEF TypeOK
  <2>. HIDE DEF P
  <2>2. Append(ask[s], Asked(k)) \in Seq(P)
    BY <2>1, AppendProperties
  <2>3. ask' \in [Suspects -> Seq(P)]
    BY <1>1, <2>1, <2>2
  <2>. QED  BY <2>3 DEF P
<1>7. requests' \in 0..Len(FileSize) /\ files \in 0..requests'
  <2>1. Len(FileSize) \in Nat
    BY ConstantsAssumption, LenProperties
  <2>2. /\ requests \in 0..Len(FileSize) /\ files \in 0..requests
        /\ requests < Len(FileSize) /\ requests' = requests + 1
    BY <1>3 DEF TypeOK, MakeData
  <2>. QED  BY <2>1, <2>2
<1>8. TypeOK'
  BY <1>3, <1>4, <1>5, <1>6, <1>7 DEF TypeOK, MakeData, suspects, admins
<1>9. /\ \A j \in ProxyIds : j # i => proxy'[j] = proxy[j]
      /\ proxy'[i].suspect = s
      /\ \A x \in Suspects : receivers'[x] # None =>
           \/ receivers'[x] = receivers[x]
           \/ x = s /\ receivers'[x].proxy = i
  <2>1. /\ \A j \in ProxyIds : j # i => proxy'[j] = proxy[j]
        /\ proxy'[i].suspect = s
    <3>1. CASE Turned(i, a, s)
      BY <1>3, <3>1 DEF Turned, TypeOK
    <3>2. CASE Emptied(i, a, s)
      BY <1>3, <3>2 DEF Emptied, TypeOK
    <3>. QED  BY <1>1, <3>1, <3>2
  <2>2. CASE UNCHANGED receivers
    BY <2>1, <2>2
  <2>3. CASE ~UNCHANGED receivers
    <3>1. PICK n \in AnySize :
            receivers' = [receivers EXCEPT ![s] = [proxy |-> i, total |-> n]]
      BY <1>1, <2>3
    <3>2. receivers'[s].proxy = i
      BY <1>3, <3>1 DEF TypeOK
    <3>3. \A x \in Suspects : x # s => receivers'[x] = receivers[x]
      BY <1>3, <3>1 DEF TypeOK
    <3>. QED  BY <2>1, <3>2, <3>3
  <2>. QED  BY <2>2, <2>3
<1>10. OneUser'
  <2>1. ASSUME NEW x \in Suspects, receivers'[x] # None
        PROVE  proxy'[receivers'[x].proxy].suspect = x
    <3>1. CASE receivers'[x] = receivers[x]
      <4>1. receivers[x].proxy \in ProxyIds
        BY <1>3, <2>1, <3>1 DEF TypeOK
      <4>. QED  BY <1>2, <1>3, <1>9, <2>1, <3>1, <4>1 DEF OneUser
    <3>2. CASE x = s /\ receivers'[x].proxy = i
      BY <1>9, <3>2
    <3>. QED  BY <1>9, <2>1, <3>1, <3>2
  <2>2. ASSUME NEW t \in Pairs, transfers'[t] # None
        PROVE  /\ proxy'[transfers'[t].proxy].admin = t[1]
               /\ proxy'[transfers'[t].proxy].suspect = t[2]
    <3>1. transfers[t].proxy \in ProxyIds
      BY <1>3, <2>2 DEF TypeOK
    <3>. QED  BY <1>2, <1>3, <1>9, <2>2, <3>1 DEF OneUser
  <2>. QED  BY <2>1, <2>2 DEF OneUser
<1>11. RelayWithinFile'
  <2>1. ASSUME NEW t \in Pairs, transfers'[t] # None
        PROVE  transfers'[t].sent <= Len(Source(t)')
    <3>1. transfers[t].proxy \in ProxyIds
      BY <1>3, <2>1 DEF TypeOK
    <3>. QED  BY <1>2, <1>3, <1>9, <2>1, <3>1 DEF RelayWithinFile, Source
  <2>. QED  BY <2>1 DEF RelayWithinFile
<1>. QED  BY <1>8, <1>10, <1>11 DEF IndInv

LEMMA UpRest ==
    ASSUME TypeOK, NEW s \in Suspects, up[s] # <<>>,
           up' = [up EXCEPT ![s] = Tail(@)]
    PROVE  /\ up' \in [Suspects -> Seq(Chunks \cup {Abort})]
           /\ Head(up[s]) \in Chunks \cup {Abort}
<1>1. up \in [Suspects -> Seq(Chunks \cup {Abort})]
  BY DEF TypeOK
<1>2. /\ Tail(up[s]) \in Seq(Chunks \cup {Abort})
      /\ Head(up[s]) \in Chunks \cup {Abort}
  BY <1>1, RestType
<1>. QED  BY <1>1, <1>2

\* What the server does with a chunk it takes: the session and the proxy.
LEMMA ReceivesInv ==
    ASSUME TypeOK, OneUser, RelayWithinFile,
           NEW s \in Suspects, receivers[s] # None,
           up[s] # <<>>, Head(up[s]) \in Chunks, ServerReceives(s)
    PROVE  /\ proxy' \in [ProxyIds -> [admin : Admins \cup {None},
                                       suspect : Suspects \cup {None},
                                       first : BOOLEAN, mem : Contents]]
           /\ receivers' \in
                [Suspects -> [proxy : ProxyIds, total : Nat] \cup {None}]
           /\ transfers' \in
                [Pairs -> [proxy : ProxyIds, sent : Nat, max : Nat] \cup {None}]
           /\ down' \in [Pairs -> Seq(Chunks \cup {Abort, Response})]
           /\ OneUser' /\ RelayWithinFile'
<1>. DEFINE i == receivers[s].proxy
            t == <<proxy[i].admin, proxy[i].suspect>>
            R == [proxy : ProxyIds, total : Nat]
            T == [proxy : ProxyIds, sent : Nat, max : Nat]
<1>1. PICK r \in Receive(proxy[i].mem, receivers[s].total, Head(up[s])) :
        /\ receivers' = [receivers EXCEPT
             ![s] = IF r.done THEN None ELSE [@ EXCEPT !.total = r.total]]
        /\ proxy' = [proxy EXCEPT ![i].mem = r.mem, ![i].first = FALSE]
        /\ IF proxy[i].first THEN Relayed(i, r)
           ELSE UNCHANGED <<down, transfers>>
  BY DEF ServerReceives
<1>2. /\ receivers[s] \in R /\ i \in ProxyIds /\ receivers[s].total \in Nat
      /\ proxy[i].mem \in Contents
  BY DEF TypeOK
<1>3. /\ r.mem \in Contents /\ r.total \in Nat /\ r.done \in BOOLEAN
      /\ Len(proxy[i].mem) <= Len(r.mem)
  BY <1>1, <1>2, ReceiveType
<1>4. proxy' \in [ProxyIds -> [admin : Admins \cup {None},
                             suspect : Suspects \cup {None},
                             first : BOOLEAN, mem : Contents]]
  <2>. DEFINE P == [admin : Admins \cup {None}, suspect : Suspects \cup {None},
                    first : BOOLEAN, mem : Contents]
              p == [proxy[i] EXCEPT !.mem = r.mem]
  <2>1. proxy \in [ProxyIds -> P] /\ proxy[i] \in P
    BY <1>2 DEF TypeOK
  <2>2. p \in P
    BY <1>3, <2>1
  <2>3. [p EXCEPT !.first = FALSE] \in P
    <3>. HIDE DEF p
    <3>. QED  BY <2>2
  <2>4. proxy' = [proxy EXCEPT ![i] = [p EXCEPT !.first = FALSE]]
    BY <1>1, <1>2, <2>1
  <2>. HIDE DEF P, p
  <2>5. proxy' \in [ProxyIds -> P]
    BY <2>1, <2>3, <2>4
  <2>. QED  BY <2>5 DEF P
<1>5. /\ \A j \in ProxyIds : /\ proxy'[j].admin = proxy[j].admin
                             /\ proxy'[j].suspect = proxy[j].suspect
                             /\ j # i => proxy'[j] = proxy[j]
      /\ proxy'[i].mem = r.mem
  <2>1. proxy \in [ProxyIds -> [admin : Admins \cup {None},
                                suspect : Suspects \cup {None},
                                first : BOOLEAN, mem : Contents]]
    BY DEF TypeOK
  <2>2. \A j \in ProxyIds : j # i => proxy'[j] = proxy[j]
    BY <1>1, <1>2, <2>1
  <2>3. /\ proxy'[i].admin = proxy[i].admin
        /\ proxy'[i].suspect = proxy[i].suspect /\ proxy'[i].mem = r.mem
    BY <1>1, <1>2, <2>1
  <2>. QED  BY <2>2, <2>3
<1>6. /\ receivers' \in [Suspects -> R \cup {None}]
      /\ \A x \in Suspects : receivers'[x] # None =>
           receivers[x] # None /\ receivers'[x].proxy = receivers[x].proxy
  <2>. DEFINE v == [receivers[s] EXCEPT !.total = r.total]
  <2>1. v \in R /\ v.proxy = i
    BY <1>2, <1>3
  <2>2. receivers' = [receivers EXCEPT ![s] = IF r.done THEN None ELSE v]
    BY <1>1
  <2>3. receivers \in [Suspects -> R \cup {None}]
    BY DEF TypeOK
  <2>. HIDE DEF v, R
  <2>. QED  BY <2>1, <2>2, <2>3
<1>7. /\ transfers' \in [Pairs -> T \cup {None}]
      /\ \A x \in Pairs : transfers'[x] # None =>
           \/ transfers'[x] = transfers[x]
           \/ /\ x = t
              /\ transfers'[x].proxy = i /\ transfers'[x].sent = 0
  <2>. DEFINE v == [proxy |-> i, sent |-> 0, max |-> r.total]
  <2>1. v \in T /\ v.proxy = i /\ v.sent = 0
    BY <1>2, <1>3
  <2>2. transfers \in [Pairs -> T \cup {None}]
    BY DEF TypeOK
  <2>3. CASE UNCHANGED transfers
    BY <2>2, <2>3
  <2>4. CASE transfers' = [transfers EXCEPT ![t] = IF @ # None THEN @ ELSE v]
    <3>. HIDE DEF v, T, t
    <3>. QED  BY <2>1, <2>2, <2>4
  <2>. QED  BY <1>1, <2>3, <2>4 DEF Relayed
<1>8. down' \in [Pairs -> Seq(Chunks \cup {Abort, Response})]
  <2>. DEFINE P == Chunks \cup {Abort, Response}
  <2>1. down \in [Pairs -> Seq(P)] /\ Response \in P
    BY DEF TypeOK
  <2>. HIDE DEF P
  <2>2. \A x \in Pairs : Sent(down[x], x[1], Response) \in Seq(P)
    BY <2>1, SentType
  <2>3. down' \in [Pairs -> Seq(P)]
    <3>1. CASE UNCHANGED down
      BY <2>1, <3>1
    <3>2. CASE down' = [down EXCEPT ![t] = Sent(@, t[1], Response)]
      <4>. HIDE DEF t
      <4>. QED  BY <2>1, <2>2, <3>2
    <3>. QED  BY <1>1, <3>1, <3>2 DEF Relayed
  <2>. QED  BY <2>3 DEF P
<1>9. OneUser'
  <2>1. ASSUME NEW x \in Suspects, receivers'[x] # None
        PROVE  proxy'[receivers'[x].proxy].suspect = x
    <3>1. receivers[x] # None /\ receivers'[x].proxy = receivers[x].proxy
      BY <1>6, <2>1
    <3>2. receivers[x].proxy \in ProxyIds
      BY <3>1 DEF TypeOK
    <3>. QED  BY <1>5, <3>1, <3>2 DEF OneUser
  <2>2. ASSUME NEW x \in Pairs, transfers'[x] # None
        PROVE  /\ proxy'[transfers'[x].proxy].admin = x[1]
               /\ proxy'[transfers'[x].proxy].suspect = x[2]
    <3>1. CASE transfers'[x] = transfers[x]
      <4>1. transfers[x].proxy \in ProxyIds
        BY <2>2, <3>1 DEF TypeOK
      <4>. QED  BY <1>5, <2>2, <3>1, <4>1 DEF OneUser
    <3>2. CASE x = t /\ transfers'[x].proxy = i
      BY <1>2, <1>5, <3>2
    <3>. QED  BY <1>7, <2>2, <3>1, <3>2
  <2>. QED  BY <2>1, <2>2 DEF OneUser
<1>10. RelayWithinFile'
  <2>1. ASSUME NEW x \in Pairs, transfers'[x] # None
        PROVE  transfers'[x].sent <= Len(proxy'[transfers'[x].proxy].mem)
    <3>1. CASE transfers'[x] = transfers[x]
      <4>1. /\ transfers[x].proxy \in ProxyIds /\ transfers[x].sent \in Nat
        BY <2>1, <3>1 DEF TypeOK
      <4>2. transfers[x].sent <= Len(proxy[transfers[x].proxy].mem)
        BY <2>1, <3>1 DEF RelayWithinFile, Source
      <4>3. Len(proxy[i].mem) \in Nat /\ Len(r.mem) \in Nat
        BY <1>2, <1>3, LenProperties DEF Contents
      <4>4. CASE transfers[x].proxy = i
        <5>1. transfers[x].sent <= Len(proxy[i].mem)
          BY <4>2, <4>4
        <5>2. transfers[x].sent <= Len(r.mem)
          <6>. HIDE DEF i
          <6>. QED  BY <5>1, <4>1, <4>3, <1>3
        <5>3. Len(proxy'[transfers'[x].proxy].mem) = Len(r.mem)
          BY <1>5, <3>1, <4>4
        <5>. QED  BY <5>2, <5>3, <3>1
      <4>5. CASE transfers[x].proxy # i
        BY <1>5, <3>1, <4>1, <4>2, <4>5
      <4>. QED  BY <4>4, <4>5
    <3>2. CASE transfers'[x].proxy = i /\ transfers'[x].sent = 0
      <4>1. Len(r.mem) \in Nat
        BY <1>3, LenProperties DEF Contents
      <4>. QED  BY <1>5, <3>2, <4>1
    <3>. QED  BY <1>7, <2>1, <3>1, <3>2
  <2>. QED  BY <2>1 DEF RelayWithinFile, Source
<1>. QED  BY <1>4, <1>6, <1>7, <1>8, <1>9, <1>10

LEMMA ServerOnDataInv ==
    ASSUME IndInv, NEW s \in Suspects, ServerOnData(s)
    PROVE  IndInv'
<1>1. TypeOK /\ OneUser /\ RelayWithinFile
  BY DEF IndInv
<1>2. /\ up' \in [Suspects -> Seq(Chunks \cup {Abort})]
      /\ Head(up[s]) \in Chunks
  BY <1>1, UpRest DEF ServerOnData
<1>3. CASE receivers[s] = None
  <2>1. UNCHANGED <<server, down>> /\ ask' = [ask EXCEPT ![s] = Sent(@, s, Reject)]
    BY <1>3 DEF ServerOnData
  <2>2. ask' \in [Suspects -> Seq({Asked(k) : k \in Kinds} \cup {Reject})]
    <3>. DEFINE P == {Asked(k) : k \in Kinds} \cup {Reject}
    <3>1. ask \in [Suspects -> Seq(P)] /\ Reject \in P
      BY <1>1 DEF TypeOK
    <3>. HIDE DEF P
    <3>2. Sent(ask[s], s, Reject) \in Seq(P)
      BY <3>1, SentType
    <3>3. ask' \in [Suspects -> Seq(P)]
      BY <2>1, <3>1, <3>2
    <3>. QED  BY <3>3 DEF P
  <2>3. TypeOK'
    BY <1>1, <1>2, <2>1, <2>2 DEF TypeOK, ServerOnData, server, suspects, admins
  <2>. QED  BY <1>1, <2>1, <2>3, ServerUnchanged DEF IndInv
<1>4. CASE receivers[s] # None
  <2>1. ServerReceives(s) /\ UNCHANGED ask /\ up[s] # <<>>
    BY <1>4 DEF ServerOnData
  <2>2. TypeOK'
    BY <1>1, <1>2, <1>4, <2>1, ReceivesInv
       DEF TypeOK, ServerOnData, suspects, admins
  <2>. QED  BY <1>1, <1>2, <1>4, <2>1, <2>2, ReceivesInv DEF IndInv
<1>. QED  BY <1>3, <1>4

LEMMA ServerOnAbortInv ==
    ASSUME IndInv, NEW s \in Suspects, ServerOnAbort(s)
    PROVE  IndInv'
<1>1. TypeOK /\ OneUser /\ RelayWithinFile
  BY DEF IndInv
<1>2. up' \in [Suspects -> Seq(Chunks \cup {Abort})]
  BY <1>1, UpRest DEF ServerOnAbort, IsNext
<1>3. /\ receivers' \in [Suspects -> [proxy : ProxyIds, total : Nat] \cup {None}]
      /\ ask' \in [Suspects -> Seq({Asked(k) : k \in Kinds} \cup {Reject})]
      /\ \A x \in Suspects : receivers'[x] # None => receivers'[x] = receivers[x]
  <2>1. CASE receivers[s] # None
    <3>1. StopReceive({s})
      BY <2>1 DEF ServerOnAbort
    <3>. QED  BY <1>1, <2>1, <3>1, StopReceiveType
  <2>2. CASE receivers[s] = None
    BY <1>1, <2>2 DEF ServerOnAbort, TypeOK
  <2>. QED  BY <2>1, <2>2
<1>4. UNCHANGED <<proxy, transfers>>
  BY DEF ServerOnAbort
<1>5. TypeOK'
  BY <1>1, <1>2, <1>3 DEF TypeOK, ServerOnAbort, suspects, admins
<1>6. OneUser' /\ RelayWithinFile'
  BY <1>1, <1>3, <1>4, FewerSessions
<1>. QED  BY <1>5, <1>6 DEF IndInv

LEMMA ServerTimesOutInv ==
    ASSUME IndInv, ServerTimesOut
    PROVE  IndInv'
<1>1. TypeOK /\ OneUser /\ RelayWithinFile
  BY DEF IndInv
<1>2. PICK S \in SUBSET Suspects :
        /\ \A s \in S : receivers[s] # None
        /\ StopReceive(S) /\ late' = late \cup S
        /\ UNCHANGED <<proxy, transfers, suspects, admins, up, down, back,
                       online, requests>>
  BY DEF ServerTimesOut
<1>3. /\ receivers' \in [Suspects -> [proxy : ProxyIds, total : Nat] \cup {None}]
      /\ ask' \in [Suspects -> Seq({Asked(k) : k \in Kinds} \cup {Reject})]
      /\ \A x \in Suspects : receivers'[x] # None => receivers'[x] = receivers[x]
  BY <1>1, <1>2, StopReceiveType
<1>4. TypeOK'
  BY <1>1, <1>2, <1>3 DEF TypeOK, suspects, admins
<1>5. OneUser' /\ RelayWithinFile'
  BY <1>1, <1>2, <1>3, FewerSessions
<1>. QED  BY <1>4, <1>5 DEF IndInv

LEMMA ServerOnRejectInv ==
    ASSUME IndInv, NEW t \in Pairs, ServerOnReject(t)
    PROVE  IndInv'
<1>1. TypeOK /\ OneUser /\ RelayWithinFile
  BY DEF IndInv
<1>2. back' \in [Pairs -> Seq({Reject})]
  <2>1. back \in [Pairs -> Seq({Reject})] /\ back[t] # <<>>
    BY <1>1 DEF TypeOK, ServerOnReject
  <2>2. Tail(back[t]) \in Seq({Reject})
    BY <2>1, RestType
  <2>. QED  BY <2>1, <2>2 DEF ServerOnReject
<1>3. /\ transfers' \in [Pairs -> [proxy : ProxyIds, sent : Nat, max : Nat] \cup {None}]
      /\ \A x \in Pairs : transfers'[x] # None => transfers'[x] = transfers[x]
  BY <1>1 DEF TypeOK, ServerOnReject
<1>4. down' \in [Pairs -> Seq(Chunks \cup {Abort, Response})]
  <2>. DEFINE P == Chunks \cup {Abort, Response}
  <2>1. down \in [Pairs -> Seq(P)] /\ Abort \in P
    BY <1>1 DEF TypeOK
  <2>. HIDE DEF P
  <2>2. Sent(down[t], t[1], Abort) \in Seq(P)
    BY <2>1, SentType
  <2>3. down' \in [Pairs -> Seq(P)]
    BY <2>1, <2>2 DEF ServerOnReject
  <2>. QED  BY <2>3 DEF P
<1>5. UNCHANGED <<proxy, receivers>>
  BY DEF ServerOnReject
<1>6. TypeOK'
  BY <1>1, <1>2, <1>3, <1>4 DEF TypeOK, ServerOnReject, suspects, admins
<1>7. OneUser' /\ RelayWithinFile'
  BY <1>1, <1>3, <1>5, FewerSessions
<1>. QED  BY <1>6, <1>7 DEF IndInv

LEMMA AfterTurnType ==
    ASSUME TypeOK, RelayWithinFile, NEW t \in Pairs, NEW n \in Nat,
           AfterTurn(t, n) # None
    PROVE  /\ transfers[t] # None
           /\ AfterTurn(t, n) \in [proxy : ProxyIds, sent : Nat, max : Nat]
           /\ AfterTurn(t, n).proxy = transfers[t].proxy
           /\ AfterTurn(t, n).sent <= Len(Source(t))
<1>1. transfers[t] # None /\ t[1] \in online
  BY DEF AfterTurn
<1>2. transfers[t] \in [proxy : ProxyIds, sent : Nat, max : Nat]
  BY <1>1 DEF TypeOK
<1>3. /\ transfers[t].sent \in Nat /\ Ready(t, n) \in Nat
      /\ transfers[t].sent + Ready(t, n) <= Len(Source(t))
  BY <1>1, ReadyType
<1>4. CASE ~Served(t)
  <2>1. AfterTurn(t, n) = transfers[t]
    BY <1>1, <1>4 DEF AfterTurn
  <2>. QED  BY <1>1, <1>2, <2>1 DEF RelayWithinFile
<1>5. CASE Served(t)
  <2>1. AfterTurn(t, n) = [transfers[t] EXCEPT !.sent = @ + Ready(t, n)]
    BY <1>1, <1>5 DEF AfterTurn
  <2>2. transfers[t].sent + Ready(t, n) \in Nat
    BY <1>3
  <2>. HIDE DEF Ready
  <2>. QED  BY <1>1, <1>2, <1>3, <2>1, <2>2
<1>. QED  BY <1>4, <1>5

LEMMA UpdateTransferInv ==
    ASSUME IndInv, UpdateTransfer
    PROVE  IndInv'
<1>1. TypeOK /\ OneUser /\ RelayWithinFile
  BY DEF IndInv
<1>2. PICK size \in [Pairs -> 1..MaxChunk] :
        /\ transfers' = [t \in Pairs |-> AfterTurn(t, size[t])]
        /\ down' = [t \in Pairs |->
             IF Served(t) THEN Append(down[t], RelayChunk(t, size[t]))
             ELSE down[t]]
        /\ UNCHANGED <<proxy, receivers, suspects, admins, ask, up, back,
                       online, requests, late>>
  BY DEF UpdateTransfer
<1>3. \A t \in Pairs : size[t] \in Nat
  BY ConstantsAssumption
<1>4. ASSUME NEW t \in Pairs, transfers'[t] # None
      PROVE  /\ transfers[t] # None
             /\ transfers'[t] \in [proxy : ProxyIds, sent : Nat, max : Nat]
             /\ transfers'[t].proxy = transfers[t].proxy
             /\ transfers'[t].sent <= Len(Source(t))
  <2>1. transfers'[t] = AfterTurn(t, size[t])
    BY <1>2
  <2>. QED  BY <1>1, <1>3, <1>4, <2>1, AfterTurnType
<1>5. transfers' \in [Pairs -> [proxy : ProxyIds, sent : Nat, max : Nat] \cup {None}]
  <2>1. \A t \in Pairs :
          transfers'[t] \in [proxy : ProxyIds, sent : Nat, max : Nat] \cup {None}
    BY <1>4
  <2>2. transfers' = [t \in Pairs |-> transfers'[t]]
    BY <1>2
  <2>. QED  BY <2>1, <2>2
<1>6. down' \in [Pairs -> Seq(Chunks \cup {Abort, Response})]
  <2>. DEFINE P == Chunks \cup {Abort, Response}
  <2>1. down \in [Pairs -> Seq(P)]
    BY <1>1 DEF TypeOK
  <2>2. ASSUME NEW t \in Pairs, Served(t)
        PROVE  RelayChunk(t, size[t]) \in P
    <3>1. transfers[t] # None
      BY <2>2 DEF Served
    <3>. QED  BY <1>1, <1>3, <3>1, RelayChunkType
  <2>. HIDE DEF P
  <2>3. ASSUME NEW t \in Pairs, Served(t)
        PROVE  Append(down[t], RelayChunk(t, size[t])) \in Seq(P)
    BY <2>1, <2>2, <2>3, AppendProperties
  <2>4. down' \in [Pairs -> Seq(P)]
    BY <1>2, <2>1, <2>3
  <2>. QED  BY <2>4 DEF P
<1>7. TypeOK'
  BY <1>1, <1>2, <1>5, <1>6 DEF TypeOK, suspects, admins
<1>8. OneUser'
  BY <1>1, <1>2, <1>4 DEF OneUser
<1>9. RelayWithinFile'
  <2>1. ASSUME NEW t \in Pairs, transfers'[t] # None
        PROVE  Source(t)' = Source(t)
    BY <1>2, <1>4, <2>1 DEF Source
  <2>. QED  BY <1>4, <2>1 DEF RelayWithinFile
<1>. QED  BY <1>7, <1>8, <1>9 DEF IndInv

LEMMA AskRest ==
    ASSUME TypeOK, NEW s \in Suspects, ask[s] # <<>>,
           ask' = [ask EXCEPT ![s] = Tail(@)]
    PROVE  ask' \in [Suspects -> Seq({Asked(k) : k \in Kinds} \cup {Reject})]
<1>. DEFINE P == {Asked(k) : k \in Kinds} \cup {Reject}
<1>1. ask \in [Suspects -> Seq(P)]
  BY DEF TypeOK
<1>. HIDE DEF P
<1>2. Tail(ask[s]) \in Seq(P)
  BY <1>1, RestType
<1>3. ask' \in [Suspects -> Seq(P)]
  BY <1>1, <1>2
<1>. QED  BY <1>3 DEF P

LEMMA DownRest ==
    ASSUME TypeOK, NEW t \in Pairs, down[t] # <<>>,
           down' = [down EXCEPT ![t] = Tail(@)]
    PROVE  /\ down' \in [Pairs -> Seq(Chunks \cup {Abort, Response})]
           /\ Head(down[t]) \in Chunks \cup {Abort, Response}
<1>. DEFINE P == Chunks \cup {Abort, Response}
<1>1. down \in [Pairs -> Seq(P)]
  BY DEF TypeOK
<1>. HIDE DEF P
<1>2. Tail(down[t]) \in Seq(P) /\ Head(down[t]) \in P
  BY <1>1, RestType
<1>3. down' \in [Pairs -> Seq(P)] /\ Head(down[t]) \in P
  BY <1>1, <1>2
<1>. QED  BY <1>3 DEF P

LEMMA UpAppend ==
    ASSUME TypeOK, NEW s \in Suspects, NEW p \in Chunks \cup {Abort},
           up' = [up EXCEPT ![s] = Append(@, p)]
    PROVE  up' \in [Suspects -> Seq(Chunks \cup {Abort})]
<1>. DEFINE P == Chunks \cup {Abort}
<1>1. up \in [Suspects -> Seq(P)]
  BY DEF TypeOK
<1>. HIDE DEF P
<1>2. Append(up[s], p) \in Seq(P)
  BY <1>1, AppendProperties DEF P
<1>3. up' \in [Suspects -> Seq(P)]
  BY <1>1, <1>2
<1>. QED  BY <1>3 DEF P

\* What the clients do leaves the server's part of the invariant alone.
LEMMA ClientStep ==
    ASSUME IndInv, TypeOK', UNCHANGED server
    PROVE  IndInv'
BY ServerUnchanged DEF IndInv

LEMMA SuspectOnRequestInv ==
    ASSUME IndInv, NEW s \in Suspects, SuspectOnRequest(s)
    PROVE  IndInv'
<1>1. TypeOK
  BY DEF IndInv
<1>2. PICK k \in Kinds :
        /\ ask[s] # <<>> /\ ask' = [ask EXCEPT ![s] = Tail(@)]
        /\ collecting' = [collecting EXCEPT ![s] = @ \cup {k}]
        /\ UNCHANGED <<server, buffer, upload, files, admins, up, down, back,
                       online, requests, late>>
  BY DEF SuspectOnRequest, IsNext
<1>3. ask' \in [Suspects -> Seq({Asked(x) : x \in Kinds} \cup {Reject})]
  BY <1>1, <1>2, AskRest
<1>4. collecting' \in [Suspects -> SUBSET Kinds]
  BY <1>1, <1>2 DEF TypeOK
<1>5. TypeOK'
  BY <1>1, <1>2, <1>3, <1>4 DEF TypeOK, server, admins
<1>. QED  BY <1>2, <1>5, ClientStep

LEMMA SuspectOnRejectInv ==
    ASSUME IndInv, NEW s \in Suspects, SuspectOnReject(s)
    PROVE  IndInv'
<1>1. TypeOK
  BY DEF IndInv
<1>2. ask' \in [Suspects -> Seq({Asked(x) : x \in Kinds} \cup {Reject})]
  BY <1>1, AskRest DEF SuspectOnReject, IsNext
<1>3. up' \in [Suspects -> Seq(Chunks \cup {Abort})]
  <2>1. CASE UNCHANGED up
    BY <1>1, <2>1 DEF TypeOK
  <2>2. CASE up' = [up EXCEPT ![s] = Append(@, Abort)]
    BY <1>1, <2>2, UpAppend
  <2>. QED  BY <2>1, <2>2 DEF SuspectOnReject
<1>4. /\ upload' \in
           [Suspects -> [file : 1..Len(FileSize), sent : Nat] \cup {None}]
      /\ \A x \in Suspects :
           upload'[x] # None => upload'[x].sent < FileSize[upload'[x].file]
  BY <1>1 DEF TypeOK, SuspectOnReject
<1>5. TypeOK'
  BY <1>1, <1>2, <1>3, <1>4 DEF TypeOK, SuspectOnReject, server, admins
<1>. QED  BY <1>5, ClientStep DEF SuspectOnReject

LEMMA FileSizeType ==
    /\ Len(FileSize) \in Nat
    /\ \A n \in 1..Len(FileSize) : FileSize[n] \in Nat /\ FileSize[n] > 0
<1>1. Len(FileSize) \in Nat
  BY ConstantsAssumption, LenProperties
<1>2. \A n \in 1..Len(FileSize) : FileSize[n] \in Nat \ {0}
  BY ConstantsAssumption, ElementOfSeq
<1>. QED  BY <1>1, <1>2

LEMMA CollectedInv ==
    ASSUME IndInv, NEW s \in Suspects, NEW k \in Kinds, Collected(s, k)
    PROVE  IndInv'
<1>1. TypeOK
  BY DEF IndInv
<1>2. /\ requests \in 0..Len(FileSize) /\ files \in 0..requests
      /\ files < requests /\ files' = files + 1 /\ UNCHANGED requests
      /\ Len(FileSize) \in Nat
  BY <1>1, FileSizeType DEF TypeOK, Collected, StartUpload
<1>3. /\ files + 1 \in 1..Len(FileSize) /\ files' \in 0..requests'
      /\ files + 1 \in 0..Len(FileSize)
  BY <1>2
<1>4. buffer' \in [Suspects -> 0..Len(FileSize)]
  BY <1>1, <1>3 DEF TypeOK, Collected, StartUpload
<1>5. /\ upload' \in
           [Suspects -> [file : 1..Len(FileSize), sent : Nat] \cup {None}]
      /\ \A x \in Suspects :
           upload'[x] # None => upload'[x].sent < FileSize[upload'[x].file]
  <2>. DEFINE v == [file |-> files + 1, sent |-> 0]
              U == [file : 1..Len(FileSize), sent : Nat]
  <2>1. v \in U /\ v.sent < FileSize[v.file]
    BY <1>3, FileSizeType
  <2>2. /\ upload \in [Suspects -> U \cup {None}]
        /\ \A x \in Suspects :
             upload[x] # None => upload[x].sent < FileSize[upload[x].file]
    BY <1>1 DEF TypeOK
  <2>3. upload' = [upload EXCEPT ![s] = IF @ # None THEN @ ELSE v]
    BY DEF Collected, StartUpload
  <2>. HIDE DEF v, U
  <2>4. /\ upload' \in [Suspects -> U \cup {None}]
        /\ \A x \in Suspects : upload'[x] = upload[x] \/ upload'[x] = v
    BY <2>1, <2>2, <2>3
  <2>5. \A x \in Suspects :
          upload'[x] # None => upload'[x].sent < FileSize[upload'[x].file]
    BY <2>1, <2>2, <2>4
  <2>. QED  BY <2>4, <2>5 DEF U
<1>6. collecting' \in [Suspects -> SUBSET Kinds]
  BY <1>1 DEF TypeOK, Collected, StartUpload
<1>7. TypeOK'
  BY <1>1, <1>2, <1>3, <1>4, <1>5, <1>6
     DEF TypeOK, Collected, StartUpload, server, admins, channels
<1>. QED  BY <1>7, ClientStep DEF Collected, StartUpload

LEMMA NothingCollectedInv ==
    ASSUME IndInv, NEW s \in Suspects, NEW k \in Kinds, NothingCollected(s, k)
    PROVE  IndInv'
<1>1. TypeOK
  BY DEF IndInv
<1>2. collecting' \in [Suspects -> SUBSET Kinds] /\ late' \subseteq Suspects
  BY <1>1 DEF TypeOK, NothingCollected
<1>3. TypeOK'
  BY <1>1, <1>2 DEF TypeOK, NothingCollected, server, admins, channels
<1>. QED  BY <1>3, ClientStep DEF NothingCollected

LEMMA SuspectSendsInv ==
    ASSUME IndInv, NEW s \in Suspects, SuspectSends(s)
    PROVE  IndInv'
<1>1. TypeOK
  BY DEF IndInv
<1>2. PICK size \in 1..MaxChunk :
        LET rest == FileSize[upload[s].file] - upload[s].sent
            n    == SmallerOf(size, rest)
        IN  /\ up' = [up EXCEPT ![s] = Append(@, UploadChunk(s, n))]
            /\ upload' = [upload EXCEPT
                 ![s] = IF n = rest THEN None
                       ELSE [upload[s] EXCEPT !.sent = @ + n]]
  BY DEF SuspectSends
<1>. DEFINE rest == FileSize[upload[s].file] - upload[s].sent
            n    == SmallerOf(size, rest)
            U == [file : 1..Len(FileSize), sent : Nat]
<1>3. /\ upload[s] # None /\ upload[s] \in U
      /\ upload[s].file \in 1..Len(FileSize) /\ upload[s].sent \in Nat
      /\ upload[s].sent < FileSize[upload[s].file]
  BY <1>1 DEF TypeOK, SuspectSends
<1>4. /\ FileSize[upload[s].file] \in Nat /\ size \in Nat /\ size > 0
      /\ rest \in Nat /\ n \in Nat /\ n <= rest
  BY <1>3, FileSizeType, ConstantsAssumption DEF SmallerOf
<1>5. UploadChunk(s, n) \in Chunks
  <2>. HIDE DEF n
  <2>. DEFINE units == [i \in 1..n |-> UploadUnit(s, upload[s].sent + i)]
              head == IF upload[s].sent = 0 THEN FileSize[upload[s].file]
                      ELSE None
  <2>1. \A i \in 1..n : UploadUnit(s, upload[s].sent + i) \in Units
    BY <1>3, <1>4 DEF UploadUnit, Units
  <2>2. units \in Seq(Units)
    BY <1>4, <2>1
  <2>3. head \in Nat \cup {None}
    BY <1>4
  <2>4. UploadChunk(s, n) = Chunk(head, units)
    BY DEF UploadChunk
  <2>. HIDE DEF units, head
  <2>. QED  BY <2>2, <2>3, <2>4 DEF Chunk, Chunks, Contents
<1>6. up' \in [Suspects -> Seq(Chunks \cup {Abort})]
  BY <1>1, <1>2, <1>5, UpAppend
<1>7. /\ upload' \in [Suspects -> U \cup {None}]
      /\ \A x \in Suspects :
           upload'[x] # None => upload'[x].sent < FileSize[upload'[x].file]
  <2>. DEFINE v == [upload[s] EXCEPT !.sent = @ + n]
  <2>1. v \in U /\ v.file = upload[s].file /\ v.sent = upload[s].sent + n
    <3>. HIDE DEF n
    <3>. QED  BY <1>3, <1>4
  <2>2. n # rest => v.sent < FileSize[v.file]
    <3>. HIDE DEF v, n
    <3>. QED  BY <1>3, <1>4, <2>1
  <2>3. upload' = [upload EXCEPT ![s] = IF n = rest THEN None ELSE v]
    <3>1. upload' = [upload EXCEPT
            ![s] = IF n = rest THEN None
                       ELSE [upload[s] EXCEPT !.sent = @ + n]]
      BY <1>2
    <3>. HIDE DEF n, rest
    <3>. QED  BY <1>1, <3>1 DEF TypeOK
  <2>4. /\ upload \in [Suspects -> U \cup {None}]
        /\ \A x \in Suspects :
             upload[x] # None => upload[x].sent < FileSize[upload[x].file]
    BY <1>1 DEF TypeOK
  <2>. HIDE DEF v, n, rest, U
  <2>5. /\ upload' \in [Suspects -> U \cup {None}]
        /\ \A x \in Suspects :
             \/ upload'[x] = upload[x]
             \/ upload'[x] = None
             \/ n # rest /\ upload'[x] = v
    BY <2>1, <2>3, <2>4
  <2>. QED  BY <2>2, <2>4, <2>5
<1>8. TypeOK'
  <2>1. UNCHANGED <<proxy, receivers, transfers, collecting, buffer, files, session,
                    saved, ask, down, back, online, requests, late>>
    BY DEF SuspectSends, server, admins
  <2>. QED  BY <1>1, <1>6, <1>7, <2>1, SMTT(20) DEF TypeOK
<1>. QED  BY <1>8, ClientStep DEF SuspectSends

LEMMA AdminOnResponseInv ==
    ASSUME IndInv, NEW t \in Pairs, AdminOnResponse(t)
    PROVE  IndInv'
<1>1. TypeOK
  BY DEF IndInv
<1>2. down' \in [Pairs -> Seq(Chunks \cup {Abort, Response})]
  BY <1>1, DownRest DEF AdminOnResponse, IsNext
<1>3. session' \in [Pairs -> [mem : Contents, total : Nat] \cup {None}]
  <2>1. CASE UNCHANGED session
    BY <1>1, <2>1 DEF TypeOK
  <2>2. CASE ~UNCHANGED session
    <3>1. PICK n \in AnySize :
            session' = [session EXCEPT ![t] = [mem |-> <<>>, total |-> n]]
      BY <2>2 DEF AdminOnResponse
    <3>2. [mem |-> <<>>, total |-> n] \in [mem : Contents, total : Nat]
      BY ConstantsAssumption DEF Contents
    <3>. QED  BY <1>1, <3>1, <3>2 DEF TypeOK
  <2>. QED  BY <2>1, <2>2
<1>4. TypeOK'
  BY <1>1, <1>2, <1>3 DEF TypeOK, AdminOnResponse, server, suspects
<1>. QED  BY <1>4, ClientStep DEF AdminOnResponse

LEMMA AdminOnDataInv ==
    ASSUME IndInv, NEW t \in Pairs, AdminOnData(t)
    PROVE  IndInv'
<1>1. TypeOK
  BY DEF IndInv
<1>2. /\ down' \in [Pairs -> Seq(Chunks \cup {Abort, Response})]
      /\ Head(down[t]) \in Chunks
  BY <1>1, DownRest DEF AdminOnData
<1>3. CASE session[t] = None
  <2>1. back' = [back EXCEPT ![t] = Append(@, Reject)] /\ UNCHANGED admins
    BY <1>3 DEF AdminOnData
  <2>2. back' \in [Pairs -> Seq({Reject})]
    <3>1. back \in [Pairs -> Seq({Reject})]
      BY <1>1 DEF TypeOK
    <3>2. Append(back[t], Reject) \in Seq({Reject})
      BY <3>1, AppendProperties
    <3>. QED  BY <2>1, <3>1, <3>2
  <2>3. TypeOK'
    BY <1>1, <1>2, <2>1, <2>2 DEF TypeOK, AdminOnData, server, suspects, admins
  <2>. QED  BY <2>3, ClientStep DEF AdminOnData
<1>4. CASE session[t] # None
  <2>1. PICK r \in Receive(session[t].mem, session[t].total, Head(down[t])) :
          /\ session' = [session EXCEPT
               ![t] = IF r.done THEN None
                      ELSE [mem |-> r.mem, total |-> r.total]]
          /\ saved' = IF r.done
                      THEN saved \cup {[to |-> t[1], from |-> t[2],
                                        mem |-> r.mem]}
                      ELSE saved
    BY <1>4 DEF AdminOnData
  <2>2. session[t].mem \in Contents /\ session[t].total \in Nat
    BY <1>1, <1>4 DEF TypeOK
  <2>3. r.mem \in Contents /\ r.total \in Nat /\ r.done \in BOOLEAN
    BY <1>2, <2>1, <2>2, ReceiveType
  <2>4. session' \in [Pairs -> [mem : Contents, total : Nat] \cup {None}]
    <3>1. [mem |-> r.mem, total |-> r.total] \in [mem : Contents, total : Nat]
      BY <2>3
    <3>. QED  BY <1>1, <2>1, <3>1 DEF TypeOK
  <2>5. saved' \subseteq [to : Admins, from : Suspects, mem : Contents]
    <3>1. t[1] \in Admins /\ t[2] \in Suspects
      BY DEF Pairs
    <3>2. [to |-> t[1], from |-> t[2], mem |-> r.mem]
            \in [to : Admins, from : Suspects, mem : Contents]
      BY <2>3, <3>1
    <3>. QED  BY <1>1, <2>1, <3>2 DEF TypeOK
  <2>6. UNCHANGED back
    BY <1>4 DEF AdminOnData
  <2>7. TypeOK'
    BY <1>1, <1>2, <2>4, <2>5, <2>6 DEF TypeOK, AdminOnData, server, suspects
  <2>. QED  BY <2>7, ClientStep DEF AdminOnData
<1>. QED  BY <1>3, <1>4

LEMMA AdminOnAbortInv ==
    ASSUME IndInv, NEW t \in Pairs, AdminOnAbort(t)
    PROVE  IndInv'
<1>1. TypeOK
  BY DEF IndInv
<1>2. down' \in [Pairs -> Seq(Chunks \cup {Abort, Response})]
  BY <1>1, DownRest DEF AdminOnAbort, IsNext
<1>3. /\ session' \in [Pairs -> [mem : Contents, total : Nat] \cup {None}]
      /\ back' \in [Pairs -> Seq({Reject})]
  <2>1. CASE session[t] # None
    <3>1. StopSessions({t})
      BY <2>1 DEF AdminOnAbort
    <3>. QED  BY <1>1, <3>1, StopSessionsType
  <2>2. CASE session[t] = None
    BY <1>1, <2>2 DEF AdminOnAbort, TypeOK
  <2>. QED  BY <2>1, <2>2
<1>4. TypeOK'
  BY <1>1, <1>2, <1>3 DEF TypeOK, AdminOnAbort, server, suspects
<1>. QED  BY <1>4, ClientStep DEF AdminOnAbort

LEMMA AdminTimesOutInv ==
    ASSUME IndInv, NEW a \in Admins, AdminTimesOut(a)
    PROVE  IndInv'
<1>1. TypeOK
  BY DEF IndInv
<1>2. PICK S \in SUBSET Suspects :
        /\ StopSessions({a} \X S) /\ late' = late \cup S
        /\ UNCHANGED <<server, suspects, saved, ask, up, down, online,
                       requests>>
  BY DEF AdminTimesOut, Sessions
<1>3. /\ session' \in [Pairs -> [mem : Contents, total : Nat] \cup {None}]
      /\ back' \in [Pairs -> Seq({Reject})]
  <2>1. {a} \X S \in SUBSET Pairs
    BY DEF Pairs
  <2>. QED  BY <1>1, <1>2, <2>1, StopSessionsType
<1>4. TypeOK'
  BY <1>1, <1>2, <1>3 DEF TypeOK, server, suspects
<1>. QED  BY <1>2, <1>4, ClientStep

LEMMA LeaveInv ==
    ASSUME IndInv, NEW c \in Admins \cup Suspects, Leave(c)
    PROVE  IndInv'
<1>1. TypeOK
  BY DEF IndInv
<1>2. up' \in [Suspects -> Seq(Chunks \cup {Abort})]
  <2>. DEFINE P == Chunks \cup {Abort}
  <2>1. up \in [Suspects -> Seq(P)] /\ Abort \in P
    BY <1>1 DEF TypeOK
  <2>. HIDE DEF P
  <2>2. up' \in [Suspects -> Seq(P)]
    <3>1. CASE UNCHANGED up
      BY <2>1, <3>1
    <3>2. CASE ~UNCHANGED up
      <4>1. c \in Suspects
        BY <3>2 DEF Leave
      <4>2. PICK n \in 0..Len(Farewell(c)) :
              up' = [up EXCEPT ![c] = SubSeq(Farewell(c), 1, n)]
        BY <4>1 DEF Leave
      <4>3. Farewell(c) \in Seq(P)
        <5>1. <<>> \in Seq(P) /\ <<Abort>> \in Seq(P)
          BY <2>1
        <5>. QED  BY <2>1, <4>1, <5>1, ConcatType DEF Farewell
      <4>4. SubSeq(Farewell(c), 1, n) \in Seq(P)
        <5>1. Len(Farewell(c)) \in Nat
          BY <4>3, LenProperties
        <5>2. \A i \in 1..n : Farewell(c)[i] \in P
          BY <4>3, <5>1, ElementOfSeq
        <5>. QED  BY <4>3, <5>1, <5>2, SubSeqProperties
      <4>. QED  BY <2>1, <4>2, <4>4
    <3>. QED  BY <3>1, <3>2
  <2>. QED  BY <2>2 DEF P
<1>3. ask' \in [Suspects -> Seq({Asked(k) : k \in Kinds} \cup {Reject})]
  <2>. DEFINE P == {Asked(k) : k \in Kinds} \cup {Reject}
  <2>1. ask \in [Suspects -> Seq(P)]
    BY <1>1 DEF TypeOK
  <2>. HIDE DEF P
  <2>2. <<>> \in Seq(P)
    OBVIOUS
  <2>3. ask' \in [Suspects -> Seq(P)]
    BY <2>1, <2>2 DEF Leave
  <2>. QED  BY <2>3 DEF P
<1>4. /\ collecting' \in [Suspects -> SUBSET Kinds]
      /\ late' \subseteq Suspects /\ online' \subseteq Admins \cup Suspects
  BY <1>1 DEF TypeOK, Leave
<1>5. /\ upload' \in
           [Suspects -> [file : 1..Len(FileSize), sent : Nat] \cup {None}]
      /\ \A x \in Suspects :
           upload'[x] # None => upload'[x].sent < FileSize[upload'[x].file]
  BY <1>1 DEF TypeOK, Leave
<1>6. session' \in [Pairs -> [mem : Contents, total : Nat] \cup {None}]
  BY <1>1 DEF TypeOK, Leave
<1>7. down' \in [Pairs -> Seq(Chunks \cup {Abort, Response})]
  <2>. DEFINE P == Chunks \cup {Abort, Response}
  <2>1. down \in [Pairs -> Seq(P)] /\ <<>> \in Seq(P)
    BY <1>1 DEF TypeOK
  <2>. HIDE DEF P
  <2>2. down' \in [Pairs -> Seq(P)]
    BY <2>1 DEF Leave
  <2>. QED  BY <2>2 DEF P
<1>8. back' \in [Pairs -> Seq({Reject})]
  BY <1>1 DEF TypeOK, Leave
<1>9. TypeOK'
  BY <1>1, <1>2, <1>3, <1>4, <1>5, <1>6, <1>7, <1>8 DEF TypeOK, Leave, server
<1>. QED  BY <1>9, ClientStep DEF Leave

(***************************************************************************)
(* The theorems.                                                           *)
(***************************************************************************)

LEMMA NextInv ==
    ASSUME IndInv, [Next]_vars
    PROVE  IndInv'
<1>1. CASE UNCHANGED vars
  <2>1. TypeOK'
    BY <1>1 DEF IndInv, TypeOK, vars, server, suspects, admins, channels
  <2>. QED  BY <1>1, <2>1, ClientStep DEF vars
<1>2. CASE \E a \in Admins, s \in Suspects, k \in Kinds : MakeData(a, s, k)
  BY <1>2, MakeDataInv
<1>3. CASE ServerReads
  BY <1>3, ServerOnDataInv, ServerOnAbortInv, ServerOnRejectInv DEF ServerReads
<1>4. CASE UpdateTransfer
  BY <1>4, UpdateTransferInv
<1>5. CASE ServerTimesOut
  BY <1>5, ServerTimesOutInv
<1>6. ASSUME NEW s \in Suspects, SuspectStep(s) PROVE IndInv'
  BY <1>6, SuspectOnRequestInv, SuspectOnRejectInv, SuspectSendsInv,
     CollectedInv, NothingCollectedInv DEF SuspectStep
<1>7. ASSUME NEW t \in Pairs, AdminStep(t) PROVE IndInv'
  BY <1>7, AdminOnResponseInv, AdminOnDataInv, AdminOnAbortInv DEF AdminStep
<1>8. ASSUME NEW a \in Admins, AdminTimesOut(a) PROVE IndInv'
  BY <1>8, AdminTimesOutInv
<1>9. ASSUME NEW c \in Admins \cup Suspects, Leave(c) PROVE IndInv'
  BY <1>9, LeaveInv
<1>. QED  BY <1>1, <1>2, <1>3, <1>4, <1>5, <1>6, <1>7, <1>8, <1>9 DEF Next

LEMMA Inductive == Spec => []IndInv
BY InitInv, NextInv, PTL DEF Spec

\* The sessions, the memory files and the packets of both ends keep their types
\* (an upload never has its whole file sent while it is open).
THEOREM TypeCorrect == Spec => []TypeOK
<1>1. IndInv => TypeOK
  BY DEF IndInv
<1>. QED  BY <1>1, Inductive, PTL

\* Whatever is requested, aborted, timed out or left: no memory file of a proxy
\* is written for one suspect while a session of another one uses it.
THEOREM OneUserAlways == Spec => []OneUser
<1>1. IndInv => OneUser
  BY DEF IndInv
<1>. QED  BY <1>1, Inductive, PTL

\* The relay of a file that is still being received never reads beyond what has
\* been received: the unsigned difference of memory_writer_reader never wraps.
THEOREM RelayWithinFileAlways == Spec => []RelayWithinFile
<1>1. IndInv => RelayWithinFile
  BY DEF IndInv
<1>. QED  BY <1>1, Inductive, PTL

(***************************************************************************)
(* Whole files: a transfer as a walk of its receiver over the units.       *)
(***************************************************************************)

\* The units of the n-th file of s after the first p, up to the q-th.
Part(s, n, p, q) ==
    [i \in 1..(q - p) |-> [from |-> s, file |-> n, pos |-> p + i]]

\* The packet with them: only the first one tells the size.
FileChunk(s, n, p, q) ==
    Chunk(IF p = 0 THEN FileSize[n] ELSE None, Part(s, n, p, q))

\* How far a transfer has come: so many units of a file, or none is under way.
Idle      == [file |-> 0, pos |-> 0]
Opened(k) == {b \in [file : 1..k, pos : Nat] : b.pos < FileSize[b.file]}
Places(k) == Opened(k) \cup {Idle}
After(n, q) == IF q = FileSize[n] THEN Idle ELSE [file |-> n, pos |-> q]

\* A packet that takes a receiver from b to e.
Follows(k, s, b, p, e) ==
    \/ p = Response /\ b = Idle /\ e \in Opened(k) /\ e.pos = 0
    \/ p = Response /\ b \in Opened(k) /\ e = b
    \/ /\ b \in Opened(k)
       /\ \E q \in b.pos..FileSize[b.file] :
            p = FileChunk(s, b.file, b.pos, q) /\ e = After(b.file, q)

\* What is in channel c takes a receiver that is at b to e.
Walk(k, s, b, c, e) == \E w \in [1..(Len(c) + 1) -> Places(k)] :
    /\ w[1] = b /\ w[Len(c) + 1] = e
    /\ \A j \in 1..Len(c) : Follows(k, s, w[j], c[j], w[j + 1])

\* A receiver at b: what it holds, and the size once it has been told.
Holds(k, s, b, mem, total) ==
    /\ b \in Opened(k) /\ mem = Part(s, b.file, 0, b.pos)
    /\ b.pos # 0 => total = FileSize[b.file]

Upto(s) == IF upload[s] = None THEN Idle
           ELSE [file |-> upload[s].file, pos |-> upload[s].sent]

\* An upload sends no chunk without units (a relay may).
Filled(c) == \A j \in 1..Len(c) : c[j].units # <<>>

\* The suspect has nothing to collect, to send, or on its way to the server.
Quiet(s) == collecting[s] = {} /\ upload[s] = None /\ up[s] = <<>>

\* The request, the collection and the upload follow one another.
UploadAt(s) ==
    IF receivers[s] = None THEN ask[s] = <<>> /\ Quiet(s)
    ELSE LET i == receivers[s].proxy
         IN  /\ proxy[i].first <=> proxy[i].mem = <<>>
             /\ \/ /\ \E k \in Kinds : ask[s] = <<Asked(k)>>
                   /\ Quiet(s) /\ proxy[i].mem = <<>>
                \/ /\ ask[s] = <<>> /\ \E k \in Kinds : collecting[s] = {k}
                   /\ upload[s] = None /\ up[s] = <<>> /\ proxy[i].mem = <<>>
                \/ /\ ask[s] = <<>> /\ collecting[s] = {}
                   /\ upload[s] # None => upload[s].file = buffer[s]
                   /\ Filled(up[s])
                   /\ \E b \in Opened(files) :
                        /\ Holds(files, s, b, proxy[i].mem, receivers[s].total)
                        /\ Walk(files, s, b, up[s], Upto(s))

\* The administrator has received b of the file that it was sent.
SessionAt(t, b) ==
    IF session[t] = None THEN b = Idle
    ELSE Holds(files, t[2], b, session[t].mem, session[t].total)

\* A relay is at e of a file of which the proxy has the first units.
RelayAt(t, e) ==
    IF transfers[t] = None THEN e = Idle
    ELSE /\ e \in Opened(files)
         /\ transfers[t].sent = e.pos /\ transfers[t].max = FileSize[e.file]
         /\ \E m \in 1..FileSize[e.file] : Source(t) = Part(t[2], e.file, 0, m)

\* What is on its way to the administrator takes it from where it is to where the
\* relay is.
Relaying(t) ==
    IF t[1] \notin online THEN down[t] = <<>>
    ELSE t[2] \notin late =>
         /\ back[t] = <<>>
         /\ \E b, e \in Places(files) :
              SessionAt(t, b) /\ RelayAt(t, e) /\ Walk(files, t[2], b, down[t], e)

\* All of a transfer, from the request to the file saved.
WholeInv ==
    /\ \A s \in Suspects \ late : UploadAt(s)
    /\ \A t \in Pairs : Relaying(t)
    /\ SavedFilesAreWhole

\* None is no size and no session.
NoneIsNothing ==
    None \notin Nat \cup [proxy : ProxyIds, total : Nat]
                    \cup [proxy : ProxyIds, sent : Nat, max : Nat]
                    \cup [file : 1..Len(FileSize), sent : Nat]
                    \cup [mem : Contents, total : Nat]

\* A client has MAX_PLAYERS_COUNT receivers, one for each player
\* (m_client_receiver_cbs[MAX_PLAYERS_COUNT], game_cl_mp.h:311).
EnoughBinders == IsFiniteSet(Suspects) /\ Cardinality(Suspects) <= Binders

\* A unit of the n-th file of s.
Marks(s, n) == [from : {s}, file : {n}, pos : Nat]
Mark(s, n, i) == [from |-> s, file |-> n, pos |-> i]

\* A part is a sequence of the units it names.
LEMMA PartProperties ==
    ASSUME NEW s, NEW n, NEW p \in Nat, NEW q \in Nat, p <= q
    PROVE  /\ Part(s, n, p, q) \in Seq(Marks(s, n))
           /\ Len(Part(s, n, p, q)) = q - p
           /\ \A i \in 1..(q - p) : Part(s, n, p, q)[i] = Mark(s, n, p + i)
<1>. DEFINE m == q - p
            f == [i \in 1..m |-> Mark(s, n, p + i)]
<1>1. m \in Nat
  OBVIOUS
<1>2. \A i \in Nat : Mark(s, n, i) \in Marks(s, n)
  BY DEF Mark, Marks
<1>3. Part(s, n, p, q) = f
  BY DEF Part, Mark
<1>. HIDE DEF m
<1>4. \A i \in 1..m : p + i \in Nat
  BY <1>1
<1>5. f \in Seq(Marks(s, n)) /\ Len(f) = m /\ \A i \in 1..m : f[i] = Mark(s, n, p + i)
  BY <1>1, <1>2, <1>4
<1>. QED  BY <1>3, <1>5 DEF m

LEMMA PrefixProperties ==
    ASSUME NEW s, NEW n, NEW q \in Nat
    PROVE  /\ Part(s, n, 0, q) \in Seq(Marks(s, n))
           /\ Len(Part(s, n, 0, q)) = q
           /\ \A i \in 1..q : Part(s, n, 0, q)[i] = Mark(s, n, i)
<1>1. /\ Part(s, n, 0, q) \in Seq(Marks(s, n))
      /\ Len(Part(s, n, 0, q)) = q - 0
      /\ \A i \in 1..(q - 0) : Part(s, n, 0, q)[i] = Mark(s, n, 0 + i)
  <2>1. 0 \in Nat /\ 0 <= q
    OBVIOUS
  <2>. QED  BY <2>1, PartProperties
<1>2. q - 0 = q /\ \A i \in 1..q : 0 + i = i
  OBVIOUS
<1>. QED  BY <1>1, <1>2

\* Only a part without units is empty.
LEMMA PartEmpty ==
    ASSUME NEW s, NEW n, NEW p \in Nat, NEW q \in Nat, p <= q
    PROVE  Part(s, n, p, q) = <<>> <=> p = q
<1>1. Part(s, n, p, q) \in Seq(Marks(s, n)) /\ Len(Part(s, n, p, q)) = q - p
  BY PartProperties
<1>2. Part(s, n, p, q) # <<>> => Len(Part(s, n, p, q)) \in Nat \ {0}
  BY <1>1, EmptySeq
<1>3. Part(s, n, p, q) = <<>> => Len(Part(s, n, p, q)) = 0
  BY EmptySeq
<1>. QED  BY <1>1, <1>2, <1>3

\* A part after the units before it.
LEMMA PartJoin ==
    ASSUME NEW s, NEW n, NEW p \in Nat, NEW q \in Nat, p <= q
    PROVE  Part(s, n, 0, p) \o Part(s, n, p, q) = Part(s, n, 0, q)
<1>. DEFINE E == Marks(s, n)
            a == Part(s, n, 0, p)
            b == Part(s, n, p, q)
            c == Part(s, n, 0, q)
<1>1. /\ a \in Seq(E) /\ Len(a) = p
      /\ \A i \in 1..p : a[i] = Mark(s, n, i)
  BY PrefixProperties
<1>2. /\ b \in Seq(E) /\ Len(b) = q - p
      /\ \A i \in 1..(q - p) : b[i] = Mark(s, n, p + i)
  BY PartProperties, Zenon
<1>3. /\ c \in Seq(E) /\ Len(c) = q
      /\ \A i \in 1..q : c[i] = Mark(s, n, i)
  BY PrefixProperties
<1>. HIDE DEF a, b, c, E
<1>4. /\ a \o b \in Seq(E) /\ Len(a \o b) = Len(a) + Len(b)
      /\ \A i \in 1..Len(a) + Len(b) :
           (a \o b)[i] = IF i <= Len(a) THEN a[i] ELSE b[i - Len(a)]
  BY <1>1, <1>2, ConcatProperties
<1>5. ASSUME NEW i \in 1..q
      PROVE  (a \o b)[i] = c[i]
  <2>1. /\ Len(a) + Len(b) = q /\ i \in 1..Len(a) + Len(b)
        /\ i <= p => i \in 1..p
        /\ ~(i <= p) => i - p \in 1..(q - p) /\ p + (i - p) = i
    BY <1>1, <1>2
  <2>2. (a \o b)[i] = IF i <= p THEN a[i] ELSE b[i - p]
    BY <1>1, <1>4, <2>1
  <2>3. c[i] = Mark(s, n, i)
    BY <1>3
  <2>4. CASE i <= p
    BY <1>1, <2>1, <2>2, <2>3, <2>4
  <2>5. CASE ~(i <= p)
    BY <1>2, <2>1, <2>2, <2>3, <2>5
  <2>. QED  BY <2>4, <2>5
<1>6. a \o b = c
  <2>1. Len(a) + Len(b) = q
    BY <1>1, <1>2
  <2>2. Len(a \o b) = Len(c)
    BY <1>3, <1>4, <2>1
  <2>3. \A i \in 1..Len(a \o b) : (a \o b)[i] = c[i]
    BY <1>4, <1>5, <2>1
  <2>. QED  BY <1>3, <1>4, <2>2, <2>3, SeqEqual
<1>. QED  BY <1>6 DEF a, b, c

\* Units say of which file they are.
LEMMA PartSame ==
    ASSUME NEW s, NEW m, NEW n, NEW p \in Nat \ {0}, NEW q \in Nat,
           Part(s, m, 0, p) = Part(s, n, 0, q)
    PROVE  m = n
<1>1. p = q
  BY PrefixProperties
<1>2. 1 \in 1..p
  OBVIOUS
<1>3. Mark(s, m, 1) = Mark(s, n, 1)
  BY <1>1, <1>2, PrefixProperties
<1>. QED  BY <1>3 DEF Mark

\* What a relay reads of a memory file is a part.
LEMMA PartCut ==
    ASSUME NEW s, NEW n, NEW p \in Nat, NEW q \in Nat, NEW m \in Nat, p <= q, q <= m
    PROVE  SubSeq(Part(s, n, 0, m), p + 1, q) = Part(s, n, p, q)
<1>. DEFINE E == Marks(s, n)
            a == Part(s, n, 0, m)
            b == Part(s, n, p, q)
<1>1. /\ a \in Seq(E) /\ Len(a) = m
      /\ \A i \in 1..m : a[i] = Mark(s, n, i)
  BY PrefixProperties
<1>2. /\ b \in Seq(E) /\ Len(b) = q - p
      /\ \A i \in 1..(q - p) : b[i] = Mark(s, n, p + i)
  BY PartProperties, Zenon
<1>. HIDE DEF a, b, E
<1>3. p + 1 \in Nat /\ \A i \in (p + 1)..q : a[i] \in E
  BY <1>1, ElementOfSeq
<1>4. /\ SubSeq(a, p + 1, q) \in Seq(E)
      /\ Len(SubSeq(a, p + 1, q)) = q - p
      /\ \A i \in 1..(q - p) : SubSeq(a, p + 1, q)[i] = a[p + 1 + i - 1]
  BY <1>1, <1>3, SubSeqProperties
<1>5. \A i \in 1..(q - p) : SubSeq(a, p + 1, q)[i] = b[i]
  BY <1>1, <1>2, <1>4
<1>6. SubSeq(a, p + 1, q) = b
  BY <1>2, <1>4, <1>5, SeqEqual
<1>. QED  BY <1>6 DEF a, b
\* The next chunk of a file, taken by a receiver that holds what precedes it.
LEMMA ReceivePart ==
    ASSUME None \notin Nat, NEW s, NEW k \in 0..Len(FileSize), NEW b, NEW mem, NEW total,
           Holds(k, s, b, mem, total),
           NEW q \in b.pos..FileSize[b.file],
           NEW r \in Receive(mem, total, FileChunk(s, b.file, b.pos, q))
    PROVE  /\ r.mem = Part(s, b.file, 0, q) /\ r.total = FileSize[b.file]
           /\ r.done <=> q = FileSize[b.file]
<1>. DEFINE n == b.file
            c == FileChunk(s, n, b.pos, q)
<1>1. /\ n \in 1..Len(FileSize) /\ FileSize[n] \in Nat
      /\ b.pos \in Nat /\ q \in Nat /\ b.pos <= q
      /\ mem = Part(s, n, 0, b.pos)
      /\ b.pos # 0 => total = FileSize[n]
  BY FileSizeType DEF Holds, Opened
<1>2. c.size = (IF b.pos = 0 THEN FileSize[n] ELSE None) /\ c.units = Part(s, n, b.pos, q)
  BY DEF FileChunk, Chunk
<1>3. mem = <<>> <=> b.pos = 0
  <2>1. 0 \in Nat /\ 0 <= b.pos
    BY <1>1
  <2>. QED  BY <1>1, <2>1, PartEmpty
<1>4. r = Written(mem, FileSize[n], c.units)
  <2>0. r \in Receive(mem, total, c)
    OBVIOUS
  <2>. HIDE DEF n, c
  <2>1. CASE b.pos = 0
    <3>1. c.size # None /\ mem = <<>> /\ c.size = FileSize[n]
      BY <1>1, <1>2, <1>3, <2>1
    <3>. QED  BY <2>0, <3>1 DEF Receive
  <2>2. CASE b.pos # 0
    <3>0. c.size = None /\ mem # <<>>
      BY <1>2, <1>3, <2>2
    <3>1. r = Written(mem, total, <<>> \o c.units)
      BY <2>0, <3>0 DEF Receive
    <3>2. <<>> \o c.units = c.units
      BY <1>1, <1>2, PartProperties, ConcatEmptySeq
    <3>. QED  BY <1>1, <2>2, <3>1, <3>2
  <2>. QED  BY <2>1, <2>2
<1>5. mem \o c.units = Part(s, n, 0, q) /\ Len(Part(s, n, 0, q)) = q
  <2>. HIDE DEF n, c
  <2>1. Part(s, n, 0, b.pos) \o Part(s, n, b.pos, q) = Part(s, n, 0, q)
    BY <1>1, PartJoin, Zenon
  <2>2. Len(Part(s, n, 0, q)) = q
    BY <1>1, PrefixProperties, Zenon
  <2>. QED  BY <1>1, <1>2, <2>1, <2>2
<1>. HIDE DEF c
<1>. QED  BY <1>1, <1>4, <1>5 DEF Written

(***************************************************************************)
(* Walks.                                                                  *)
(***************************************************************************)

\* A walk leads from place to place.
LEMMA WalkEnds ==
    ASSUME NEW k, NEW s, NEW b, NEW e, NEW T, NEW c \in Seq(T), Walk(k, s, b, c, e)
    PROVE  b \in Places(k) /\ e \in Places(k)
<1>1. Len(c) \in Nat
  BY LenProperties
<1>2. 1 \in 1..(Len(c) + 1) /\ Len(c) + 1 \in 1..(Len(c) + 1)
  BY <1>1
<1>. QED  BY <1>2 DEF Walk

LEMMA WalkEmpty ==
    ASSUME NEW k, NEW s, NEW b \in Places(k), NEW e
    PROVE  Walk(k, s, b, <<>>, e) <=> e = b
<1>1. Len(<<>>) = 0 /\ 0 + 1 = 1 /\ 1..0 = {}
  BY EmptySeq
<1>2. Walk(k, s, b, <<>>, e) => e = b
  BY <1>1 DEF Walk
<1>3. Walk(k, s, b, <<>>, b)
  <2>. DEFINE w == [j \in 1..1 |-> b]
  <2>1. w \in [1..1 -> Places(k)] /\ w[1] = b
    OBVIOUS
  <2>. QED  BY <1>1, <2>1 DEF Walk
<1>. QED  BY <1>2, <1>3

\* A packet appended to a channel prolongs the walk at its end,
LEMMA WalkAppend ==
    ASSUME NEW k, NEW s, NEW b, NEW e, NEW T, NEW c \in Seq(T), NEW p \in T,
           Walk(k, s, b, c, e), NEW f \in Places(k), Follows(k, s, e, p, f)
    PROVE  Walk(k, s, b, Append(c, p), f)
<1>. DEFINE m == Len(c)
            d == Append(c, p)
<1>1. /\ m \in Nat /\ Len(d) = m + 1
      /\ \A j \in 1..m : d[j] = c[j]
      /\ d[m + 1] = p
  BY LenProperties, AppendProperties
<1>2. PICK w \in [1..(m + 1) -> Places(k)] :
        /\ w[1] = b /\ w[m + 1] = e
        /\ \A j \in 1..m : Follows(k, s, w[j], c[j], w[j + 1])
  BY DEF Walk
<1>. DEFINE v == [j \in 1..(m + 1 + 1) |-> IF j = m + 1 + 1 THEN f ELSE w[j]]
<1>. HIDE DEF m, d
<1>3. v \in [1..(m + 1 + 1) -> Places(k)]
  <2>1. \A j \in 1..(m + 1 + 1) : j # m + 1 + 1 => j \in 1..(m + 1)
    BY <1>1
  <2>. QED  BY <1>2, <2>1
<1>4. v[1] = b /\ v[m + 1 + 1] = f
  <2>1. 1 \in 1..(m + 1 + 1) /\ m + 1 + 1 \in 1..(m + 1 + 1) /\ 1 # m + 1 + 1
    BY <1>1
  <2>. QED  BY <1>2, <2>1
<1>5. ASSUME NEW j \in 1..(m + 1)
      PROVE  Follows(k, s, v[j], d[j], v[j + 1])
  <2>1. /\ j \in 1..(m + 1 + 1) /\ j + 1 \in 1..(m + 1 + 1) /\ j # m + 1 + 1
        /\ j # m + 1 => j \in 1..m /\ j + 1 # m + 1 + 1
    BY <1>1
  <2>2. CASE j = m + 1
    <3>1. v[j] = e /\ v[j + 1] = f /\ d[j] = p
      BY <1>1, <1>2, <2>1, <2>2
    <3>. HIDE DEF v
    <3>. QED  BY <3>1
  <2>3. CASE j # m + 1
    <3>1. v[j] = w[j] /\ v[j + 1] = w[j + 1] /\ d[j] = c[j]
      BY <1>1, <2>1, <2>3
    <3>. HIDE DEF v
    <3>. QED  BY <1>2, <2>1, <2>3, <3>1
  <2>. QED  BY <2>2, <2>3
<1>. HIDE DEF v
<1>6. Len(d) + 1 = m + 1 + 1 /\ Len(d) = m + 1
  BY <1>1
<1>7. Walk(k, s, b, d, f)
  BY <1>3, <1>4, <1>5, <1>6 DEF Walk
<1>. QED  BY <1>7 DEF d

\* and a packet taken off shortens it at its beginning.
LEMMA WalkHead ==
    ASSUME NEW k, NEW s, NEW b, NEW e, NEW T, NEW c \in Seq(T), c # <<>>,
           Walk(k, s, b, c, e)
    PROVE  \E f \in Places(k) :
             Follows(k, s, b, Head(c), f) /\ Walk(k, s, f, Tail(c), e)
<1>. DEFINE m == Len(c)
            d == Tail(c)
<1>1. /\ m \in Nat \ {0} /\ Len(d) = m - 1 /\ Head(c) = c[1]
      /\ \A j \in 1..(m - 1) : d[j] = c[j + 1]
  BY EmptySeq, HeadTailProperties
<1>2. PICK w \in [1..(m + 1) -> Places(k)] :
        /\ w[1] = b /\ w[m + 1] = e
        /\ \A j \in 1..m : Follows(k, s, w[j], c[j], w[j + 1])
  BY DEF Walk
<1>. DEFINE v == [j \in 1..m |-> w[j + 1]]
<1>. HIDE DEF m, d
<1>3. v \in [1..m -> Places(k)] /\ v[1] = w[2] /\ v[m] = e
  <2>1. /\ \A j \in 1..m : j + 1 \in 1..(m + 1)
        /\ 1 \in 1..m /\ 1 + 1 = 2 /\ m \in 1..m
    BY <1>1
  <2>. QED  BY <1>2, <2>1
<1>4. w[2] \in Places(k) /\ Follows(k, s, b, Head(c), w[2])
  <2>1. 1 \in 1..m /\ 1 + 1 = 2 /\ 2 \in 1..(m + 1)
    BY <1>1
  <2>. QED  BY <1>1, <1>2, <2>1
<1>5. ASSUME NEW j \in 1..(m - 1)
      PROVE  Follows(k, s, v[j], d[j], v[j + 1])
  <2>1. j \in 1..m /\ j + 1 \in 1..m
    BY <1>1
  <2>2. v[j] = w[j + 1] /\ v[j + 1] = w[j + 1 + 1] /\ d[j] = c[j + 1]
    BY <1>1, <2>1
  <2>. HIDE DEF v
  <2>. QED  BY <1>2, <2>1, <2>2
<1>. HIDE DEF v
<1>6. Len(d) + 1 = m
  BY <1>1
<1>7. Walk(k, s, w[2], d, e)
  BY <1>1, <1>3, <1>5, <1>6 DEF Walk
<1>. QED  BY <1>4, <1>7 DEF d

\* As more files are collected a walk stays one.
LEMMA MorePlaces ==
    ASSUME NEW k \in Nat, NEW l \in Nat, k <= l
    PROVE  Opened(k) \subseteq Opened(l) /\ Places(k) \subseteq Places(l)
BY DEF Opened, Places

\* More files do not disturb a walk.
LEMMA WalkMore ==
    ASSUME NEW k \in Nat, NEW l \in Nat, k <= l,
           NEW s, NEW b, NEW c, NEW e, Walk(k, s, b, c, e)
    PROVE  Walk(l, s, b, c, e)
<1>1. PICK w \in [1..(Len(c) + 1) -> Places(k)] :
        /\ w[1] = b /\ w[Len(c) + 1] = e
        /\ \A j \in 1..Len(c) : Follows(k, s, w[j], c[j], w[j + 1])
  BY DEF Walk
<1>2. Opened(k) \subseteq Opened(l) /\ Places(k) \subseteq Places(l)
  BY MorePlaces
<1>3. w \in [1..(Len(c) + 1) -> Places(l)]
  BY <1>1, <1>2
<1>4. \A j \in 1..Len(c) : Follows(l, s, w[j], c[j], w[j + 1])
  BY <1>1, <1>2 DEF Follows
<1>. QED  BY <1>1, <1>3, <1>4 DEF Walk

LEMMA HoldsMore ==
    ASSUME NEW k \in Nat, NEW l \in Nat, k <= l,
           NEW s, NEW b, NEW mem, NEW total, Holds(k, s, b, mem, total)
    PROVE  Holds(l, s, b, mem, total)
BY MorePlaces DEF Holds

(***************************************************************************)
(* What a step leaves alone.                                               *)
(***************************************************************************)

\* No packet is mistaken for another.
LEMMA PacketsDiffer ==
    /\ Abort # Response
    /\ \A n, u : Chunk(n, u) # Abort /\ Chunk(n, u) # Response
    /\ \A c \in Chunks : c # Abort /\ c # Response
    /\ \A k : Asked(k) # Reject
<1>1. \A n, u : Chunk(n, u).cmd = "receive_data"
  BY DEF Chunk
<1>2. \A k : Asked(k).cmd = "request"
  BY DEF Asked
<1>3. /\ Abort.cmd = "abort_receive" /\ Response.cmd = "response"
      /\ Reject.cmd = "receive_rejected"
  BY DEF Abort, Response, Reject
<1>4. \A c \in Chunks : c.cmd = "receive_data"
  BY DEF Chunks
<1>. QED  BY <1>1, <1>2, <1>3, <1>4

\* A channel with a walk holds chunks and responses only.
LEMMA FollowsPacket ==
    ASSUME NEW k, NEW s, NEW b, NEW p, NEW e, Follows(k, s, b, p, e)
    PROVE  /\ p # Abort
           /\ p # Response =>
                /\ b \in Opened(k)
                /\ \E q \in b.pos..FileSize[b.file] :
                     p = FileChunk(s, b.file, b.pos, q) /\ e = After(b.file, q)
           /\ p = Response =>
                \/ b = Idle /\ e \in Opened(k) /\ e.pos = 0
                \/ b \in Opened(k) /\ e = b
BY PacketsDiffer DEF Follows, FileChunk

LEMMA IdleIsClosed ==
    ASSUME NEW k \in Nat
    PROVE  Idle \notin Opened(k)
BY DEF Idle, Opened

\* The last chunk ends a transfer.
LEMMA AfterType ==
    ASSUME NEW k \in 0..Len(FileSize), NEW n \in 1..k, NEW q \in 0..FileSize[n]
    PROVE  /\ After(n, q) \in Places(k)
           /\ q # FileSize[n] => After(n, q) \in Opened(k)
BY FileSizeType DEF After, Places, Opened

SameSuspect(s) ==
    /\ receivers'[s] = receivers[s]
    /\ receivers[s] # None =>
         /\ proxy'[receivers[s].proxy].mem = proxy[receivers[s].proxy].mem
         /\ proxy'[receivers[s].proxy].first = proxy[receivers[s].proxy].first
    /\ ask'[s] = ask[s] /\ collecting'[s] = collecting[s]
    /\ buffer'[s] = buffer[s] /\ upload'[s] = upload[s] /\ up'[s] = up[s]

SamePair(t) ==
    /\ session'[t] = session[t] /\ transfers'[t] = transfers[t]
    /\ transfers[t] # None =>
         proxy'[transfers[t].proxy].mem = proxy[transfers[t].proxy].mem
    /\ down'[t] = down[t] /\ back'[t] = back[t]

Later == /\ late \subseteq late' /\ files \in 0..Len(FileSize)
         /\ files' \in 0..Len(FileSize) /\ files <= files'

\* No more files were collected than there are sizes for.
LEMMA FilesType ==
    ASSUME TypeOK
    PROVE  files \in 0..Len(FileSize)
BY FileSizeType DEF TypeOK

\* A suspect that a step leaves alone keeps its part of the invariant,
LEMMA SameUpload ==
    ASSUME NEW s \in Suspects, UploadAt(s), SameSuspect(s), Later
    PROVE  UploadAt(s)'
<1>1. /\ \A b \in Opened(files) : b \in Opened(files')
      /\ \A b, mem, total : Holds(files, s, b, mem, total) => Holds(files', s, b, mem, total)
      /\ \A b, c, e : Walk(files, s, b, c, e) => Walk(files', s, b, c, e)
  BY MorePlaces, HoldsMore, WalkMore, FileSizeType DEF Later
<1>2. Upto(s)' = Upto(s) /\ Quiet(s)' = Quiet(s)
  BY DEF SameSuspect, Upto, Quiet
<1>3. CASE receivers[s] = None
  BY <1>2, <1>3 DEF UploadAt, SameSuspect
<1>4. CASE receivers[s] # None
  <2>. DEFINE i == receivers[s].proxy
  <2>1. /\ receivers'[s] # None /\ receivers'[s].proxy = i
        /\ receivers'[s].total = receivers[s].total
        /\ proxy'[i].mem = proxy[i].mem /\ proxy'[i].first = proxy[i].first
        /\ ask'[s] = ask[s] /\ collecting'[s] = collecting[s]
        /\ buffer'[s] = buffer[s] /\ upload'[s] = upload[s] /\ up'[s] = up[s]
    BY <1>4 DEF SameSuspect
  <2>. QED  BY <1>1, <1>2, <1>4, <2>1 DEF UploadAt
<1>. QED  BY <1>3, <1>4

\* and so do a pair,
LEMMA SameRelay ==
    ASSUME NEW t \in Pairs, Relaying(t), SamePair(t), Later,
           t[1] \in online' <=> t[1] \in online
    PROVE  Relaying(t)'
<1>1. /\ \A b \in Opened(files) : b \in Opened(files')
      /\ \A b \in Places(files) : b \in Places(files')
      /\ \A s, b, mem, total : Holds(files, s, b, mem, total) => Holds(files', s, b, mem, total)
      /\ \A s, b, c, e : Walk(files, s, b, c, e) => Walk(files', s, b, c, e)
  BY MorePlaces, HoldsMore, WalkMore, FileSizeType DEF Later
<1>2. \A b : SessionAt(t, b) => SessionAt(t, b)'
  BY <1>1 DEF SessionAt, SamePair
<1>3. \A e : RelayAt(t, e) => RelayAt(t, e)'
  BY <1>1 DEF RelayAt, SamePair, Source
<1>. QED  BY <1>1, <1>2, <1>3 DEF Relaying, SamePair, Later

\* and the files saved.
LEMMA SameSaved ==
    ASSUME SavedFilesAreWhole, saved' = saved, Later
    PROVE  SavedFilesAreWhole'
BY FileSizeType DEF SavedFilesAreWhole, WholeFile, Later

\* A step keeps the invariant if it does so for the suspects and the pairs that
\* it does not leave alone.
LEMMA StepOf ==
    ASSUME WholeInv, Later, UNCHANGED <<online, saved>>,
           \A s \in Suspects : s \in late' \/ SameSuspect(s) \/ UploadAt(s)',
           \A t \in Pairs : SamePair(t) \/ Relaying(t)'
    PROVE  WholeInv'
<1>1. ASSUME NEW s \in Suspects \ late' PROVE UploadAt(s)'
  <2>1. UploadAt(s)
    BY DEF WholeInv, Later
  <2>. QED  BY <2>1, SameUpload
<1>2. ASSUME NEW t \in Pairs PROVE Relaying(t)'
  <2>1. Relaying(t)
    BY DEF WholeInv
  <2>. QED  BY <2>1, SameRelay
<1>3. SavedFilesAreWhole'
  BY SameSaved DEF WholeInv
<1>. QED  BY <1>1, <1>2, <1>3 DEF WholeInv

(***************************************************************************)
(* The steps.                                                              *)
(***************************************************************************)

\* Nothing is under way at the start.
LEMMA WholeInit == Init => WholeInv
<1>. SUFFICES ASSUME Init PROVE WholeInv
  OBVIOUS
<1>1. \A s \in Suspects : UploadAt(s)
  BY DEF Init, UploadAt, Quiet
<1>2. ASSUME NEW t \in Pairs PROVE Relaying(t)
  <2>1. t[1] \in online /\ back[t] = <<>> /\ down[t] = <<>>
    BY DEF Init, Pairs
  <2>2. Idle \in Places(files) /\ SessionAt(t, Idle) /\ RelayAt(t, Idle)
    BY DEF Init, Places, SessionAt, RelayAt
  <2>3. Walk(files, t[2], Idle, <<>>, Idle)
    BY <2>2, WalkEmpty
  <2>. QED  BY <2>1, <2>2, <2>3 DEF Relaying
<1>3. SavedFilesAreWhole
  BY DEF Init, SavedFilesAreWhole
<1>. QED  BY <1>1, <1>2, <1>3 DEF WholeInv

\* One lemma for each action.
LEMMA MakeDataWhole ==
    ASSUME NoneIsNothing, IndInv, IndInv', WholeInv,
           NEW a \in Admins, NEW s \in Suspects, NEW k \in Kinds, MakeData(a, s, k)
    PROVE  WholeInv'
<1>1. PICK i \in ProxyIds :
        /\ Free(i)
        /\ IF s \notin online \/ receivers[s] # None
           THEN Turned(i, a, s) /\ UNCHANGED <<receivers, ask>>
           ELSE /\ Emptied(i, a, s)
                /\ \E n \in AnySize :
                     receivers' = [receivers EXCEPT
                         ![s] = [proxy |-> i, total |-> n]]
                /\ ask' = [ask EXCEPT ![s] = Append(@, Asked(k))]
  BY DEF MakeData
<1>2. /\ \A x \in Suspects : receivers[x] # None => receivers[x].proxy # i
      /\ \A t \in Pairs : transfers[t] # None => transfers[t].proxy # i
  BY <1>1, FreeProxy
<1>3. TypeOK /\ TypeOK'
  BY DEF IndInv
<1>4. /\ UNCHANGED <<transfers, collecting, buffer, upload, files, session, saved, up,
                     down, back, online, late>>
  BY DEF MakeData, suspects, admins
<1>5. \A j \in ProxyIds : j # i => proxy'[j] = proxy[j]
  <2>1. CASE Turned(i, a, s)
    BY <1>3, <2>1 DEF Turned, TypeOK
  <2>2. CASE Emptied(i, a, s)
    BY <1>3, <2>2 DEF Emptied, TypeOK
  <2>. QED  BY <1>1, <2>1, <2>2
<1>6. /\ \A x \in Suspects : receivers[x] # None => receivers[x].proxy \in ProxyIds \ {i}
      /\ \A t \in Pairs : transfers[t] # None => transfers[t].proxy \in ProxyIds \ {i}
  BY <1>2, <1>3 DEF TypeOK
<1>7. \A t \in Pairs : SamePair(t)
  BY <1>4, <1>5, <1>6 DEF SamePair
<1>8. Later
  BY <1>3, <1>4, FilesType DEF Later
<1>9. CASE s \notin online \/ receivers[s] # None
  <2>1. UNCHANGED <<receivers, ask>>
    BY <1>1, <1>9
  <2>2. \A x \in Suspects : SameSuspect(x)
    BY <1>4, <1>5, <1>6, <2>1 DEF SameSuspect
  <2>. QED  BY <1>4, <1>7, <1>8, <2>2, StepOf
<1>10. CASE ~(s \notin online \/ receivers[s] # None)
  <2>1. PICK n \in AnySize :
          receivers' = [receivers EXCEPT ![s] = [proxy |-> i, total |-> n]]
    BY <1>1, <1>10
  <2>2. /\ Emptied(i, a, s) /\ ask' = [ask EXCEPT ![s] = Append(@, Asked(k))]
        /\ receivers[s] = None
    BY <1>1, <1>10
  <2>3. /\ receivers'[s] = [proxy |-> i, total |-> n]
        /\ ask'[s] = Append(ask[s], Asked(k))
        /\ \A x \in Suspects \ {s} : receivers'[x] = receivers[x] /\ ask'[x] = ask[x]
    BY <1>3, <2>1, <2>2 DEF TypeOK
  <2>4. \A x \in Suspects \ {s} : SameSuspect(x)
    BY <1>4, <1>5, <1>6, <2>3 DEF SameSuspect
  <2>5. ASSUME s \notin late' PROVE UploadAt(s)'
    <3>1. ask[s] = <<>> /\ Quiet(s)
      BY <1>4, <2>2, <2>5 DEF WholeInv, UploadAt
    <3>2. receivers'[s] # None
      <4>1. n \in Nat
        BY ConstantsAssumption
      <4>. QED  BY <2>3, <4>1 DEF NoneIsNothing
    <3>3. ask'[s] = <<Asked(k)>> /\ Quiet(s)'
      BY <1>4, <2>3, <3>1 DEF Quiet
    <3>4. proxy'[i].first = TRUE /\ proxy'[i].mem = <<>>
      BY <1>3, <2>2 DEF Emptied, TypeOK
    <3>. QED  BY <2>3, <3>2, <3>3, <3>4 DEF UploadAt
  <2>. QED  BY <1>4, <1>7, <1>8, <2>4, <2>5, StepOf
<1>. QED  BY <1>9, <1>10

\* A suspect of which no session was cut short has not been told to stop, and
\* does not stop.
LEMMA UploadFacts ==
    ASSUME TypeOK, NEW s \in Suspects, UploadAt(s), up[s] # <<>>
    PROVE  /\ receivers[s] # None
           /\ Head(up[s]) # Abort
           /\ ask[s] = <<>> /\ collecting[s] = {}
           /\ proxy[receivers[s].proxy].first <=> proxy[receivers[s].proxy].mem = <<>>
           /\ upload[s] # None => upload[s].file = buffer[s]
           /\ Filled(up[s])
           /\ \E b \in Opened(files) :
                /\ Holds(files, s, b, proxy[receivers[s].proxy].mem, receivers[s].total)
                /\ Walk(files, s, b, up[s], Upto(s))
<1>1. up[s] \in Seq(Chunks \cup {Abort})
  BY DEF TypeOK
<1>2. receivers[s] # None
  BY DEF UploadAt, Quiet
<1>3. /\ ask[s] = <<>> /\ collecting[s] = {}
      /\ proxy[receivers[s].proxy].first <=> proxy[receivers[s].proxy].mem = <<>>
      /\ upload[s] # None => upload[s].file = buffer[s]
      /\ Filled(up[s])
      /\ \E b \in Opened(files) :
           /\ Holds(files, s, b, proxy[receivers[s].proxy].mem, receivers[s].total)
           /\ Walk(files, s, b, up[s], Upto(s))
  BY <1>2 DEF UploadAt, Quiet
<1>4. Head(up[s]) # Abort
  BY <1>1, <1>3, WalkHead, FollowsPacket
<1>. QED  BY <1>2, <1>3, <1>4

LEMMA ServerTimesOutWhole ==
    ASSUME IndInv, IndInv', WholeInv, ServerTimesOut
    PROVE  WholeInv'
<1>1. PICK S \in SUBSET Suspects :
        /\ StopReceive(S) /\ late' = late \cup S
        /\ UNCHANGED <<proxy, transfers, suspects, admins, up, down, back,
                       online, requests>>
  BY DEF ServerTimesOut
<1>2. Later
  BY <1>1, FilesType DEF Later, IndInv, suspects
<1>3. ASSUME NEW x \in Suspects, x \notin late' PROVE SameSuspect(x)
  <2>1. receivers'[x] = receivers[x] /\ ask'[x] = ask[x]
    BY <1>1, <1>3 DEF StopReceive
  <2>. QED  BY <1>1, <2>1 DEF SameSuspect, suspects
<1>4. \A t \in Pairs : SamePair(t)
  BY <1>1 DEF SamePair, admins
<1>5. UNCHANGED <<online, saved>>
  BY <1>1 DEF admins
<1>. QED  BY <1>2, <1>3, <1>4, <1>5, StepOf

LEMMA ServerOnAbortWhole ==
    ASSUME IndInv, IndInv', WholeInv, NEW s \in Suspects, ServerOnAbort(s)
    PROVE  WholeInv'
<1>1. TypeOK /\ TypeOK'
  BY DEF IndInv
<1>2. UNCHANGED <<proxy, transfers, collecting, buffer, upload, files, session, saved,
                  down, back, online, late>>
  BY DEF ServerOnAbort, suspects, admins
<1>3. s \in late
  BY <1>1, UploadFacts DEF WholeInv, ServerOnAbort, IsNext
<1>4. ASSUME NEW x \in Suspects \ {s} PROVE SameSuspect(x)
  <2>1. up'[x] = up[x]
    BY <1>1 DEF ServerOnAbort, TypeOK
  <2>2. receivers'[x] = receivers[x] /\ ask'[x] = ask[x]
    BY DEF ServerOnAbort, StopReceive
  <2>. QED  BY <1>2, <2>1, <2>2 DEF SameSuspect
<1>5. \A t \in Pairs : SamePair(t)
  BY <1>2 DEF SamePair
<1>6. Later
  BY <1>1, <1>2, FilesType DEF Later
<1>. QED  BY <1>2, <1>3, <1>4, <1>5, <1>6, StepOf

LEMMA ServerOnRejectWhole ==
    ASSUME IndInv, IndInv', WholeInv, NEW t \in Pairs, ServerOnReject(t)
    PROVE  WholeInv'
<1>1. TypeOK /\ TypeOK'
  BY DEF IndInv
<1>2. /\ UNCHANGED <<proxy, receivers, collecting, buffer, upload, files, session,
                     saved, ask, up, online, late>>
      /\ back[t] # <<>>
  BY DEF ServerOnReject, suspects, admins
<1>3. t[1] \notin online \/ t[2] \in late
  BY <1>2 DEF WholeInv, Relaying
<1>4. Relaying(t)'
  <2>1. CASE t[1] \notin online
    <3>1. Relaying(t)
      BY DEF WholeInv
    <3>2. down'[t] = down[t]
      BY <1>1, <2>1 DEF ServerOnReject, Sent, TypeOK
    <3>. QED  BY <1>2, <2>1, <3>1, <3>2 DEF Relaying
  <2>2. CASE t[1] \in online /\ t[2] \in late
    BY <1>2, <2>2 DEF Relaying
  <2>. QED  BY <1>3, <2>1, <2>2
<1>5. ASSUME NEW x \in Pairs \ {t} PROVE SamePair(x)
  <2>1. down'[x] = down[x] /\ back'[x] = back[x] /\ transfers'[x] = transfers[x]
    BY <1>1 DEF ServerOnReject, TypeOK
  <2>. QED  BY <1>2, <2>1 DEF SamePair
<1>6. \A x \in Suspects : SameSuspect(x)
  BY <1>2 DEF SameSuspect
<1>7. Later
  BY <1>1, <1>2, FilesType DEF Later
<1>. QED  BY <1>2, <1>4, <1>5, <1>6, <1>7, StepOf

\* A turn of the relay sends the next part of the file.
LEMMA RelayPart ==
    ASSUME TypeOK, RelayWithinFile, NEW t \in Pairs, transfers[t] # None,
           NEW e, RelayAt(t, e), NEW n \in Nat
    PROVE  \E q \in e.pos..FileSize[e.file] :
             /\ q = transfers[t].sent + Ready(t, n)
             /\ RelayChunk(t, n) = FileChunk(t[2], e.file, e.pos, q)
<1>1. /\ Len(Source(t)) \in Nat /\ Ready(t, n) \in Nat
      /\ transfers[t].sent + Ready(t, n) <= Len(Source(t))
  BY ReadyType
<1>2. /\ e.file \in 1..files /\ e.pos \in Nat
      /\ transfers[t].sent = e.pos /\ transfers[t].max = FileSize[e.file]
  BY DEF RelayAt, Opened
<1>3. PICK m \in 1..FileSize[e.file] : Source(t) = Part(t[2], e.file, 0, m)
  BY DEF RelayAt
<1>4. FileSize[e.file] \in Nat
  BY <1>2, FilesType, FileSizeType
<1>5. m \in Nat /\ m <= FileSize[e.file]
  BY <1>3, <1>4
<1>6. Len(Source(t)) = m
  BY <1>3, <1>5, PrefixProperties
<1>. DEFINE q == transfers[t].sent + Ready(t, n)
<1>7. q \in Nat /\ e.pos <= q /\ q <= m /\ q \in e.pos..FileSize[e.file]
  <2>1. q = e.pos + Ready(t, n) /\ q <= m
    BY <1>1, <1>2, <1>6
  <2>. DEFINE p == e.pos
              l == FileSize[e.file]
              d == Ready(t, n)
  <2>2. p \in Nat /\ l \in Nat /\ d \in Nat /\ m \in Nat /\ q = p + d /\ q <= m /\ m <= l
    BY <1>1, <1>2, <1>4, <1>5, <2>1
  <2>. HIDE DEF q, p, l, d
  <2>3. q \in Nat /\ p <= q /\ q <= l /\ q \in p..l
    BY <2>2
  <2>. QED  BY <2>1, <2>3 DEF p, l
<1>8. SubSeq(Source(t), e.pos + 1, q) = Part(t[2], e.file, e.pos, q)
  <2>. HIDE DEF q
  <2>. DEFINE p == e.pos
  <2>0. p \in Nat /\ m \in Nat /\ q \in Nat /\ p <= q /\ q <= m
    BY <1>2, <1>5, <1>7
  <2>. HIDE DEF p
  <2>1. SubSeq(Part(t[2], e.file, 0, m), p + 1, q) = Part(t[2], e.file, p, q)
    BY <2>0, PartCut
  <2>. QED  BY <1>3, <2>1 DEF p
<1>9. RelayChunk(t, n) = FileChunk(t[2], e.file, e.pos, q)
  <2>1. RelayChunk(t, n) = Chunk(IF e.pos = 0 THEN FileSize[e.file] ELSE None,
                                 SubSeq(Source(t), e.pos + 1, q))
    BY <1>2 DEF RelayChunk
  <2>. QED  BY <1>8, <2>1 DEF FileChunk
<1>. QED  BY <1>7, <1>9

LEMMA UpdateTransferWhole ==
    ASSUME NoneIsNothing, IndInv, IndInv', WholeInv, UpdateTransfer
    PROVE  WholeInv'
<1>1. TypeOK /\ TypeOK' /\ RelayWithinFile
  BY DEF IndInv
<1>2. PICK size \in [Pairs -> 1..MaxChunk] :
        /\ transfers' = [t \in Pairs |-> AfterTurn(t, size[t])]
        /\ down' = [t \in Pairs |->
             IF Served(t) THEN Append(down[t], RelayChunk(t, size[t]))
             ELSE down[t]]
        /\ UNCHANGED <<proxy, receivers, suspects, admins, ask, up, back,
                       online, requests, late>>
  BY DEF UpdateTransfer
<1>3. UNCHANGED <<proxy, receivers, collecting, buffer, upload, files, session, saved,
                  ask, up, back, online, late>>
  BY <1>2 DEF suspects, admins
<1>4. ASSUME NEW t \in Pairs PROVE SamePair(t) \/ Relaying(t)'
  <2>. DEFINE n == size[t]
  <2>1. /\ n \in Nat /\ transfers'[t] = AfterTurn(t, n)
        /\ down'[t] = IF Served(t) THEN Append(down[t], RelayChunk(t, n)) ELSE down[t]
    BY <1>2, ConstantsAssumption
  <2>. HIDE DEF n
  <2>2. Relaying(t)
    BY DEF WholeInv
  <2>3. CASE t[1] \notin online
    <3>1. ~Served(t)
      BY <2>3 DEF Served
    <3>. QED  BY <1>3, <2>1, <2>2, <2>3, <3>1 DEF Relaying
  <2>4. CASE t[1] \in online /\ t[2] \in late
    BY <1>3, <2>4 DEF Relaying
  <2>5. CASE t[1] \in online /\ ~Served(t)
    <3>1. transfers'[t] = transfers[t] /\ down'[t] = down[t]
      BY <2>1, <2>5 DEF AfterTurn
    <3>. QED  BY <1>3, <3>1 DEF SamePair
  <2>6. CASE t[1] \in online /\ t[2] \notin late /\ Served(t)
    <3>1. PICK b \in Places(files), e \in Places(files) :
            SessionAt(t, b) /\ RelayAt(t, e) /\ Walk(files, t[2], b, down[t], e)
      BY <2>2, <2>6 DEF Relaying
    <3>2. /\ transfers[t] # None
          /\ transfers[t] \in [proxy : ProxyIds, sent : Nat, max : Nat]
      BY <1>1, <2>6 DEF Served, TypeOK
    <3>3. PICK q \in e.pos..FileSize[e.file] :
            /\ q = transfers[t].sent + Ready(t, n)
            /\ RelayChunk(t, n) = FileChunk(t[2], e.file, e.pos, q)
      BY <1>1, <2>1, <3>1, <3>2, RelayPart
    <3>4. /\ e \in Opened(files) /\ e.file \in 1..files /\ e.pos \in Nat
          /\ transfers[t].max = FileSize[e.file]
          /\ FileSize[e.file] \in Nat /\ q \in Nat /\ q \in 0..FileSize[e.file]
          /\ files \in 0..Len(FileSize)
      <4>1. e \in Opened(files) /\ transfers[t].max = FileSize[e.file]
        BY <3>1, <3>2 DEF RelayAt
      <4>2. e.file \in 1..files /\ e.pos \in Nat /\ files \in 0..Len(FileSize)
        BY <1>1, <4>1, FilesType DEF Opened
      <4>3. FileSize[e.file] \in Nat
        BY <4>2, FileSizeType
      <4>. QED  BY <4>1, <4>2, <4>3
    <3>. DEFINE f == After(e.file, q)
    <3>5. f \in Places(files) /\ (q # FileSize[e.file] => f \in Opened(files))
      BY <3>4, AfterType
    <3>6. Follows(files, t[2], e, RelayChunk(t, n), f)
      BY <3>3, <3>4 DEF Follows
    <3>7. Walk(files, t[2], b, Append(down[t], RelayChunk(t, n)), f)
      <4>1. down[t] \in Seq(Chunks \cup {Abort, Response})
        BY <1>1 DEF TypeOK
      <4>2. RelayChunk(t, n) \in Chunks \cup {Abort, Response}
        BY <1>1, <2>1, <3>2, RelayChunkType
      <4>. HIDE DEF f
      <4>. QED  BY <3>1, <3>5, <3>6, <4>1, <4>2, WalkAppend
    <3>8. RelayAt(t, f)'
      <4>1. CASE q = FileSize[e.file]
        <5>1. transfers'[t] = None /\ f = Idle
          BY <2>1, <2>6, <3>2, <3>3, <3>4, <4>1 DEF AfterTurn, After
        <5>. QED  BY <5>1 DEF RelayAt
      <4>2. CASE q # FileSize[e.file]
        <5>1. /\ transfers'[t] = [transfers[t] EXCEPT !.sent = q]
              /\ f = [file |-> e.file, pos |-> q]
          BY <2>1, <2>6, <3>2, <3>3, <3>4, <4>2 DEF AfterTurn, After
        <5>2. transfers'[t] # None
          <6>1. transfers'[t] \in [proxy : ProxyIds, sent : Nat, max : Nat]
            BY <3>2, <3>4, <5>1
          <6>. QED  BY <6>1 DEF NoneIsNothing
        <5>3. /\ transfers'[t].proxy = transfers[t].proxy
              /\ transfers'[t].sent = q /\ transfers'[t].max = FileSize[e.file]
          BY <3>2, <3>4, <5>1
        <5>4. Source(t)' = Source(t)
          BY <1>3, <5>3 DEF Source
        <5>5. \E m \in 1..FileSize[e.file] : Source(t)' = Part(t[2], e.file, 0, m)
          BY <3>1, <3>2, <5>4 DEF RelayAt
        <5>6. f \in Opened(files') /\ f.file = e.file /\ f.pos = q
          BY <1>3, <3>5, <4>2, <5>1
        <5>. HIDE DEF f
        <5>. QED  BY <5>2, <5>3, <5>5, <5>6 DEF RelayAt
      <4>. QED  BY <4>1, <4>2
    <3>9. SessionAt(t, b)'
      BY <1>3, <3>1 DEF SessionAt
    <3>10. back'[t] = <<>> /\ down'[t] = Append(down[t], RelayChunk(t, n))
      BY <1>3, <2>1, <2>2, <2>6 DEF Relaying
    <3>. HIDE DEF f
    <3>11. /\ b \in Places(files') /\ f \in Places(files')
           /\ Walk(files', t[2], b, down'[t], f)
      BY <1>3, <3>1, <3>5, <3>7, <3>10
    <3>12. Relaying(t)'
      BY <1>3, <2>6, <3>8, <3>9, <3>10, <3>11 DEF Relaying
    <3>. QED  BY <3>12
  <2>. QED  BY <2>3, <2>4, <2>5, <2>6
<1>5. \A x \in Suspects : SameSuspect(x)
  BY <1>3 DEF SameSuspect
<1>6. Later
  BY <1>1, <1>3, FilesType DEF Later
<1>. QED  BY <1>3, <1>4, <1>5, <1>6, StepOf

\* A chunk of the upload is the next part of the file, and one more unit at least.
LEMMA UploadPart ==
    ASSUME NoneIsNothing, TypeOK, NEW s \in Suspects, UploadAt(s), up[s] # <<>>,
           NEW r \in Receive(proxy[receivers[s].proxy].mem, receivers[s].total, Head(up[s]))
    PROVE  \E b \in Opened(files) : \E q \in (b.pos + 1)..FileSize[b.file] :
             /\ proxy[receivers[s].proxy].mem = Part(s, b.file, 0, b.pos)
             /\ r.mem = Part(s, b.file, 0, q) /\ r.total = FileSize[b.file]
             /\ r.done <=> q = FileSize[b.file]
             /\ Walk(files, s, After(b.file, q), Tail(up[s]), Upto(s))
<1>. DEFINE i == receivers[s].proxy
<1>1. /\ up[s] \in Seq(Chunks \cup {Abort}) /\ files \in 0..Len(FileSize)
      /\ None \notin Nat
  BY FilesType DEF TypeOK, NoneIsNothing
<1>2. PICK b \in Opened(files) :
        /\ Holds(files, s, b, proxy[i].mem, receivers[s].total)
        /\ Walk(files, s, b, up[s], Upto(s))
  BY UploadFacts
<1>3. PICK f \in Places(files) :
        Follows(files, s, b, Head(up[s]), f) /\ Walk(files, s, f, Tail(up[s]), Upto(s))
  BY <1>1, <1>2, WalkHead
<1>4. Head(up[s]) # Response /\ Head(up[s]).units # <<>>
  <2>1. Head(up[s]) # Response
    <3>1. Head(up[s]) \in Chunks \cup {Abort}
      BY <1>1, RestType
    <3>. QED  BY <3>1, PacketsDiffer
  <2>2. Len(up[s]) \in Nat \ {0} /\ Head(up[s]) = up[s][1]
    BY <1>1, EmptySeq
  <2>3. 1 \in 1..Len(up[s]) /\ Filled(up[s])
    BY <2>2, UploadFacts
  <2>. QED  BY <2>1, <2>2, <2>3 DEF Filled
<1>5. PICK q \in b.pos..FileSize[b.file] :
        Head(up[s]) = FileChunk(s, b.file, b.pos, q) /\ f = After(b.file, q)
  BY <1>3, <1>4, FollowsPacket
<1>6. /\ r.mem = Part(s, b.file, 0, q) /\ r.total = FileSize[b.file]
      /\ r.done <=> q = FileSize[b.file]
  <2>1. r \in Receive(proxy[i].mem, receivers[s].total, FileChunk(s, b.file, b.pos, q))
    BY <1>5
  <2>. HIDE DEF i
  <2>. QED  BY <1>1, <1>2, <2>1, ReceivePart
<1>7. q \in (b.pos + 1)..FileSize[b.file]
  <2>1. /\ b.pos \in Nat /\ b.file \in 1..Len(FileSize) /\ FileSize[b.file] \in Nat
    BY <1>1, FileSizeType DEF Opened
  <2>2. q \in Nat /\ b.pos <= q /\ q <= FileSize[b.file]
    BY <2>1
  <2>3. Head(up[s]).units = Part(s, b.file, b.pos, q)
    BY <1>5 DEF FileChunk, Chunk
  <2>4. b.pos # q
    BY <1>4, <2>1, <2>2, <2>3, PartEmpty
  <2>. QED  BY <2>1, <2>2, <2>4
<1>8. proxy[i].mem = Part(s, b.file, 0, b.pos)
  BY <1>2 DEF Holds
<1>. QED  BY <1>3, <1>5, <1>6, <1>7, <1>8

\* After the last chunk nothing is left to send, before it the session goes on.
LEMMA ReceivedUpload ==
    ASSUME NoneIsNothing, IndInv, IndInv', WholeInv, NEW s \in Suspects, s \notin late,
           receivers[s] # None, up[s] # <<>>,
           ServerOnData(s)
    PROVE  UploadAt(s)'
<1>. DEFINE i == receivers[s].proxy
<1>1. TypeOK /\ TypeOK' /\ UploadAt(s)
  BY DEF IndInv, WholeInv
<1>2. PICK r \in Receive(proxy[i].mem, receivers[s].total, Head(up[s])) :
        /\ receivers' = [receivers EXCEPT
             ![s] = IF r.done THEN None ELSE [@ EXCEPT !.total = r.total]]
        /\ proxy' = [proxy EXCEPT ![i].mem = r.mem, ![i].first = FALSE]
  BY DEF ServerOnData, ServerReceives
<1>3. PICK b \in Opened(files) : \E q \in (b.pos + 1)..FileSize[b.file] :
        /\ proxy[receivers[s].proxy].mem = Part(s, b.file, 0, b.pos)
        /\ r.mem = Part(s, b.file, 0, q) /\ r.total = FileSize[b.file]
        /\ r.done <=> q = FileSize[b.file]
        /\ Walk(files, s, After(b.file, q), Tail(up[s]), Upto(s))
  BY <1>1, UploadPart
<1>4. PICK q \in (b.pos + 1)..FileSize[b.file] :
        /\ r.mem = Part(s, b.file, 0, q) /\ r.total = FileSize[b.file]
        /\ r.done <=> q = FileSize[b.file]
        /\ Walk(files, s, After(b.file, q), Tail(up[s]), Upto(s))
  BY <1>3
<1>5. /\ files \in 0..Len(FileSize) /\ b.file \in 1..files /\ b.pos \in Nat
      /\ FileSize[b.file] \in Nat /\ q \in 1..FileSize[b.file] /\ q \in Nat \ {0}
      /\ q \in 0..FileSize[b.file]
  <2>1. files \in 0..Len(FileSize) /\ b.file \in 1..files /\ b.pos \in Nat
    BY <1>1, FilesType DEF Opened
  <2>2. FileSize[b.file] \in Nat
    BY <2>1, FileSizeType
  <2>. QED  BY <2>1, <2>2
<1>6. /\ UNCHANGED <<collecting, buffer, upload, files, ask>>
      /\ up'[s] = Tail(up[s])
  BY <1>1 DEF ServerOnData, suspects, TypeOK
<1>7. /\ up[s] \in Seq(Chunks \cup {Abort}) /\ Tail(up[s]) \in Seq(Chunks \cup {Abort})
      /\ ask[s] = <<>> /\ collecting[s] = {}
      /\ upload[s] # None => upload[s].file = buffer[s]
      /\ Filled(up[s])
  <2>1. up[s] \in Seq(Chunks \cup {Abort})
    BY <1>1 DEF TypeOK
  <2>. QED  BY <1>1, <2>1, RestType, UploadFacts
<1>8. Upto(s)' = Upto(s)
  BY <1>6 DEF Upto
<1>9. /\ receivers[s] \in [proxy : ProxyIds, total : Nat] /\ i \in ProxyIds
      /\ receivers'[s] = IF r.done THEN None ELSE [receivers[s] EXCEPT !.total = r.total]
      /\ proxy'[i].mem = r.mem /\ proxy'[i].first = FALSE
  BY <1>1, <1>2 DEF TypeOK
<1>10. CASE q = FileSize[b.file]
  <2>1. receivers'[s] = None /\ After(b.file, q) = Idle
    BY <1>4, <1>9, <1>10 DEF After
  <2>2. Walk(files, s, Idle, Tail(up[s]), Upto(s))
    BY <1>4, <2>1
  <2>3. Tail(up[s]) = <<>>
    <3>. SUFFICES ASSUME Tail(up[s]) # <<>> PROVE FALSE
      OBVIOUS
    <3>1. PICK f : Follows(files, s, Idle, Head(Tail(up[s])), f)
      BY <1>7, <2>2, WalkHead
    <3>2. Head(Tail(up[s])) \in Chunks \cup {Abort}
      BY <1>7, RestType
    <3>3. Idle \in Opened(files)
      BY <3>1, <3>2, FollowsPacket, PacketsDiffer
    <3>. QED  BY <1>5, <3>3, IdleIsClosed
  <2>4. Upto(s) = Idle
    <3>1. Idle \in Places(files)
      BY DEF Places
    <3>2. Walk(files, s, Idle, <<>>, Upto(s))
      BY <2>2, <2>3
    <3>. QED  BY <3>1, <3>2, WalkEmpty, Zenon
  <2>5. upload[s] = None
    <3>1. upload[s] # None => upload[s].file # 0
      BY <1>1 DEF TypeOK
    <3>. QED  BY <2>4, <3>1 DEF Upto, Idle
  <2>. QED  BY <1>6, <1>7, <2>1, <2>3, <2>5 DEF UploadAt, Quiet
<1>11. CASE q # FileSize[b.file]
  <2>. DEFINE f == After(b.file, q)
  <2>1. receivers'[s] = [receivers[s] EXCEPT !.total = FileSize[b.file]]
    BY <1>4, <1>9, <1>11
  <2>2. /\ receivers'[s].proxy = i /\ receivers'[s].total = FileSize[b.file]
        /\ receivers'[s] # None
    <3>1. receivers'[s] \in [proxy : ProxyIds, total : Nat]
      BY <1>5, <1>9, <2>1
    <3>. QED  BY <1>9, <2>1, <3>1 DEF NoneIsNothing
  <2>3. f \in Opened(files) /\ f.file = b.file /\ f.pos = q
    BY <1>5, <1>11, AfterType DEF After
  <2>4. proxy'[i].mem # <<>>
    <3>1. Part(s, b.file, 0, q) # <<>>
      BY <1>5, PartEmpty
    <3>. QED  BY <1>4, <1>9, <3>1
  <2>5. Holds(files', s, f, proxy'[i].mem, receivers'[s].total)
    BY <1>4, <1>6, <1>9, <2>2, <2>3 DEF Holds
  <2>6. Walk(files', s, f, up'[s], Upto(s)')
    BY <1>4, <1>6, <1>8
  <2>7. Filled(up'[s])
    <3>1. /\ Len(up[s]) \in Nat /\ Len(Tail(up[s])) = Len(up[s]) - 1
          /\ \A j \in 1..Len(Tail(up[s])) : Tail(up[s])[j] = up[s][j + 1]
      BY <1>7, LenProperties, HeadTailProperties
    <3>2. \A j \in 1..Len(Tail(up[s])) : j + 1 \in 1..Len(up[s])
      BY <3>1
    <3>. QED  BY <1>6, <1>7, <3>1, <3>2 DEF Filled
  <2>. HIDE DEF f, i
  <2>8. f \in Opened(files')
    BY <1>6, <2>3
  <2>9. /\ proxy'[receivers'[s].proxy].first <=> proxy'[receivers'[s].proxy].mem = <<>>
        /\ Holds(files', s, f, proxy'[receivers'[s].proxy].mem, receivers'[s].total)
    BY <1>9, <2>2, <2>4, <2>5
  <2>. QED  BY <1>6, <1>7, <2>2, <2>6, <2>7, <2>8, <2>9 DEF UploadAt
<1>. QED  BY <1>10, <1>11

\* The relays of what has been received: one that runs has more to read, one
\* that starts finds the beginning of the file.
LEMMA RelayedPair ==
    ASSUME TypeOK, NEW i, NEW r, Relayed(i, r), NEW t \in Pairs
    PROVE  LET u == <<proxy[i].admin, proxy[i].suspect>>
           IN  /\ t # u => transfers'[t] = transfers[t] /\ down'[t] = down[t]
               /\ transfers[t] # None => transfers'[t] = transfers[t]
               /\ t = u /\ transfers[t] = None =>
                    transfers'[t] = [proxy |-> i, sent |-> 0, max |-> r.total]
               /\ t[1] \notin online => down'[t] = down[t]
               /\ t = u /\ t[1] \in online => down'[t] = Append(down[t], Response)
<1>. DEFINE u == <<proxy[i].admin, proxy[i].suspect>>
<1>1. /\ transfers' = [transfers EXCEPT ![u] = IF @ # None THEN @
                         ELSE [proxy |-> i, sent |-> 0, max |-> r.total]]
      /\ down' = [down EXCEPT ![u] = Sent(@, u[1], Response)]
  BY DEF Relayed
<1>2. /\ transfers \in [Pairs -> [proxy : ProxyIds, sent : Nat, max : Nat] \cup {None}]
      /\ down \in [Pairs -> Seq(Chunks \cup {Abort, Response})]
  BY DEF TypeOK
<1>. HIDE DEF u
<1>3. /\ transfers'[t] = IF t = u /\ transfers[t] = None
                         THEN [proxy |-> i, sent |-> 0, max |-> r.total]
                         ELSE transfers[t]
      /\ down'[t] = IF t = u THEN Sent(down[t], t[1], Response) ELSE down[t]
  BY <1>1, <1>2
<1>. QED  BY <1>3 DEF Sent, u

LEMMA ReceivedRelay ==
    ASSUME NoneIsNothing, IndInv, IndInv', WholeInv, NEW t \in Pairs,
           t[2] \notin late, t[1] \in online,
           receivers[t[2]] # None, up[t[2]] # <<>>, ServerOnData(t[2])
    PROVE  Relaying(t)'
<1>. DEFINE s == t[2]
            i == receivers[s].proxy
            u == <<proxy[i].admin, proxy[i].suspect>>
<1>1. /\ TypeOK /\ TypeOK' /\ OneUser /\ UploadAt(s) /\ Relaying(t) /\ s \in Suspects
      /\ t = <<t[1], s>> /\ t[1] \in Admins
  BY DEF IndInv, WholeInv, Pairs
<1>2. PICK r \in Receive(proxy[i].mem, receivers[s].total, Head(up[s])) :
        /\ proxy' = [proxy EXCEPT ![i].mem = r.mem, ![i].first = FALSE]
        /\ IF proxy[i].first THEN Relayed(i, r)
           ELSE UNCHANGED <<down, transfers>>
  BY DEF ServerOnData, ServerReceives
<1>3. PICK b \in Opened(files) : \E q \in (b.pos + 1)..FileSize[b.file] :
        /\ proxy[i].mem = Part(s, b.file, 0, b.pos)
        /\ r.mem = Part(s, b.file, 0, q) /\ r.total = FileSize[b.file]
  BY <1>1, UploadPart
<1>4. PICK q \in (b.pos + 1)..FileSize[b.file] :
        r.mem = Part(s, b.file, 0, q) /\ r.total = FileSize[b.file]
  BY <1>3
<1>. DEFINE n == b.file
<1>5. /\ files \in 0..Len(FileSize) /\ n \in 1..files /\ b.pos \in Nat
      /\ FileSize[n] \in Nat \ {0} /\ q \in 1..FileSize[n]
  <2>1. files \in 0..Len(FileSize) /\ n \in 1..files /\ b.pos \in Nat
    BY <1>1, FilesType DEF Opened
  <2>. HIDE DEF n
  <2>2. FileSize[n] \in Nat \ {0}
    <3>1. FileSize[n] \in Nat /\ FileSize[n] > 0
      BY <2>1, FileSizeType
    <3>. QED  BY <3>1
  <2>3. q \in (b.pos + 1)..FileSize[n]
    BY DEF n
  <2>. QED  BY <2>1, <2>2, <2>3
<1>6. UNCHANGED <<files, session, back, online, late>>
  BY DEF ServerOnData, suspects, admins
<1>7. /\ i \in ProxyIds /\ proxy[i].suspect = s
      /\ proxy'[i].mem = r.mem /\ \A j \in ProxyIds : j # i => proxy'[j] = proxy[j]
  <2>1. i \in ProxyIds /\ proxy[i].suspect = s
    BY <1>1 DEF TypeOK, OneUser
  <2>2. proxy \in [ProxyIds -> [admin : Admins \cup {None}, suspect : Suspects \cup {None},
                               first : BOOLEAN, mem : Contents]]
    BY <1>1 DEF TypeOK
  <2>. HIDE DEF i
  <2>. QED  BY <1>2, <2>1, <2>2
<1>8. PICK c \in Places(files), e \in Places(files) :
        SessionAt(t, c) /\ RelayAt(t, e) /\ Walk(files, s, c, down[t], e)
  BY <1>1 DEF Relaying
<1>9. SessionAt(t, c)' /\ back'[t] = <<>>
  BY <1>1, <1>6, <1>8 DEF SessionAt, Relaying
<1>10. /\ transfers \in [Pairs -> [proxy : ProxyIds, sent : Nat, max : Nat] \cup {None}]
       /\ down \in [Pairs -> Seq(Chunks \cup {Abort, Response})]
  BY <1>1 DEF TypeOK
<1>. SUFFICES \E f \in Places(files) : RelayAt(t, f)' /\ Walk(files, s, c, down'[t], f)
  BY <1>6, <1>8, <1>9 DEF Relaying
<1>11. CASE transfers[t] # None
  <2>1. transfers'[t] = transfers[t] /\ transfers[t].proxy \in ProxyIds
    <3>1. CASE UNCHANGED transfers
      BY <1>10, <1>11, <3>1
    <3>2. CASE Relayed(i, r)
      <4>1. transfers'[t] = transfers[t]
        <5>. HIDE DEF i
        <5>. QED  BY <1>1, <1>11, <3>2, RelayedPair
      <4>. QED  BY <1>10, <1>11, <4>1
    <3>. QED  BY <1>2, <3>1, <3>2
  <2>2. e \in Opened(files)
    BY <1>8, <1>11 DEF RelayAt
  <2>3. RelayAt(t, e)'
    <3>1. \E m \in 1..FileSize[e.file] : Source(t)' = Part(s, e.file, 0, m)
      <4>1. PICK m \in 1..FileSize[e.file] : Source(t) = Part(s, e.file, 0, m)
        BY <1>8, <1>11 DEF RelayAt
      <4>2. CASE transfers[t].proxy = i
        <5>1. Part(s, e.file, 0, m) = Part(s, n, 0, b.pos) /\ m \in Nat \ {0}
          <6>1. FileSize[e.file] \in Nat
            BY <1>5, <2>2, FileSizeType DEF Opened
          <6>. QED  BY <1>3, <4>1, <4>2, <6>1 DEF Source
        <5>2. e.file = n
          BY <1>5, <5>1, PartSame
        <5>3. Source(t)' = Part(s, n, 0, q)
          BY <1>4, <1>7, <2>1, <4>2 DEF Source
        <5>. QED  BY <1>5, <5>2, <5>3
      <4>3. CASE transfers[t].proxy # i
        BY <1>7, <2>1, <4>1, <4>3 DEF Source
      <4>. QED  BY <4>2, <4>3
    <3>. QED  BY <1>6, <1>8, <1>11, <2>1, <2>2, <3>1 DEF RelayAt
  <2>4. Walk(files, s, c, down'[t], e)
    <3>1. down'[t] = down[t] \/ down'[t] = Append(down[t], Response)
      <4>1. CASE UNCHANGED down
        BY <4>1
      <4>2. CASE Relayed(i, r)
        <5>. HIDE DEF i
        <5>. QED  BY <1>1, <4>2, RelayedPair
      <4>. QED  BY <1>2, <4>1, <4>2
    <3>2. Walk(files, s, c, Append(down[t], Response), e)
      <4>1. Follows(files, s, e, Response, e)
        BY <2>2 DEF Follows
      <4>2. down[t] \in Seq(Chunks \cup {Abort, Response})
            /\ Response \in Chunks \cup {Abort, Response}
        BY <1>10
      <4>. QED  BY <1>8, <4>1, <4>2, WalkAppend
    <3>3. CASE down'[t] = down[t]
      BY <1>8, <3>3, Zenon
    <3>4. CASE down'[t] = Append(down[t], Response)
      BY <3>2, <3>4, Zenon
    <3>. QED  BY <3>1, <3>3, <3>4
  <2>. QED  BY <2>3, <2>4
<1>12. CASE transfers[t] = None /\ ~(proxy[i].first /\ u = t)
  <2>1. transfers'[t] = None /\ down'[t] = down[t]
    <3>1. CASE UNCHANGED <<down, transfers>>
      BY <1>12, <3>1
    <3>2. CASE proxy[i].first /\ Relayed(i, r)
      <4>1. u # t
        BY <1>12, <3>2
      <4>. HIDE DEF i
      <4>. QED  BY <1>1, <1>12, <3>2, <4>1, RelayedPair
    <3>. QED  BY <1>2, <3>1, <3>2
  <2>2. e = Idle
    BY <1>8, <1>12 DEF RelayAt
  <2>. QED  BY <1>8, <2>1, <2>2 DEF RelayAt
<1>13. CASE transfers[t] = None /\ proxy[i].first /\ u = t
  <2>. DEFINE f == [file |-> n, pos |-> 0]
  <2>1. f \in Opened(files) /\ f \in Places(files)
    BY <1>5 DEF Opened, Places
  <2>2. e = Idle
    BY <1>8, <1>13 DEF RelayAt
  <2>3. /\ transfers'[t] = [proxy |-> i, sent |-> 0, max |-> FileSize[n]]
        /\ down'[t] = Append(down[t], Response)
    <3>1. Relayed(i, r)
      BY <1>2, <1>13
    <3>2. r.total = FileSize[n]
      BY <1>4
    <3>. HIDE DEF i, n
    <3>. QED  BY <1>1, <1>13, <3>1, <3>2, RelayedPair
  <2>4. RelayAt(t, f)'
    <3>1. transfers'[t] # None
      <4>1. transfers'[t] \in [proxy : ProxyIds, sent : Nat, max : Nat]
        BY <1>5, <1>7, <2>3
      <4>. QED  BY <4>1 DEF NoneIsNothing
    <3>2. /\ transfers'[t].proxy = i /\ transfers'[t].sent = 0
          /\ transfers'[t].max = FileSize[n]
      BY <2>3
    <3>3. Source(t)' = Part(s, n, 0, q)
      BY <1>4, <1>7, <3>2 DEF Source
    <3>4. f \in Opened(files') /\ f.file = n /\ f.pos = 0
      BY <1>6, <2>1
    <3>. HIDE DEF f
    <3>. QED  BY <1>5, <3>1, <3>2, <3>3, <3>4 DEF RelayAt
  <2>5. Walk(files, s, c, Append(down[t], Response), f)
    <3>1. Follows(files, s, e, Response, f)
      BY <2>1, <2>2 DEF Follows
    <3>2. down[t] \in Seq(Chunks \cup {Abort, Response})
          /\ Response \in Chunks \cup {Abort, Response}
      BY <1>10
    <3>. HIDE DEF f
    <3>. QED  BY <1>8, <2>1, <3>1, <3>2, WalkAppend
  <2>. QED  BY <2>1, <2>3, <2>4, <2>5
<1>. QED  BY <1>11, <1>12, <1>13

LEMMA ServerOnDataWhole ==
    ASSUME NoneIsNothing, IndInv, IndInv', WholeInv, NEW s \in Suspects, ServerOnData(s)
    PROVE  WholeInv'
<1>1. TypeOK /\ TypeOK' /\ OneUser
  BY DEF IndInv
<1>2. UNCHANGED <<collecting, buffer, upload, files, session, saved, back, online, late>>
  BY DEF ServerOnData, suspects, admins
<1>3. Later
  BY <1>1, <1>2, FilesType DEF Later
<1>4. up[s] # <<>> /\ \A x \in Suspects \ {s} : up'[x] = up[x]
  BY <1>1 DEF ServerOnData, TypeOK
<1>5. CASE receivers[s] = None
  <2>1. UNCHANGED <<proxy, receivers, transfers, down>>
    BY <1>5 DEF ServerOnData, server
  <2>2. s \in late
    BY <1>1, <1>4, <1>5, UploadFacts DEF WholeInv
  <2>3. \A x \in Suspects \ {s} : ask'[x] = ask[x]
    BY <1>1, <1>5 DEF ServerOnData, TypeOK
  <2>4. \A x \in Suspects \ {s} : SameSuspect(x)
    BY <1>2, <1>4, <2>1, <2>3 DEF SameSuspect
  <2>5. \A t \in Pairs : SamePair(t)
    BY <1>2, <2>1 DEF SamePair
  <2>. QED  BY <1>2, <1>3, <2>2, <2>4, <2>5, StepOf
<1>6. CASE receivers[s] # None
  <2>. DEFINE i == receivers[s].proxy
              u == <<proxy[i].admin, proxy[i].suspect>>
  <2>1. PICK r \in Receive(proxy[i].mem, receivers[s].total, Head(up[s])) :
          /\ receivers' = [receivers EXCEPT
               ![s] = IF r.done THEN None ELSE [@ EXCEPT !.total = r.total]]
          /\ proxy' = [proxy EXCEPT ![i].mem = r.mem, ![i].first = FALSE]
          /\ IF proxy[i].first THEN Relayed(i, r)
             ELSE UNCHANGED <<down, transfers>>
    BY <1>6 DEF ServerOnData, ServerReceives
  <2>2. UNCHANGED ask
    BY <1>6 DEF ServerOnData
  <2>3. /\ i \in ProxyIds /\ proxy[i].suspect = s
        /\ \A j \in ProxyIds : j # i => proxy'[j] = proxy[j]
    BY <1>1, <1>6, <2>1 DEF TypeOK, OneUser
  <2>4. ASSUME NEW x \in Suspects \ {s} PROVE SameSuspect(x)
    <3>1. receivers'[x] = receivers[x]
      BY <1>1, <2>1 DEF TypeOK
    <3>2. receivers[x] # None => receivers[x].proxy \in ProxyIds /\ receivers[x].proxy # i
      BY <1>1, <2>3 DEF TypeOK, OneUser
    <3>. QED  BY <1>2, <1>4, <2>2, <2>3, <3>1, <3>2 DEF SameSuspect
  <2>5. s \notin late => UploadAt(s)'
    BY <1>4, <1>6, ReceivedUpload
  <2>6. ASSUME NEW t \in Pairs PROVE SamePair(t) \/ Relaying(t)'
    <3>1. /\ transfers \in [Pairs -> [proxy : ProxyIds, sent : Nat, max : Nat] \cup {None}]
          /\ down \in [Pairs -> Seq(Chunks \cup {Abort, Response})]
      BY <1>1 DEF TypeOK
    <3>2. CASE t[2] # s
      <4>1. u # t
        BY <2>3, <3>2
      <4>2. transfers'[t] = transfers[t] /\ down'[t] = down[t]
        <5>1. CASE UNCHANGED <<down, transfers>>
          BY <5>1
        <5>2. CASE Relayed(i, r)
          BY <1>1, <4>1, <5>2, RelayedPair
        <5>. QED  BY <2>1, <5>1, <5>2
      <4>3. transfers[t] # None =>
              transfers[t].proxy \in ProxyIds /\ transfers[t].proxy # i
        BY <1>1, <2>3, <3>1, <3>2 DEF OneUser
      <4>. QED  BY <1>2, <2>3, <4>2, <4>3 DEF SamePair
    <3>3. CASE t[1] \notin online
      <4>1. down'[t] = down[t]
        <5>1. CASE UNCHANGED down
          BY <5>1
        <5>2. CASE Relayed(i, r)
          BY <1>1, <3>3, <5>2, RelayedPair
        <5>. QED  BY <2>1, <5>1, <5>2
      <4>2. Relaying(t)
        BY DEF WholeInv
      <4>. QED  BY <1>2, <3>3, <4>1, <4>2 DEF Relaying
    <3>4. CASE t[1] \in online /\ t[2] \in late
      BY <1>2, <3>4 DEF Relaying
    <3>5. CASE t[2] = s /\ t[1] \in online /\ t[2] \notin late
      <4>1. Relaying(t)'
        BY <1>4, <1>6, <3>5, ReceivedRelay
      <4>. QED  BY <4>1
    <3>. QED  BY <3>2, <3>3, <3>4, <3>5
  <2>. QED  BY <1>2, <1>3, <2>4, <2>5, <2>6, StepOf
<1>. QED  BY <1>5, <1>6

LEMMA SuspectOnRequestWhole ==
    ASSUME IndInv, IndInv', WholeInv, NEW s \in Suspects, SuspectOnRequest(s)
    PROVE  WholeInv'
<1>1. TypeOK /\ TypeOK'
  BY DEF IndInv
<1>2. PICK k \in Kinds :
        /\ ask[s] # <<>> /\ Head(ask[s]) = Asked(k)
        /\ ask' = [ask EXCEPT ![s] = Tail(@)]
        /\ collecting' = [collecting EXCEPT ![s] = @ \cup {k}]
        /\ UNCHANGED <<server, buffer, upload, files, admins, up, down, back,
                       online, requests, late>>
  BY DEF SuspectOnRequest, IsNext
<1>3. UNCHANGED <<proxy, receivers, transfers, session, saved, buffer, upload, files,
                  up, down, back, online, late>>
  BY <1>2 DEF server, admins
<1>4. \A t \in Pairs : SamePair(t)
  BY <1>3 DEF SamePair
<1>5. ASSUME NEW x \in Suspects \ {s} PROVE SameSuspect(x)
  <2>1. ask'[x] = ask[x] /\ collecting'[x] = collecting[x]
    BY <1>1, <1>2 DEF TypeOK
  <2>. QED  BY <1>3, <2>1 DEF SameSuspect
<1>6. ASSUME s \notin late PROVE UploadAt(s)'
  <2>1. UploadAt(s)
    BY <1>6 DEF WholeInv
  <2>2. /\ receivers[s] # None /\ Quiet(s)
        /\ proxy[receivers[s].proxy].first <=> proxy[receivers[s].proxy].mem = <<>>
        /\ \E l \in Kinds : ask[s] = <<Asked(l)>>
        /\ proxy[receivers[s].proxy].mem = <<>>
    BY <1>2, <2>1 DEF UploadAt
  <2>3. ask'[s] = <<>>
    BY <1>1, <1>2, <2>2 DEF TypeOK
  <2>4. collecting'[s] = {k}
    BY <1>1, <1>2, <2>2 DEF TypeOK, Quiet
  <2>. QED  BY <1>3, <2>2, <2>3, <2>4 DEF UploadAt, Quiet
<1>7. Later
  BY <1>1, <1>3, FilesType DEF Later
<1>. QED  BY <1>3, <1>4, <1>5, <1>6, <1>7, StepOf

LEMMA SuspectOnRejectWhole ==
    ASSUME IndInv, IndInv', WholeInv, NEW s \in Suspects, SuspectOnReject(s)
    PROVE  WholeInv'
<1>1. TypeOK /\ TypeOK'
  BY DEF IndInv
<1>2. UNCHANGED <<proxy, receivers, transfers, collecting, buffer, files, session,
                  saved, down, back, online, late>>
  BY DEF SuspectOnReject, server, admins
<1>3. s \in late
  <2>. SUFFICES ASSUME s \notin late PROVE FALSE
    OBVIOUS
  <2>1. UploadAt(s) /\ ask[s] # <<>> /\ Head(ask[s]) = Reject
    BY DEF WholeInv, SuspectOnReject, IsNext
  <2>2. PICK k : ask[s] = <<Asked(k)>>
    BY <2>1 DEF UploadAt
  <2>3. Head(ask[s]) = Asked(k)
    BY <2>2
  <2>. QED  BY <2>1, <2>3, PacketsDiffer
<1>4. ASSUME NEW x \in Suspects \ {s} PROVE SameSuspect(x)
  <2>1. ask'[x] = ask[x] /\ upload'[x] = upload[x] /\ up'[x] = up[x]
    BY <1>1 DEF SuspectOnReject, TypeOK
  <2>. QED  BY <1>2, <2>1 DEF SameSuspect
<1>5. \A t \in Pairs : SamePair(t)
  BY <1>2 DEF SamePair
<1>6. Later
  BY <1>1, <1>2, FilesType DEF Later
<1>. QED  BY <1>2, <1>3, <1>4, <1>5, <1>6, StepOf

\* The next chunk of an upload, as long as the buffer holds the file.
LEMMA UploadChunkPart ==
    ASSUME NEW s, NEW n \in Nat, buffer[s] = upload[s].file, upload[s].sent \in Nat
    PROVE  UploadChunk(s, n) =
             FileChunk(s, upload[s].file, upload[s].sent, upload[s].sent + n)
<1>. DEFINE p == upload[s].sent
            f == upload[s].file
<1>1. \A i : UploadUnit(s, p + i) = Mark(s, f, p + i)
  BY DEF UploadUnit, Mark
<1>2. p + n \in Nat /\ (p + n) - p = n
  OBVIOUS
<1>3. [i \in 1..n |-> UploadUnit(s, p + i)] = Part(s, f, p, p + n)
  <2>. DEFINE m == (p + n) - p
  <2>1. m = n
    BY <1>2
  <2>. HIDE DEF m
  <2>2. [i \in 1..n |-> UploadUnit(s, p + i)] = [i \in 1..m |-> Mark(s, f, p + i)]
    <3>. HIDE DEF p, f
    <3>. QED  BY <1>1, <2>1
  <2>3. Part(s, f, p, p + n) = [i \in 1..m |-> Mark(s, f, p + i)]
    BY Zenon DEF Part, Mark, m
  <2>. QED  BY <2>2, <2>3
<1>. QED  BY <1>3 DEF UploadChunk, FileChunk

LEMMA SuspectSendsWhole ==
    ASSUME NoneIsNothing, IndInv, IndInv', WholeInv, NEW s \in Suspects, SuspectSends(s)
    PROVE  WholeInv'
<1>1. TypeOK /\ TypeOK'
  BY DEF IndInv
<1>2. PICK size \in 1..MaxChunk :
        LET rest == FileSize[upload[s].file] - upload[s].sent
            n    == SmallerOf(size, rest)
        IN  /\ up' = [up EXCEPT ![s] = Append(@, UploadChunk(s, n))]
            /\ upload' = [upload EXCEPT
                 ![s] = IF n = rest THEN None
                       ELSE [upload[s] EXCEPT !.sent = @ + n]]
  BY DEF SuspectSends
<1>3. UNCHANGED <<proxy, receivers, transfers, session, saved, collecting, buffer,
                  files, ask, down, back, online, late>>
  BY DEF SuspectSends, server, admins
<1>. DEFINE p == upload[s].sent
            f == upload[s].file
            l == FileSize[f]
            n == SmallerOf(size, l - p)
<1>4. /\ upload[s] # None /\ upload[s] \in [file : 1..Len(FileSize), sent : Nat]
      /\ f \in 1..Len(FileSize) /\ p \in Nat /\ p < l
  BY <1>1 DEF TypeOK, SuspectSends
<1>5. /\ l \in Nat /\ n \in Nat /\ n > 0 /\ p + n <= l
      /\ n = l - p <=> p + n = l
  <2>1. size \in Nat /\ size > 0 /\ l \in Nat
    <3>1. size \in Nat /\ size > 0
      BY ConstantsAssumption
    <3>2. l \in Nat
      <4>. HIDE DEF f
      <4>. QED  BY <1>4, FileSizeType
    <3>. QED  BY <3>1, <3>2
  <2>. HIDE DEF l, p
  <2>. QED  BY <1>4, <2>1 DEF SmallerOf
<1>6. /\ up'[s] = Append(up[s], UploadChunk(s, n))
      /\ upload'[s] = IF n = l - p THEN None ELSE [upload[s] EXCEPT !.sent = p + n]
      /\ \A x \in Suspects \ {s} : up'[x] = up[x] /\ upload'[x] = upload[x]
  <2>1. /\ up' = [up EXCEPT ![s] = Append(@, UploadChunk(s, n))]
        /\ upload' = [upload EXCEPT
             ![s] = IF n = l - p THEN None ELSE [upload[s] EXCEPT !.sent = @ + n]]
    BY <1>2
  <2>. HIDE DEF n, l
  <2>. QED  BY <1>1, <2>1 DEF TypeOK
<1>7. \A t \in Pairs : SamePair(t)
  BY <1>3 DEF SamePair
<1>8. \A x \in Suspects \ {s} : SameSuspect(x)
  BY <1>3, <1>6 DEF SameSuspect
<1>9. ASSUME s \notin late PROVE UploadAt(s)'
  <2>1. /\ receivers[s] # None /\ ask[s] = <<>> /\ collecting[s] = {}
        /\ proxy[receivers[s].proxy].first <=> proxy[receivers[s].proxy].mem = <<>>
        /\ f = buffer[s] /\ Filled(up[s])
    BY <1>4, <1>9 DEF WholeInv, UploadAt, Quiet
  <2>2. PICK b \in Opened(files) :
          /\ Holds(files, s, b, proxy[receivers[s].proxy].mem, receivers[s].total)
          /\ Walk(files, s, b, up[s], Upto(s))
    BY <1>4, <1>9 DEF WholeInv, UploadAt, Quiet
  <2>. DEFINE e == Upto(s)
              c == FileChunk(s, f, p, p + n)
              d == After(f, p + n)
  <2>3. e = [file |-> f, pos |-> p]
    BY <1>4 DEF Upto
  <2>4. up[s] \in Seq(Chunks \cup {Abort}) /\ files \in 0..Len(FileSize)
    BY <1>1, FilesType DEF TypeOK
  <2>5. e \in Opened(files) /\ f \in 1..files
    <3>1. e \in Places(files)
      <4>. HIDE DEF e
      <4>. QED  BY <2>2, <2>4, WalkEnds DEF e
    <3>2. e # Idle
      BY <1>4, <2>3 DEF Idle
    <3>. QED  BY <2>3, <3>1, <3>2 DEF Places, Opened
  <2>6. UploadChunk(s, n) = c
    <3>. HIDE DEF n
    <3>. QED  BY <1>4, <1>5, <2>1, UploadChunkPart
  <2>7. d \in Places(files) /\ Follows(files, s, e, c, d)
    <3>1. p + n \in p..l /\ p + n \in 0..l
      <4>. HIDE DEF p, n, l
      <4>. QED  BY <1>4, <1>5
    <3>2. d \in Places(files)
      <4>. HIDE DEF n, f, p
      <4>. QED  BY <2>4, <2>5, <3>1, AfterType
    <3>3. e.file = f /\ e.pos = p
      BY <2>3
    <3>. HIDE DEF e, n, f, p
    <3>. QED  BY <2>5, <3>1, <3>2, <3>3 DEF Follows
  <2>8. Walk(files, s, b, up'[s], d)
    <3>1. c \in Chunks \cup {Abort}
      <4>1. up'[s] \in Seq(Chunks \cup {Abort})
        BY <1>1 DEF TypeOK
      <4>2. up'[s] = Append(up[s], c)
        BY <1>6, <2>6
      <4>3. Len(up[s]) \in Nat
        BY <2>4, LenProperties
      <4>4. up'[s][Len(up[s]) + 1] = c /\ Len(up'[s]) = Len(up[s]) + 1
        <5>. HIDE DEF c
        <5>. QED  BY <2>4, <4>2, <4>3
      <4>5. Len(up[s]) + 1 \in 1..Len(up'[s])
        BY <4>3, <4>4
      <4>. HIDE DEF c
      <4>. QED  BY <4>1, <4>4, <4>5, ElementOfSeq
    <3>2. Walk(files, s, b, Append(up[s], c), d)
      <4>. HIDE DEF e, c, d
      <4>. QED  BY <2>2, <2>4, <2>7, <3>1, WalkAppend DEF e
    <3>. QED  BY <1>6, <2>6, <3>2
  <2>9. Upto(s)' = d /\ (upload'[s] # None => upload'[s].file = f)
    <3>1. CASE n = l - p
      <4>1. upload'[s] = None /\ d = Idle
        BY <1>5, <1>6, <3>1 DEF After
      <4>. QED  BY <4>1 DEF Upto
    <3>2. CASE n # l - p
      <4>1. /\ upload'[s] = [upload[s] EXCEPT !.sent = p + n]
            /\ d = [file |-> f, pos |-> p + n]
        BY <1>5, <1>6, <3>2 DEF After
      <4>. HIDE DEF n
      <4>2. /\ upload'[s] \in [file : 1..Len(FileSize), sent : Nat]
            /\ upload'[s].file = f /\ upload'[s].sent = p + n
        BY <1>4, <1>5, <4>1
      <4>3. upload'[s] # None
        BY <4>2 DEF NoneIsNothing
      <4>. QED  BY <4>1, <4>2, <4>3 DEF Upto
    <3>. QED  BY <3>1, <3>2
  <2>10. Filled(up'[s])
    <3>1. c.units # <<>>
      <4>1. c.units = Part(s, f, p, p + n)
        BY DEF FileChunk, Chunk
      <4>2. p + n \in Nat /\ p <= p + n /\ p # p + n
        <5>. HIDE DEF p, n
        <5>. QED  BY <1>4, <1>5
      <4>. QED  BY <1>4, <4>1, <4>2, PartEmpty
    <3>2. up'[s] = Append(up[s], c) /\ Len(up[s]) \in Nat
      BY <1>6, <2>4, <2>6, LenProperties
    <3>. HIDE DEF c
    <3>3. /\ Len(up'[s]) = Len(up[s]) + 1 /\ up'[s][Len(up[s]) + 1] = c
          /\ \A j \in 1..Len(up[s]) : up'[s][j] = up[s][j]
      BY <2>4, <3>2
    <3>4. \A j \in 1..Len(up'[s]) : j \in 1..Len(up[s]) \/ j = Len(up[s]) + 1
      BY <3>2, <3>3
    <3>. QED  BY <2>1, <3>1, <3>3, <3>4 DEF Filled
  <2>. HIDE DEF d, c, e, f
  <2>11. Walk(files', s, b, up'[s], Upto(s)')
    BY <1>3, <2>8, <2>9
  <2>12. /\ Holds(files', s, b, proxy'[receivers'[s].proxy].mem, receivers'[s].total)
         /\ b \in Opened(files')
    BY <1>3, <2>2
  <2>. QED  BY <1>3, <2>1, <2>9, <2>10, <2>11, <2>12 DEF UploadAt
<1>10. Later
  BY <1>1, <1>3, FilesType DEF Later
<1>. QED  BY <1>3, <1>7, <1>8, <1>9, <1>10, StepOf

LEMMA CollectedWhole ==
    ASSUME NoneIsNothing, IndInv, IndInv', WholeInv,
           NEW s \in Suspects, NEW k \in Kinds, Collected(s, k)
    PROVE  WholeInv'
<1>1. TypeOK /\ TypeOK'
  BY DEF IndInv
<1>2. /\ UNCHANGED <<proxy, receivers, transfers, session, saved, ask, up, down, back,
                     online, late>>
      /\ k \in collecting[s] /\ files' = files + 1
  BY DEF Collected, server, admins, channels
<1>3. Later
  <2>1. files \in 0..Len(FileSize) /\ files' \in 0..Len(FileSize)
    BY <1>1, FileSizeType DEF TypeOK
  <2>. QED  BY <1>2, <2>1 DEF Later
<1>4. \A t \in Pairs : SamePair(t)
  BY <1>2 DEF SamePair
<1>5. ASSUME NEW x \in Suspects \ {s} PROVE SameSuspect(x)
  <2>1. collecting'[x] = collecting[x] /\ buffer'[x] = buffer[x] /\ upload'[x] = upload[x]
    BY <1>1 DEF Collected, StartUpload, TypeOK
  <2>. QED  BY <1>2, <2>1 DEF SameSuspect
<1>6. ASSUME s \notin late PROVE UploadAt(s)'
  <2>1. UploadAt(s)
    BY <1>6 DEF WholeInv
  <2>2. /\ receivers[s] # None /\ ask[s] = <<>> /\ upload[s] = None /\ up[s] = <<>>
        /\ proxy[receivers[s].proxy].first <=> proxy[receivers[s].proxy].mem = <<>>
        /\ proxy[receivers[s].proxy].mem = <<>>
        /\ \E l \in Kinds : collecting[s] = {l}
    BY <1>2, <2>1 DEF UploadAt, Quiet
  <2>. DEFINE n == files + 1
              b == [file |-> n, pos |-> 0]
  <2>3. /\ collecting'[s] = {} /\ buffer'[s] = n
        /\ upload'[s] = [file |-> n, sent |-> 0]
    <3>1. collecting' = [collecting EXCEPT ![s] = @ \ {k}]
      BY DEF Collected
    <3>2. collecting'[s] = {}
      BY <1>1, <1>2, <2>2, <3>1 DEF TypeOK
    <3>3. buffer'[s] = n /\ upload'[s] = [file |-> n, sent |-> 0]
      BY <1>1, <2>2 DEF Collected, StartUpload, TypeOK
    <3>. QED  BY <3>2, <3>3
  <2>4. n \in 1..Len(FileSize) /\ n \in 1..files' /\ files' \in Nat
    <3>1. files \in 0..Len(FileSize) /\ files' \in 0..Len(FileSize) /\ Len(FileSize) \in Nat
      BY <1>3, FileSizeType DEF Later
    <3>. QED  BY <1>2, <3>1
  <2>5. upload'[s] # None /\ upload'[s].file = n /\ Upto(s)' = b
    <3>1. upload'[s] \in [file : 1..Len(FileSize), sent : Nat]
      BY <2>3, <2>4
    <3>2. upload'[s] # None
      BY <3>1 DEF NoneIsNothing
    <3>. QED  BY <2>3, <3>2 DEF Upto
  <2>6. b \in Opened(files') /\ b \in Places(files')
    BY <2>4, FileSizeType DEF Opened, Places
  <2>7. Holds(files', s, b, <<>>, receivers[s].total)
    <3>1. Part(s, n, 0, 0) = <<>>
      BY PartEmpty
    <3>. QED  BY <2>6, <3>1 DEF Holds
  <2>8. Walk(files', s, b, <<>>, b)
    <3>. HIDE DEF b
    <3>. QED  BY <2>6, WalkEmpty
  <2>9. Filled(<<>>)
    BY EmptySeq DEF Filled
  <2>. HIDE DEF b, n
  <2>10. /\ Filled(up'[s])
         /\ Holds(files', s, b, proxy'[receivers'[s].proxy].mem, receivers'[s].total)
         /\ Walk(files', s, b, up'[s], Upto(s)')
    BY <1>2, <2>2, <2>5, <2>7, <2>8, <2>9
  <2>. QED  BY <1>2, <2>2, <2>3, <2>5, <2>6, <2>10 DEF UploadAt
<1>. QED  BY <1>2, <1>3, <1>4, <1>5, <1>6, StepOf

LEMMA NothingCollectedWhole ==
    ASSUME IndInv, IndInv', WholeInv,
           NEW s \in Suspects, NEW k \in Kinds, NothingCollected(s, k)
    PROVE  WholeInv'
<1>1. TypeOK /\ TypeOK'
  BY DEF IndInv
<1>2. /\ UNCHANGED <<proxy, receivers, transfers, session, saved, buffer, upload, files,
                     ask, up, down, back, online>>
      /\ late' = late \cup {s}
  BY DEF NothingCollected, server, admins, channels
<1>3. ASSUME NEW x \in Suspects \ {s} PROVE SameSuspect(x)
  <2>1. collecting'[x] = collecting[x]
    BY <1>1 DEF NothingCollected, TypeOK
  <2>. QED  BY <1>2, <2>1 DEF SameSuspect
<1>4. \A t \in Pairs : SamePair(t)
  BY <1>2 DEF SamePair
<1>5. Later
  BY <1>1, <1>2, FilesType DEF Later
<1>. QED  BY <1>2, <1>3, <1>4, <1>5, StepOf

\* The first packet of a channel that is read, of a suspect of which no session
\* was cut short.
LEMMA NextPacket ==
    ASSUME TypeOK, NEW t \in Pairs, Relaying(t), t[2] \notin late, down[t] # <<>>
    PROVE  /\ t[1] \in online /\ Head(down[t]) # Abort /\ back[t] = <<>>
           /\ \E b, f, e \in Places(files) :
                /\ SessionAt(t, b) /\ RelayAt(t, e)
                /\ Follows(files, t[2], b, Head(down[t]), f)
                /\ Walk(files, t[2], f, Tail(down[t]), e)
<1>1. t[1] \in online /\ back[t] = <<>>
  BY DEF Relaying
<1>2. PICK b \in Places(files), e \in Places(files) :
        SessionAt(t, b) /\ RelayAt(t, e) /\ Walk(files, t[2], b, down[t], e)
  BY <1>1 DEF Relaying
<1>3. down[t] \in Seq(Chunks \cup {Abort, Response})
  BY DEF TypeOK
<1>4. PICK f \in Places(files) :
        Follows(files, t[2], b, Head(down[t]), f) /\ Walk(files, t[2], f, Tail(down[t]), e)
  BY <1>2, <1>3, WalkHead
<1>5. Head(down[t]) # Abort
  BY <1>4, FollowsPacket
<1>. QED  BY <1>1, <1>2, <1>4, <1>5

LEMMA SessionOpened ==
    ASSUME TypeOK, NEW t \in Pairs, NEW b, SessionAt(t, b)
    PROVE  session[t] = None <=> b = Idle
<1>1. files \in Nat
  BY FilesType, FileSizeType
<1>. QED  BY <1>1, IdleIsClosed DEF SessionAt, Holds

LEMMA AdminOnAbortWhole ==
    ASSUME IndInv, IndInv', WholeInv, NEW t \in Pairs, AdminOnAbort(t)
    PROVE  WholeInv'
<1>1. TypeOK /\ TypeOK' /\ Relaying(t)
  BY DEF IndInv, WholeInv
<1>2. UNCHANGED <<proxy, receivers, transfers, collecting, buffer, upload, files, saved,
                  ask, up, online, late>>
  BY DEF AdminOnAbort, server, suspects
<1>3. down[t] # <<>> /\ Head(down[t]) = Abort
  BY DEF AdminOnAbort, IsNext
<1>4. t[2] \in late
  BY <1>1, <1>3, NextPacket
<1>5. t[1] \in online
  BY <1>1, <1>3 DEF Relaying
<1>6. Relaying(t)'
  BY <1>2, <1>4, <1>5 DEF Relaying
<1>7. ASSUME NEW x \in Pairs \ {t} PROVE SamePair(x)
  <2>1. down'[x] = down[x]
    BY <1>1 DEF AdminOnAbort, TypeOK
  <2>2. session'[x] = session[x] /\ back'[x] = back[x]
    BY DEF AdminOnAbort, StopSessions
  <2>. QED  BY <1>2, <2>1, <2>2 DEF SamePair
<1>8. \A x \in Suspects : SameSuspect(x)
  BY <1>2 DEF SameSuspect
<1>9. Later
  BY <1>1, <1>2, FilesType DEF Later
<1>. QED  BY <1>2, <1>6, <1>7, <1>8, <1>9, StepOf

LEMMA AdminTimesOutWhole ==
    ASSUME IndInv, IndInv', WholeInv, NEW a \in Admins, AdminTimesOut(a)
    PROVE  WholeInv'
<1>1. PICK S \in SUBSET Suspects :
        /\ StopSessions({a} \X S) /\ late' = late \cup S
        /\ UNCHANGED <<server, suspects, saved, ask, up, down, online,
                       requests>>
  BY DEF AdminTimesOut, Sessions
<1>2. UNCHANGED <<proxy, receivers, transfers, collecting, buffer, upload, files, saved,
                  ask, up, down, online>>
  BY <1>1 DEF server, suspects
<1>3. ASSUME NEW t \in Pairs PROVE SamePair(t) \/ Relaying(t)'
  <2>1. CASE t \notin {a} \X S
    <3>1. session'[t] = session[t] /\ back'[t] = back[t]
      BY <1>1, <2>1 DEF StopSessions
    <3>. QED  BY <1>2, <3>1 DEF SamePair
  <2>2. CASE t \in {a} \X S
    <3>1. t[2] \in late'
      BY <1>1, <2>2
    <3>2. Relaying(t)
      BY DEF WholeInv
    <3>. QED  BY <1>2, <3>1, <3>2 DEF Relaying
  <2>. QED  BY <2>1, <2>2
<1>4. \A x \in Suspects : SameSuspect(x)
  BY <1>2 DEF SameSuspect
<1>5. Later
  BY <1>1, <1>2, FilesType DEF Later, IndInv
<1>. QED  BY <1>2, <1>3, <1>4, <1>5, StepOf

LEMMA LeaveWhole ==
    ASSUME IndInv, IndInv', WholeInv, NEW c \in Admins \cup Suspects, Leave(c)
    PROVE  WholeInv'
<1>1. TypeOK /\ TypeOK'
  BY DEF IndInv
<1>2. /\ UNCHANGED <<proxy, receivers, transfers, buffer, files, saved>>
      /\ online' = online \ {c}
      /\ session' = [t \in Pairs |-> IF t[1] = c THEN None ELSE session[t]]
      /\ down' = [t \in Pairs |-> IF t[1] = c THEN <<>> ELSE down[t]]
      /\ back' = [t \in Pairs |-> IF t[1] = c THEN <<>> ELSE back[t]]
  BY DEF Leave, server
<1>3. Later
  <2>1. late \subseteq late'
    BY DEF Leave
  <2>. QED  BY <1>1, <1>2, <2>1, FilesType DEF Later
<1>4. ASSUME NEW x \in Suspects \ late' PROVE UploadAt(x)'
  <2>1. x # c
    BY <1>4 DEF Leave
  <2>2. /\ up'[x] = up[x] /\ ask'[x] = ask[x] /\ collecting'[x] = collecting[x]
        /\ upload'[x] = upload[x]
    <3>1. CASE c \in Suspects
      BY <1>1, <2>1, <3>1 DEF Leave, TypeOK
    <3>2. CASE c \notin Suspects
      BY <3>2 DEF Leave
    <3>. QED  BY <3>1, <3>2
  <2>3. SameSuspect(x)
    BY <1>2, <2>2 DEF SameSuspect
  <2>4. UploadAt(x)
    BY <1>3, <1>4 DEF WholeInv, Later
  <2>. QED  BY <1>3, <2>3, <2>4, SameUpload
<1>5. ASSUME NEW t \in Pairs PROVE Relaying(t)'
  <2>1. CASE t[1] = c
    BY <1>2, <2>1 DEF Relaying
  <2>2. CASE t[1] # c
    <3>1. SamePair(t) /\ (t[1] \in online' <=> t[1] \in online)
      BY <1>2, <2>2 DEF SamePair
    <3>2. Relaying(t)
      BY DEF WholeInv
    <3>. QED  BY <1>3, <3>1, <3>2, SameRelay
  <2>. QED  BY <2>1, <2>2
<1>6. SavedFilesAreWhole'
  BY <1>2, <1>3, SameSaved DEF WholeInv
<1>. QED  BY <1>4, <1>5, <1>6 DEF WholeInv

LEMMA AdminOnResponseWhole ==
    ASSUME NoneIsNothing, EnoughBinders, IndInv, IndInv', WholeInv,
           NEW t \in Pairs, AdminOnResponse(t)
    PROVE  WholeInv'
<1>1. TypeOK /\ TypeOK' /\ Relaying(t)
  BY DEF IndInv, WholeInv
<1>2. UNCHANGED <<proxy, receivers, transfers, collecting, buffer, upload, files, saved,
                  ask, up, back, online, late>>
  BY DEF AdminOnResponse, server, suspects
<1>3. /\ down[t] # <<>> /\ Head(down[t]) = Response /\ down'[t] = Tail(down[t])
      /\ \A x \in Pairs \ {t} : down'[x] = down[x] /\ session'[x] = session[x]
  BY <1>1 DEF AdminOnResponse, IsNext, TypeOK
<1>4. t[1] \in online
  BY <1>1, <1>3 DEF Relaying
<1>5. ASSUME t[2] \notin late PROVE Relaying(t)'
  <2>1. PICK b \in Places(files), f \in Places(files), e \in Places(files) :
          /\ SessionAt(t, b) /\ RelayAt(t, e)
          /\ Follows(files, t[2], b, Response, f)
          /\ Walk(files, t[2], f, Tail(down[t]), e)
    BY <1>1, <1>3, <1>5, NextPacket
  <2>2. SessionAt(t, f)'
    <3>1. CASE b \in Opened(files) /\ f = b
      <4>1. session[t] # None
        <5>1. b # Idle
          BY <1>1, <3>1, FilesType, FileSizeType, IdleIsClosed
        <5>. QED  BY <1>1, <2>1, <5>1, SessionOpened
      <4>2. UNCHANGED session
        BY <4>1 DEF AdminOnResponse
      <4>. QED  BY <1>2, <2>1, <3>1, <4>2 DEF SessionAt
    <3>2. CASE b = Idle /\ f \in Opened(files) /\ f.pos = 0
      <4>1. session[t] = None
        BY <1>1, <2>1, <3>2, SessionOpened
      <4>2. Cardinality(Sessions(t[1])) < Binders
        <5>1. t[2] \in Suspects /\ t = <<t[1], t[2]>>
          BY DEF Pairs
        <5>2. Sessions(t[1]) \subseteq Suspects /\ t[2] \notin Sessions(t[1])
          BY <4>1, <5>1 DEF Sessions
        <5>3. /\ IsFiniteSet(Suspects) /\ Cardinality(Suspects) <= Binders
              /\ Binders \in Nat
          BY ConstantsAssumption DEF EnoughBinders
        <5>4. /\ IsFiniteSet(Sessions(t[1])) /\ Sessions(t[1]) # Suspects
              /\ Cardinality(Sessions(t[1])) < Cardinality(Suspects)
          <6>. DEFINE T == Sessions(t[1])
          <6>1. T \in SUBSET Suspects /\ T # Suspects
            BY <5>1, <5>2
          <6>. HIDE DEF T
          <6>2. IsFiniteSet(T) /\ Cardinality(T) <= Cardinality(Suspects)
                /\ Cardinality(Suspects) # Cardinality(T)
            BY <5>3, <6>1, FS_Subset
          <6>3. Cardinality(T) \in Nat /\ Cardinality(Suspects) \in Nat
            BY <5>3, <6>2, FS_CardinalityType
          <6>. QED  BY <6>1, <6>2, <6>3 DEF T
        <5>5. Cardinality(Sessions(t[1])) \in Nat /\ Cardinality(Suspects) \in Nat
          BY <5>3, <5>4, FS_CardinalityType
        <5>. QED  BY <5>3, <5>4, <5>5
      <4>3. PICK m \in AnySize :
              session' = [session EXCEPT ![t] = [mem |-> <<>>, total |-> m]]
        <5>1. ~(session[t] # None \/ Cardinality(Sessions(t[1])) >= Binders)
          <6>1. Cardinality(Sessions(t[1])) \in Nat /\ Binders \in Nat
            <7>1. Sessions(t[1]) \subseteq Suspects
              BY DEF Sessions
            <7>. QED  BY <7>1, FS_Subset, FS_CardinalityType, ConstantsAssumption
                      DEF EnoughBinders
          <6>. QED  BY <4>1, <4>2, <6>1
        <5>. QED  BY <5>1 DEF AdminOnResponse
      <4>4. session'[t] = [mem |-> <<>>, total |-> m]
        BY <1>1, <4>3 DEF TypeOK
      <4>5. session'[t] # None
        <5>1. session'[t] \in [mem : Contents, total : Nat]
          BY <4>4, ConstantsAssumption DEF Contents
        <5>. QED  BY <5>1 DEF NoneIsNothing
      <4>6. Part(t[2], f.file, 0, f.pos) = <<>>
        BY <3>2, PartEmpty
      <4>7. Holds(files', t[2], f, session'[t].mem, session'[t].total)
        BY <1>2, <3>2, <4>4, <4>6 DEF Holds
      <4>. QED  BY <4>5, <4>7 DEF SessionAt
    <3>. QED  BY <2>1, <3>1, <3>2, FollowsPacket
  <2>3. RelayAt(t, e)'
    BY <1>2, <2>1 DEF RelayAt, Source
  <2>4. /\ Walk(files', t[2], f, down'[t], e) /\ f \in Places(files') /\ e \in Places(files')
        /\ back'[t] = <<>>
    BY <1>1, <1>2, <1>3, <1>4, <1>5, <2>1 DEF Relaying
  <2>. QED  BY <1>2, <1>4, <2>2, <2>3, <2>4 DEF Relaying
<1>6. ASSUME t[2] \in late PROVE Relaying(t)'
  BY <1>2, <1>4, <1>6 DEF Relaying
<1>7. \A x \in Pairs \ {t} : SamePair(x)
  BY <1>2, <1>3 DEF SamePair
<1>8. \A x \in Suspects : SameSuspect(x)
  BY <1>2 DEF SameSuspect
<1>9. Later
  BY <1>1, <1>2, FilesType DEF Later
<1>. QED  BY <1>2, <1>5, <1>6, <1>7, <1>8, <1>9, StepOf

\* All units of a file are the whole file.
LEMMA PartIsWhole ==
    ASSUME NEW s, NEW n \in 1..files, NEW mem, files \in 0..Len(FileSize),
           mem = Part(s, n, 0, FileSize[n])
    PROVE  WholeFile(s, mem)
<1>. DEFINE l == FileSize[n]
            g == [i \in 1..l |-> [from |-> s, file |-> n, pos |-> i]]
<1>1. l \in Nat
  <2>1. n \in 1..Len(FileSize)
    BY FileSizeType
  <2>. QED  BY <2>1, FileSizeType
<1>. HIDE DEF l
<1>2. /\ mem \in Seq(Marks(s, n)) /\ Len(mem) = l
      /\ \A i \in 1..l : mem[i] = Mark(s, n, i)
  <2>1. mem = Part(s, n, 0, l)
    BY DEF l
  <2>. QED  BY <1>1, <2>1, PrefixProperties
<1>3. /\ g \in Seq(Marks(s, n)) /\ Len(g) = l
      /\ \A i \in 1..l : g[i] = Mark(s, n, i)
  BY <1>1 DEF Marks, Mark
<1>. HIDE DEF g
<1>4. mem = g
  BY <1>2, <1>3, SeqEqual
<1>. QED  BY <1>4 DEF WholeFile, g, l

LEMMA AdminOnDataWhole ==
    ASSUME NoneIsNothing, IndInv, IndInv', WholeInv, NEW t \in Pairs, AdminOnData(t)
    PROVE  WholeInv'
<1>1. TypeOK /\ TypeOK' /\ Relaying(t)
  BY DEF IndInv, WholeInv
<1>2. UNCHANGED <<proxy, receivers, transfers, collecting, buffer, upload, files,
                  ask, up, online, late>>
  BY DEF AdminOnData, server, suspects
<1>3. /\ down[t] # <<>> /\ Head(down[t]) # Response /\ down'[t] = Tail(down[t])
      /\ \A x \in Pairs \ {t} :
           down'[x] = down[x] /\ session'[x] = session[x] /\ back'[x] = back[x]
  <2>1. down[t] # <<>> /\ Head(down[t]) # Response /\ down' = [down EXCEPT ![t] = Tail(@)]
    BY DEF AdminOnData
  <2>2. ASSUME NEW x \in Pairs \ {t} PROVE session'[x] = session[x] /\ back'[x] = back[x]
    BY <1>1 DEF AdminOnData, TypeOK, admins
  <2>. QED  BY <1>1, <2>1, <2>2 DEF TypeOK
<1>4. t[1] \in online
  BY <1>1, <1>3 DEF Relaying
<1>5. Later
  BY <1>1, <1>2, FilesType DEF Later
<1>6. ASSUME NEW x \in Suspects \ late' PROVE UploadAt(x)'
  <2>1. SameSuspect(x) /\ UploadAt(x)
    BY <1>2, <1>6 DEF SameSuspect, WholeInv
  <2>. QED  BY <1>5, <2>1, SameUpload
<1>7. ASSUME NEW x \in Pairs \ {t} PROVE Relaying(x)'
  <2>1. SamePair(x) /\ Relaying(x)
    BY <1>2, <1>3 DEF SamePair, WholeInv
  <2>. QED  BY <1>2, <1>5, <2>1, SameRelay
<1>8. CASE t[2] \in late
  <2>1. Relaying(t)'
    BY <1>2, <1>4, <1>8 DEF Relaying
  <2>2. \A g \in saved' : g \in saved \/ g.from = t[2]
    BY DEF AdminOnData, admins
  <2>3. SavedFilesAreWhole'
    BY <1>2, <1>8, <2>2 DEF WholeInv, SavedFilesAreWhole, WholeFile
  <2>. QED  BY <1>6, <1>7, <2>1, <2>3 DEF WholeInv
<1>9. CASE t[2] \notin late
  <2>1. PICK b \in Places(files), f \in Places(files), e \in Places(files) :
          /\ SessionAt(t, b) /\ RelayAt(t, e)
          /\ Follows(files, t[2], b, Head(down[t]), f)
          /\ Walk(files, t[2], f, Tail(down[t]), e)
    BY <1>1, <1>3, <1>9, NextPacket
  <2>2. /\ b \in Opened(files)
        /\ \E q \in b.pos..FileSize[b.file] :
             Head(down[t]) = FileChunk(t[2], b.file, b.pos, q) /\ f = After(b.file, q)
    BY <1>3, <2>1, FollowsPacket
  <2>3. PICK q \in b.pos..FileSize[b.file] :
          Head(down[t]) = FileChunk(t[2], b.file, b.pos, q) /\ f = After(b.file, q)
    BY <2>2
  <2>4. session[t] # None /\ Holds(files, t[2], b, session[t].mem, session[t].total)
    <3>1. b # Idle
      BY <1>1, <2>2, FilesType, FileSizeType, IdleIsClosed
    <3>2. session[t] # None
      BY <1>1, <2>1, <3>1, SessionOpened
    <3>. QED  BY <2>1, <3>2 DEF SessionAt
  <2>5. PICK r \in Receive(session[t].mem, session[t].total, Head(down[t])) :
          /\ session' = [session EXCEPT
               ![t] = IF r.done THEN None
                      ELSE [mem |-> r.mem, total |-> r.total]]
          /\ saved' = IF r.done
                      THEN saved \cup {[to |-> t[1], from |-> t[2], mem |-> r.mem]}
                      ELSE saved
    BY <2>4 DEF AdminOnData
  <2>6. UNCHANGED back
    BY <2>4 DEF AdminOnData
  <2>7. /\ r.mem = Part(t[2], b.file, 0, q) /\ r.total = FileSize[b.file]
        /\ r.done <=> q = FileSize[b.file]
    <3>1. None \notin Nat /\ files \in 0..Len(FileSize)
      BY <1>1, FilesType DEF NoneIsNothing
    <3>2. r \in Receive(session[t].mem, session[t].total,
                        FileChunk(t[2], b.file, b.pos, q))
      BY <2>3, <2>5
    <3>. QED  BY <2>4, <3>1, <3>2, ReceivePart
  <2>8. /\ files \in 0..Len(FileSize) /\ b.file \in 1..files /\ b.pos \in Nat
        /\ FileSize[b.file] \in Nat /\ q \in Nat /\ q \in 0..FileSize[b.file]
    <3>1. files \in 0..Len(FileSize) /\ b.file \in 1..files /\ b.pos \in Nat
      BY <1>1, <2>2, FilesType DEF Opened
    <3>2. FileSize[b.file] \in Nat
      BY <3>1, FileSizeType
    <3>. QED  BY <3>1, <3>2
  <2>9. session'[t] = IF r.done THEN None ELSE [mem |-> r.mem, total |-> r.total]
    BY <1>1, <2>5 DEF TypeOK
  <2>10. SessionAt(t, f)'
    <3>1. CASE q = FileSize[b.file]
      BY <2>3, <2>7, <2>9, <3>1 DEF SessionAt, After
    <3>2. CASE q # FileSize[b.file]
      <4>1. session'[t] = [mem |-> r.mem, total |-> r.total]
        BY <2>7, <2>9, <3>2
      <4>2. session'[t] # None
        <5>1. session'[t] \in [mem : Contents, total : Nat] \cup {None}
          BY <1>1 DEF TypeOK
        <5>2. session[t].mem \in Contents /\ session[t].total \in Nat
          BY <1>1, <2>4 DEF TypeOK
        <5>3. Head(down[t]) \in Chunks
          <6>1. down[t] \in Seq(Chunks \cup {Abort, Response})
            BY <1>1 DEF TypeOK
          <6>2. Head(down[t]) # Abort
            BY <1>1, <1>3, <1>9, NextPacket
          <6>. QED  BY <1>3, <6>1, <6>2, RestType
        <5>4. r.mem \in Contents /\ r.total \in Nat
          BY <2>5, <5>2, <5>3, ReceiveType
        <5>. QED  BY <4>1, <5>4 DEF NoneIsNothing
      <4>3. f \in Opened(files') /\ f.file = b.file /\ f.pos = q
        BY <1>2, <2>3, <2>8, <3>2, AfterType DEF After
      <4>4. Holds(files', t[2], f, session'[t].mem, session'[t].total)
        BY <2>7, <4>1, <4>3 DEF Holds
      <4>. QED  BY <4>2, <4>4 DEF SessionAt
    <3>. QED  BY <3>1, <3>2
  <2>11. RelayAt(t, e)'
    BY <1>2, <2>1 DEF RelayAt, Source
  <2>12. /\ Walk(files', t[2], f, down'[t], e) /\ f \in Places(files')
         /\ e \in Places(files') /\ back'[t] = <<>>
    BY <1>1, <1>2, <1>3, <1>4, <1>9, <2>1, <2>6 DEF Relaying
  <2>13. Relaying(t)'
    BY <1>2, <1>4, <2>10, <2>11, <2>12 DEF Relaying
  <2>14. SavedFilesAreWhole'
    <3>1. SavedFilesAreWhole
      BY DEF WholeInv
    <3>2. CASE ~r.done
      BY <1>5, <2>5, <3>1, <3>2, SameSaved
    <3>3. CASE r.done
      <4>1. WholeFile(t[2], r.mem)
        BY <2>7, <2>8, <3>3, PartIsWhole
      <4>2. \A g \in saved' : g \in saved \/ (g.from = t[2] /\ g.mem = r.mem)
        BY <2>5, <3>3
      <4>3. ASSUME NEW g \in saved'
            PROVE  g.from \in late' \/ WholeFile(g.from, g.mem)
        <5>1. CASE g \in saved
          BY <1>2, <3>1, <5>1 DEF SavedFilesAreWhole
        <5>2. CASE g.from = t[2] /\ g.mem = r.mem
          BY <4>1, <5>2
        <5>. QED  BY <4>2, <5>1, <5>2
      <4>4. files' = files
        BY <1>2
      <4>. QED  BY <4>3, <4>4 DEF SavedFilesAreWhole, WholeFile
    <3>. QED  BY <3>2, <3>3
  <2>. QED  BY <1>6, <1>7, <2>13, <2>14 DEF WholeInv
<1>. QED  BY <1>8, <1>9

\* Every step keeps the invariant.
LEMMA WholeNext ==
    ASSUME NoneIsNothing, EnoughBinders, IndInv, IndInv', WholeInv, [Next]_vars
    PROVE  WholeInv'
<1>1. CASE UNCHANGED vars
  <2>1. UNCHANGED <<proxy, receivers, transfers, collecting, buffer, upload, files,
                    session, saved, ask, up, down, back, online, late>>
    BY <1>1 DEF vars, server, suspects, admins, channels
  <2>2. Later
    BY <2>1, FilesType DEF Later, IndInv
  <2>3. \A x \in Suspects : SameSuspect(x)
    BY <2>1 DEF SameSuspect
  <2>4. \A t \in Pairs : SamePair(t)
    BY <2>1 DEF SamePair
  <2>. QED  BY <2>1, <2>2, <2>3, <2>4, StepOf
<1>2. CASE \E a \in Admins, s \in Suspects, k \in Kinds : MakeData(a, s, k)
  BY <1>2, MakeDataWhole
<1>3. CASE ServerReads
  BY <1>3, ServerOnDataWhole, ServerOnAbortWhole, ServerOnRejectWhole DEF ServerReads
<1>4. CASE UpdateTransfer
  BY <1>4, UpdateTransferWhole
<1>5. CASE ServerTimesOut
  BY <1>5, ServerTimesOutWhole
<1>6. ASSUME NEW s \in Suspects, SuspectStep(s) PROVE WholeInv'
  BY <1>6, SuspectOnRequestWhole, SuspectOnRejectWhole, SuspectSendsWhole,
     CollectedWhole, NothingCollectedWhole DEF SuspectStep
<1>7. ASSUME NEW t \in Pairs, AdminStep(t) PROVE WholeInv'
  BY <1>7, AdminOnResponseWhole, AdminOnDataWhole, AdminOnAbortWhole DEF AdminStep
<1>8. ASSUME NEW a \in Admins, AdminTimesOut(a) PROVE WholeInv'
  BY <1>8, AdminTimesOutWhole
<1>9. ASSUME NEW c \in Admins \cup Suspects, Leave(c) PROVE WholeInv'
  BY <1>9, LeaveWhole
<1>. QED  BY <1>1, <1>2, <1>3, <1>4, <1>5, <1>6, <1>7, <1>8, <1>9 DEF Next

\* Whatever is requested, aborted, timed out or left: an administrator who has a
\* binder for every suspect saves only whole files, each of the suspect it was
\* asked of, unless a session with that suspect was cut short.
THEOREM SavedFilesAreWholeAlways ==
    NoneIsNothing /\ EnoughBinders => (Spec => []SavedFilesAreWhole)
<1>. SUFFICES ASSUME NoneIsNothing, EnoughBinders PROVE Spec => []SavedFilesAreWhole
  OBVIOUS
<1>1. WholeInv /\ IndInv /\ IndInv' /\ [Next]_vars => WholeInv'
  BY WholeNext
<1>2. WholeInv => SavedFilesAreWhole
  BY DEF WholeInv
<1>. QED  BY <1>1, <1>2, WholeInit, Inductive, PTL DEF Spec

=============================================================================

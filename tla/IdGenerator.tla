----------------------------- MODULE IdGenerator -----------------------------
(* CID_Generator (src/xrGame/id_generator.h), from which xrServer takes the  *)
(* ids of its entities.  The ids 0..MaxValue are divided into blocks of      *)
(* BlockSize; a block keeps its free ids on a stack and the time at which    *)
(* one was last freed.  An id is taken from the block left alone longest, so *)
(* that late messages about a destroyed entity do not reach a new one.       *)
EXTENDS Integers, Sequences, FiniteSets, SequencesExt, Functions

CONSTANTS
    MaxValue,       \* tMaxValue; tMinValue is 0
    BlockSize,      \* tBlockSize
    TimePeriod,     \* the range of TIME_ID: Device.TimerAsync wraps
    MaxNow          \* bound: the last time at which something happens

ASSUME SizeAssumption ==
    /\ MaxValue \in Nat /\ BlockSize \in Nat \ {0}
    /\ TimePeriod \in Nat \ {0} /\ MaxNow \in Nat \ {0}

VARIABLES
    chunk,          \* the first m_tCount of m_tpIDs of each block
    stamp,          \* m_tTimeID of each block
    available,      \* m_available_count
    entities,       \* the keys of xrServer::entities
    now,            \* the time, not wrapped
    freedAt         \* history: when each id was last freed, 0 if never

vars == <<chunk, stamp, available, entities, now, freedAt>>

Values  == 0..MaxValue
Blocks  == 0..(MaxValue \div BlockSize)
Offsets == 0..(BlockSize - 1)

Block(v)    == v \div BlockSize
Offset(v)   == v % BlockSize
Value(b, o) == o + b * BlockSize

NonEmpty == {b \in Blocks : chunk[b] # <<>>}

-----------------------------------------------------------------------------
\* Among blocks with free ids: operator<, and std::min_element for equal times.
Precedes(b, c) == stamp[b] < stamp[c] \/ (stamp[b] = stamp[c] /\ b <= c)

\* Mutant of TakenFrom: each id counts as a block.
TakenFromCountsIds(b, rest) ==
    /\ chunk' = [chunk EXCEPT ![b] = rest]
    /\ available' = available - 1

\* Mutant of TakenFrom: m_tCount is not lowered.
TakenFromUnlowered(b, rest) ==
    /\ chunk' = chunk
    /\ available' = IF Len(chunk[b]) = 1 THEN available - 1 ELSE available

\* tfGetFromBlock leaves the ids `rest' in the block b.
TakenFrom(b, rest) ==
    /\ chunk' = [chunk EXCEPT ![b] = rest]
    /\ available' = IF Len(chunk[b]) = 1 THEN available - 1 ELSE available

\* tfGetID of any id.
GetID(b) ==
    /\ available # 0
    /\ b \in NonEmpty /\ \A c \in NonEmpty : Precedes(b, c)
    /\ TakenFrom(b, Front(chunk[b]))
    /\ entities' = entities \cup {Value(b, Last(chunk[b]))}
    /\ UNCHANGED <<stamp, now, freedAt>>

\* Mutant of GetThisID: the last id of the block is dropped for the one asked.
GetThisIDDropsLast(v, k) ==
    LET ids == chunk[Block(v)]
    IN  /\ ids[k] = Offset(v)
        /\ TakenFrom(Block(v), Front(ids))
        /\ entities' = entities \cup {v}
        /\ UNCHANGED <<stamp, now, freedAt>>

\* tfGetID of the id v, which std::find finds at k; the program stops if it is
\* not there.
GetThisID(v, k) ==
    LET ids == chunk[Block(v)]
    IN  /\ ids[k] = Offset(v) /\ \A j \in 1..(k - 1) : ids[j] # Offset(v)
        /\ TakenFrom(Block(v), Front([ids EXCEPT ![k] = Last(ids)]))
        /\ entities' = entities \cup {v}
        /\ UNCHANGED <<stamp, now, freedAt>>

\* Mutant of FreeID: the time is not stored.
FreeIDUnstamped(v) ==
    LET b == Block(v)
    IN  /\ v \in entities
        /\ entities' = entities \ {v}
        /\ available' = IF chunk[b] = <<>> THEN available + 1 ELSE available
        /\ chunk' = [chunk EXCEPT ![b] = Append(@, Offset(v))]
        /\ freedAt' = [freedAt EXCEPT ![v] = now]
        /\ UNCHANGED <<stamp, now>>

\* vfFreeID, when entity_Destroy has erased the entity.
FreeID(v) ==
    LET b == Block(v)
    IN  /\ v \in entities
        /\ entities' = entities \ {v}
        /\ available' = IF chunk[b] = <<>> THEN available + 1 ELSE available
        /\ chunk' = [chunk EXCEPT ![b] = Append(@, Offset(v))]
        /\ stamp' = [stamp EXCEPT ![b] = now % TimePeriod]
        /\ freedAt' = [freedAt EXCEPT ![v] = now]
        /\ UNCHANGED now

Tick == now < MaxNow /\ now' = now + 1 /\ UNCHANGED <<chunk, stamp, available, entities, freedAt>>

\* How many ids there are in the block b: the last one may be shorter.
Count(b) == IF b = MaxValue \div BlockSize THEN (MaxValue % BlockSize) + 1 ELSE BlockSize

\* The constructor frees each id in turn, and reverses the stacks.
Init ==
    /\ chunk = [b \in Blocks |-> [i \in 1..Count(b) |-> Count(b) - i]]
    /\ stamp = [b \in Blocks |-> 0]
    /\ available = MaxValue \div BlockSize + 1
    /\ entities = {}
    /\ now = 1
    /\ freedAt = [v \in Values |-> 0]

Next ==
    \/ \E b \in Blocks : GetID(b)
    \/ \E v \in Values : \E k \in DOMAIN chunk[Block(v)] : GetThisID(v, k)
    \/ \E v \in Values : FreeID(v)
    \/ Tick

Spec == Init /\ [][Next]_vars

-----------------------------------------------------------------------------
(* Properties.                                                              *)

FreeIds == {v \in Values : Offset(v) \in Range(chunk[Block(v)])}

TypeOK ==
    /\ chunk \in [Blocks -> Seq(Offsets)]
    /\ stamp \in [Blocks -> 0..(TimePeriod - 1)]
    /\ available \in Nat
    /\ entities \in SUBSET Values
    /\ now \in Nat
    /\ freedAt \in [Values -> Nat]

\* m_available_count is the number of blocks with free ids: tfGetID fails only
\* when all ids are in use, and does not search when none has one.
AvailableAgrees == available = Cardinality(NonEmpty)

\* An array m_tpIDs contains no id twice, none that is in use and none that
\* does not exist; and it contains each id of its block that is not in use.
Stacks ==
    /\ \A b \in Blocks :
        /\ IsInjective(chunk[b])
        /\ \A o \in Range(chunk[b]) : Value(b, o) \in Values \ entities
    /\ \A v \in Values \ entities : Offset(v) \in Range(chunk[Block(v)])

\* The inductive invariant.
IndInv == TypeOK /\ AvailableAgrees /\ Stacks

\* The assertion of vfFreeID that the array has room for the id of an entity.
RoomToFree == \A v \in entities : Len(chunk[Block(v)]) < BlockSize

\* The generator is a pool from which an id has at most one user and to which
\* every id that is freed returns.
Pool == INSTANCE IdPool WITH free <- FreeIds, used <- entities
IsIdPool == Pool!Spec

\* An id that is handed out was freed no later than some id of each other block
\* that still has free ids, as long as the time has not wrapped.
FreedNoLater(v, c) == \E w \in Values : Block(w) = c /\ freedAt[v] <= freedAt[w]
OldestFirst ==
    [][\A b \in Blocks : now < TimePeriod /\ GetID(b) =>
          \A v \in entities' \ entities, c \in NonEmpty : FreedNoLater(v, c)]_vars

=============================================================================

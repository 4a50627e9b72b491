------------------------------ MODULE Sheduler ------------------------------
(* The scheduler of the engine (src/xrEngine/xrSheduler.cpp), which updates *)
(* the game's objects once a frame, on the primary thread.  It is           *)
(* re-entrant: an update may register, unregister and delete any object,    *)
(* itself included, while the loops of Update stand on the vectors.         *)
(* An object is its address, which serves one object after another: the     *)
(* model does not tell one that is not registered from free memory.  Times  *)
(* are relative to dwTimeGlobal; of those that are over the model keeps the *)
(* order only, since the code compares them with each other and with the    *)
(* time, and every later one is behind them.  Left out: the time an update  *)
(* is told, the scale of the intervals, EnsureOrder, which nothing calls,   *)
(* and Destroy at the end of the program.  The build is the release one,    *)
(* where the destructor unregisters every object, whatever its owner did.   *)
EXTENDS Integers, FiniteSets, SequencesExt

CONSTANTS
    Objects,        \* the addresses of ISheduled
    NoObject,       \* NULL
    Priorities,     \* whether each object may be registered as realtime, or not
    CheckEvery,     \* entries between two looks at the clock: 3 in the code
    MaxInterval,    \* bound: on the time until an object's next update
    MaxItems        \* bound: on the entries of the vectors together

ASSUME NoObjectAssumption == NoObject \notin Objects
ASSUME PriorityAssumption == Priorities \in [Objects -> SUBSET BOOLEAN]
ASSUME BoundAssumption ==
    /\ CheckEvery \in Nat \ {0} /\ MaxInterval \in Nat /\ MaxItems \in Nat

VARIABLES
    registered,     \* the objects whose owners count on their updates
    doomed,         \* those whose shedule_Needed returns false
    b_RT,           \* the priority an object remembers
    Registration,   \* what is to be done to the lists before the next frame
    ItemsRT,        \* the objects of realtime priority
    Items,          \* the heap: objects, and the time until each is due
    ItemsProcessed,
    m_current_step_obj,
    stage,          \* of Update; "idle" outside it
    it,             \* the index of the realtime loop; the normal one's, modulo CheckEvery
    running,        \* the object whose shedule_Update runs
    updated,        \* dbg_startframe: the objects updated in this frame
    erased          \* how many entries have left ItemsRT during its loop

objectVars == <<registered, doomed, b_RT>>
heldVars   == <<ItemsRT, Items, m_current_step_obj, erased>>
listVars   == <<Registration, ItemsProcessed, heldVars>>
loopVars   == <<stage, it, running, updated>>
vars == <<objectVars, listVars, loopVars>>

Init ==
    /\ registered = {} /\ doomed = {} /\ b_RT = [o \in Objects |-> FALSE]
    /\ Registration = <<>> /\ ItemsRT = <<>> /\ Items = <<>> /\ ItemsProcessed = <<>>
    /\ m_current_step_obj = NoObject /\ erased = 0
    /\ stage = "idle" /\ it = 0 /\ running = NoObject /\ updated = {}

m_processing_now == stage \in {"realtime", "normal"}

shedule_Needed(o) == o \notin doomed

-----------------------------------------------------------------------------
(* The lists.                                                               *)

RTEntries(o) == {i \in DOMAIN ItemsRT : ItemsRT[i] = o}
Entries(o)   == {i \in DOMAIN Items : Items[i].Object = o}

Least(S) == CHOOSE i \in S : \A j \in S : i <= j

\* Mutant of Findable: an object that unregisters itself in its update is not looked for.
FindableInLists(o, rt) == (IF rt THEN RTEntries(o) ELSE Entries(o)) # {}

Listed(o, rt)   == (IF rt THEN RTEntries(o) ELSE Entries(o)) # {}
Findable(o, rt) == Listed(o, rt) \/ m_current_step_obj = o

internal_Register(o, rt) ==
    /\ IF rt
       THEN ItemsRT' = Append(ItemsRT, o) /\ UNCHANGED Items
       ELSE Items' = Append(Items, [Object |-> o, due |-> 0]) /\ UNCHANGED ItemsRT
    /\ b_RT' = [b_RT EXCEPT ![o] = rt]

\* Mutant of internal_Unregister: the object in the middle of its update stays what it is.
internal_UnregisterListed(o, rt) ==
    /\ ItemsRT' = IF rt /\ Listed(o, rt)
                  THEN RemoveAt(ItemsRT, Least(RTEntries(o))) ELSE ItemsRT
    /\ Items' = IF ~rt /\ Listed(o, rt)
                THEN [Items EXCEPT ![Least(Entries(o))].Object = NoObject] ELSE Items
    /\ UNCHANGED <<erased, m_current_step_obj>>

\* A realtime entry is erased, a normal one keeps its place in the heap.
internal_Unregister(o, rt) ==
    IF Listed(o, rt)
    THEN /\ IF rt
            THEN ItemsRT' = RemoveAt(ItemsRT, Least(RTEntries(o))) /\ UNCHANGED Items
            ELSE Items' = [Items EXCEPT ![Least(Entries(o))].Object = NoObject]
                 /\ UNCHANGED ItemsRT
         /\ erased' = IF rt /\ stage = "realtime" THEN erased + 1 ELSE erased
         /\ UNCHANGED m_current_step_obj
    ELSE /\ m_current_step_obj' = IF m_current_step_obj = o THEN NoObject
                                  ELSE m_current_step_obj
         /\ UNCHANGED <<ItemsRT, Items, erased>>

Request(op, o, rt) ==
    Registration' = Append(Registration, [OP |-> op, RT |-> rt, Object |-> o])

\* Mutant of Withdraw: within Update whatever internal_Unregister returns.
WithdrawAtOnce(o, rt) ==
    IF m_processing_now
    THEN internal_Unregister(o, rt) /\ UNCHANGED Registration
    ELSE Request(FALSE, o, rt) /\ UNCHANGED heldVars

\* Mutant of Withdraw: within Update as outside it.
WithdrawLater(o, rt) == Request(FALSE, o, rt) /\ UNCHANGED heldVars

\* Within Update an object leaves at once, if it is where it can be found.
Withdraw(o, rt) ==
    IF m_processing_now /\ Findable(o, rt)
    THEN internal_Unregister(o, rt) /\ UNCHANGED Registration
    ELSE Request(FALSE, o, rt) /\ UNCHANGED heldVars

-----------------------------------------------------------------------------
(* The game: what it does between two frames and within an update.          *)

GameRuns == stage = "idle" \/ running # NoObject

Room == Len(Registration) + Len(ItemsRT) + Len(Items) + Len(ItemsProcessed) < MaxItems

Register(o, rt) ==
    /\ GameRuns /\ Room /\ o \notin registered
    /\ registered' = registered \cup {o}
    /\ b_RT' = [b_RT EXCEPT ![o] = rt]
    /\ Request(TRUE, o, rt)
    /\ UNCHANGED <<doomed, heldVars, ItemsProcessed, loopVars>>

\* By the owner, or by the destructor of a registered object.
Unregister(o) ==
    /\ GameRuns /\ Room /\ o \in registered
    /\ registered' = registered \ {o} /\ doomed' = doomed \ {o}
    /\ b_RT' = [b_RT EXCEPT ![o] = FALSE]
    /\ Withdraw(o, b_RT[o])
    /\ UNCHANGED <<ItemsProcessed, loopVars>>

\* The destructor of an object that is not registered, or not any more: the
\* constructor leaves b_RT as it is, so it may be anything.
DestroyUnregistered(o) ==
    /\ GameRuns /\ Room /\ o \notin registered
    /\ \E rt \in BOOLEAN : Withdraw(o, rt)
    /\ UNCHANGED <<objectVars, ItemsProcessed, loopVars>>

\* Events that destroy an object are run between two updates.
setDestroy(o) ==
    /\ stage = "idle" /\ o \in registered \ doomed
    /\ doomed' = doomed \cup {o}
    /\ UNCHANGED <<registered, b_RT, listVars, loopVars>>

\* The times that are over and not before that of the i-th entry.
Over(i) == {Items[j].due : j \in {k \in DOMAIN Items : Items[i].due <= Items[k].due /\ Items[k].due <= 0}}

\* What is left of the time of the i-th entry when one more unit has passed.
Remaining(i) == IF Items[i].due > 0 THEN Items[i].due - 1 ELSE -Cardinality(Over(i))

\* Time passes between two frames, however late the updates are.
Tick ==
    /\ stage = "idle"
    /\ Items' = [i \in DOMAIN Items |-> [Items[i] EXCEPT !.due = Remaining(i)]]
    /\ UNCHANGED <<objectVars, Registration, ItemsRT, ItemsProcessed, m_current_step_obj, erased, loopVars>>

Game ==
    \/ \E o \in Objects :
         \/ Unregister(o) \/ DestroyUnregistered(o) \/ setDestroy(o)
         \/ \E rt \in Priorities[o] : Register(o, rt)
    \/ Tick

-----------------------------------------------------------------------------
(* Update.                                                                  *)

StartUpdate ==
    /\ stage = "idle"
    /\ stage' = "before"
    /\ UNCHANGED <<objectVars, listVars, it, running, updated>>

\* A step of internal_Registration, which reads the requests in their order;
\* one to register is dropped together with the first later one to unregister.
ServeRequest ==
    /\ stage \in {"before", "after"} /\ Registration # <<>>
    /\ LET R     == Head(Registration)
           rest  == Tail(Registration)
           Pairs == {i \in DOMAIN rest : ~rest[i].OP /\ rest[i].Object = R.Object}
       IN  \/ /\ R.OP /\ Pairs # {}
              /\ Registration' = RemoveAt(rest, Least(Pairs))
              /\ UNCHANGED <<b_RT, heldVars>>
           \/ /\ R.OP /\ Pairs = {}
              /\ Registration' = rest
              /\ internal_Register(R.Object, R.RT)
              /\ UNCHANGED <<m_current_step_obj, erased>>
           \/ /\ ~R.OP
              /\ Registration' = rest
              /\ internal_Unregister(R.Object, R.RT)
              /\ UNCHANGED b_RT
    /\ UNCHANGED <<registered, doomed, ItemsProcessed, loopVars>>

EnterRealtime ==
    /\ stage = "before" /\ Registration = <<>>
    /\ stage' = "realtime" /\ it' = 0
    /\ UNCHANGED <<objectVars, listVars, running, updated>>

EndUpdate ==
    /\ stage = "after" /\ Registration = <<>>
    /\ stage' = "idle" /\ updated' = {}
    /\ UNCHANGED <<objectVars, listVars, it, running>>

\* The call of shedule_Update of o.
Call(o) ==
    /\ running' = o
    /\ updated' = updated \cup {o}

AtRealtime == stage = "realtime" /\ running = NoObject /\ it < Len(ItemsRT)

\* Mutant of RealtimeSkip: the loop ends with the first object that is not needed.
RealtimeStop ==
    /\ AtRealtime /\ ~shedule_Needed(ItemsRT[it + 1])
    /\ it' = Len(ItemsRT)
    /\ UNCHANGED <<objectVars, listVars, stage, running, updated>>

RealtimeSkip ==
    /\ AtRealtime /\ ~shedule_Needed(ItemsRT[it + 1])
    /\ it' = it + 1
    /\ UNCHANGED <<objectVars, listVars, stage, running, updated>>

RealtimeUpdate ==
    /\ AtRealtime /\ shedule_Needed(ItemsRT[it + 1])
    /\ Call(ItemsRT[it + 1])
    /\ UNCHANGED <<objectVars, listVars, stage, it>>

\* The index goes on although an entry may have been erased before it.
RealtimeReturn ==
    /\ stage = "realtime" /\ running # NoObject
    /\ running' = NoObject /\ it' = it + 1
    /\ UNCHANGED <<objectVars, listVars, stage, updated>>

EnterNormal ==
    /\ stage = "realtime" /\ running = NoObject /\ it >= Len(ItemsRT)
    /\ stage' = "normal" /\ it' = 0 /\ erased' = 0
    /\ UNCHANGED <<objectVars, Registration, ItemsRT, Items, ItemsProcessed, m_current_step_obj,
                   running, updated>>

\* Mutant of Tops: a vector that is not kept as a heap, any entry that is due may be next.
AnyTops == {i \in DOMAIN Items : Items[i].due < 0}

\* The entries that may be on top of the heap, if that is due.
Tops ==
    {i \in DOMAIN Items :
        Items[i].due < 0 /\ \A j \in DOMAIN Items : Items[i].due <= Items[j].due}

CountEntry == it' = (it + 1) % CheckEvery

\* The top is NULL or not needed any more.
NormalDrop ==
    /\ stage = "normal" /\ running = NoObject
    /\ \E i \in Tops :
         /\ Items[i].Object = NoObject \/ ~shedule_Needed(Items[i].Object)
         /\ Items' = RemoveAt(Items, i)
    /\ CountEntry
    /\ UNCHANGED <<objectVars, Registration, ItemsRT, ItemsProcessed, m_current_step_obj, erased,
                   stage, running, updated>>

NormalUpdate ==
    /\ stage = "normal" /\ running = NoObject
    /\ \E i \in Tops :
         /\ Items[i].Object # NoObject /\ shedule_Needed(Items[i].Object)
         /\ Items' = RemoveAt(Items, i)
         /\ m_current_step_obj' = Items[i].Object
         /\ Call(Items[i].Object)
    /\ UNCHANGED <<objectVars, Registration, ItemsRT, ItemsProcessed, erased, stage, it>>

\* The object has unregistered itself.
NormalReturnWithdrawn ==
    /\ stage = "normal" /\ running # NoObject /\ m_current_step_obj = NoObject
    /\ running' = NoObject
    /\ CountEntry
    /\ UNCHANGED <<objectVars, listVars, stage, updated>>

PushBack(processed) ==
    /\ Items' = Items \o Reverse(processed)
    /\ ItemsProcessed' = <<>>
    /\ stage' = "after" /\ it' = 0

\* With every CheckEvery-th entry the loop ends if the frame's time is used up.
NormalReturn ==
    /\ stage = "normal" /\ running # NoObject /\ m_current_step_obj # NoObject
    /\ \E dwUpdate \in 1..MaxInterval :
         LET processed == Append(ItemsProcessed, [Object |-> running, due |-> dwUpdate])
         IN  \/ ItemsProcessed' = processed /\ CountEntry /\ UNCHANGED <<Items, stage>>
             \/ it = CheckEvery - 1 /\ PushBack(processed)
    /\ running' = NoObject /\ m_current_step_obj' = NoObject
    /\ UNCHANGED <<objectVars, Registration, ItemsRT, erased, updated>>

NormalDone ==
    /\ stage = "normal" /\ running = NoObject /\ Tops = {}
    /\ PushBack(ItemsProcessed)
    /\ UNCHANGED <<objectVars, Registration, ItemsRT, m_current_step_obj, erased, running, updated>>

Update ==
    \/ StartUpdate \/ ServeRequest \/ EnterRealtime \/ EndUpdate
    \/ RealtimeSkip \/ RealtimeUpdate \/ RealtimeReturn \/ EnterNormal
    \/ NormalDrop \/ NormalUpdate \/ NormalReturnWithdrawn \/ NormalReturn \/ NormalDone

Next == Game \/ Update

Spec == Init /\ [][Next]_vars

\* Frame follows frame, every update returns, and time goes on.
FairSpec == Spec /\ WF_vars(Update) /\ SF_vars(Tick)

-----------------------------------------------------------------------------
(* What makes the scheduler correct.                                        *)

\* The objects that the lists hold, an object in the middle of its update included.
Held ==
    LET Names(s) == [i \in DOMAIN s |-> s[i].Object]
    IN  ItemsRT \o Names(Items) \o Names(ItemsProcessed) \o <<m_current_step_obj>>

\* No object is in two places (the VERIFYs of Registered): it would be updated
\* twice in a frame, and unregistering it would leave one of its entries.
OnePlace ==
    \A i, j \in DOMAIN Held : i # j /\ Held[i] = Held[j] => Held[i] = NoObject

Requests(o) == {i \in DOMAIN Registration : Registration[i].Object = o}

\* Registered: what the lists come to when the requests have been served.
Registered(o) ==
    IF Requests(o) = {} THEN o \in Range(Held)
    ELSE \E i \in Requests(o) : Registration[i].OP /\ \A j \in Requests(o) : j <= i

\* What the requests come to is what the owners have asked for, in whichever
\* order objects unregistered and registered again within their updates; only
\* a doomed object may have been dropped.
OwnersAreHeard ==
    \A o \in Objects :
        /\ Registered(o) => o \in registered
        /\ o \in registered \ doomed => Registered(o)

\* While Update runs it reads no object that was unregistered, and may be
\* gone, in the meantime: not in either loop, nor after an update returned.
NothingFreedIsTouched ==
    m_processing_now =>
        /\ Range(ItemsRT) \subseteq registered
        /\ \A i \in DOMAIN Items : Items[i].Object \in registered \cup {NoObject}
        /\ m_current_step_obj # NoObject => m_current_step_obj = running /\ running \in registered

\* An object that leaves the realtime list during its loop costs at most one
\* other object its update of this frame.
ErasingSkipsOne ==
    stage = "realtime" /\ running = NoObject /\ it >= Len(ItemsRT) =>
        Cardinality({i \in DOMAIN ItemsRT :
                        shedule_Needed(ItemsRT[i]) /\ ItemsRT[i] \notin updated}) <= erased

Contract == INSTANCE UpdateSchedule

\* The scheduler implements its contract: no object is updated that is not
\* registered, and none twice in a frame (the VERIFY of dbg_startframe).
IsUpdateSchedule == Contract!Spec

\* An object that stays registered is updated again and again, however little
\* time a frame has, whichever others come and go, and however often those
\* with shorter intervals are due again meanwhile: time goes on while it
\* waits, so that only the order of the heap keeps them from overtaking it
\* for ever.
EveryoneIsUpdated ==
    \A o \in Objects : <>[](o \in registered \ doomed) => []<>(running = o)

=============================================================================

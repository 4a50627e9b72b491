----------------------------- MODULE EventQueue -----------------------------
(* GameEventQueue (src/xrGame/game_sv_event_queue.cpp) between the threads  *)
(* of the transport, which post the delayed game events, and the main       *)
(* thread, which runs them at each update and erases them when a round      *)
(* starts or ends.  An event is a recycled heap object: its content may     *)
(* change while somebody still holds it.                                    *)
(* Kept: every list operation, who may call it when, the blocked clients,   *)
(* the stages of a client as far as they decide what it posts.  Left out:   *)
(* what the handlers do to the game (module ServerEntities), the packets,   *)
(* the server's own client, which is never blocked.                         *)
EXTENDS Integers, Sequences, FiniteSets, Subsequences, Functions

CONSTANTS
    MaxObjects,     \* bound: event objects that exist at a time
    InitialUnused,  \* objects the constructor makes: 16
    KeepUnused,     \* unused objects that are never deleted: 32
    Clients,
    None,           \* no object, nothing written to an object
    PatientLeavers  \* clients are destroyed only while no event is run

ASSUME SizeAssumption ==
    /\ MaxObjects \in Nat /\ InitialUnused \in 0..MaxObjects
    /\ KeepUnused \in Nat
    /\ None \notin 1..MaxObjects
    /\ PatientLeavers \in BOOLEAN

VARIABLES
    ready,      \* GameEventQueue::ready
    unused,     \* GameEventQueue::unused
    event,      \* what each object holds
    recent,     \* is LastTimeCreate less than a minute ago?
    blocked,    \* m_blocked_clients
    checked,    \* events past the test of CreateSafe and not yet queued
    main,       \* what the main thread does
    ge,         \* the object ProcessDelayedEvent has retrieved
    phase,      \* of the round
    stage,      \* of each client
    actors      \* the clients whose player has an entity

queue   == <<ready, unused, event, recent>>
players == <<stage, actors>>
vars    == <<queue, blocked, checked, main, ge, phase, players>>

Objects == 1..MaxObjects
Types   == {"create", "state", "started", "play", "hurt", "left"}
Events  == [type : Types, client : Clients]

ASSUME NoneAssumption == None \notin Events

About(t, c) == [type |-> t, client |-> c]

\* Found in net_players: neither before client_Find_Get nor after client_Destroy.
Known == {c \in Clients : stage[c] \notin {"out", "gone"}}

Stages ==
    {"out", "found", "joining", "attached", "loading", "playing",
     "leaving", "gone"}

TypeOK ==
    /\ ready \in Seq(Objects) /\ unused \in Seq(Objects)
    /\ event \in [Objects -> Events \cup {None}]
    /\ recent \in BOOLEAN
    /\ blocked \subseteq Clients /\ actors \subseteq Clients
    /\ checked \subseteq Events
    /\ main \in {"draining", "retrieved", "handled", "updating", "ending",
                 "stopped"}
    /\ ge \in Objects \cup {None}
    /\ main \in {"retrieved", "handled"} => ge # None
    /\ main \in {"draining", "updating", "ending"} => ge = None
    /\ phase \in {"pending", "progress"}
    /\ stage \in [Clients -> Stages]

-----------------------------------------------------------------------------
\* The lists under cs.

Allocated == Range(ready) \cup Range(unused)
Fresh     == CHOOSE o \in Objects \ Allocated : TRUE

\* Mutant of Push: the new event goes to the front.
PushFront(e) ==
    LET o == IF unused = <<>> THEN Fresh ELSE Last(unused)
    IN  /\ unused = <<>> => Allocated # Objects
        /\ ready' = <<o>> \o ready
        /\ event' = [event EXCEPT ![o] = e]
        /\ unused' = IF unused = <<>> THEN <<>> ELSE Front(unused)
        /\ recent' = (recent \/ unused = <<>>)

\* Create: the object last unused, or a new one.
Push(e) ==
    LET o == IF unused = <<>> THEN Fresh ELSE Last(unused)
    IN  /\ unused = <<>> => Allocated # Objects
        /\ ready' = Append(ready, o)
        /\ event' = [event EXCEPT ![o] = e]
        /\ unused' = IF unused = <<>> THEN <<>> ELSE Front(unused)
        /\ recent' = (recent \/ unused = <<>>)

\* unused once `objects' are added to it: without a recent creation those
\* beyond KeepUnused + 1 are deleted.
Pooled(objects) ==
    LET room == IF KeepUnused < Len(unused) THEN 0
                ELSE KeepUnused + 1 - Len(unused)
    IN  unused \o (IF recent \/ Len(objects) <= room THEN objects
                   ELSE SubSeq(objects, 1, room))

\* Mutant of Erase: what goes to unused stays in ready.
EraseKeepsReady(E) ==
    LET S == {o \in Objects : event[o] \in E}
    IN  /\ unused' = Pooled(Kept(ready, S))
        /\ ready' = ready
        /\ UNCHANGED <<event, recent>>

\* EraseEvents of the events E.
Erase(E) ==
    LET S == {o \in Objects : event[o] \in E}
    IN  /\ unused' = Pooled(Kept(ready, S))
        /\ ready' = Kept(ready, Objects \ S)
        /\ UNCHANGED <<event, recent>>

-----------------------------------------------------------------------------
\* The main thread: xrServer::Update.

Retreive ==
    /\ main = "draining" /\ ready # <<>>
    /\ ge' = Head(ready) /\ main' = "retrieved"
    /\ UNCHANGED <<queue, blocked, checked, phase, players>>

\* Retreive finds nothing, and deletes an unused object if there are many.
Drained ==
    /\ main = "draining" /\ ready = <<>>
    /\ unused' = IF ~recent /\ KeepUnused < Len(unused)
                 THEN Front(unused) ELSE unused
    /\ main' = "updating"
    /\ UNCHANGED <<ready, event, recent, blocked, checked, ge, phase, players>>

\* OnEvent, by the type that the object holds by now.
RunCreate(c) ==
    /\ event[ge] = About("create", c)
    /\ stage' = IF stage[c] = "joining"
                THEN [stage EXCEPT ![c] = "attached"] ELSE stage
    /\ main' = "handled"
    /\ UNCHANGED <<blocked, actors>>

RunState(c) ==
    /\ event[ge] = About("state", c) /\ c \in Known
    /\ stage' = IF stage[c] = "loading"
                THEN [stage EXCEPT ![c] = "playing"] ELSE stage
    /\ main' = "handled"
    /\ UNCHANGED <<blocked, actors>>

\* R_ASSERT(CL) ends the program.
RunStateOfNobody(c) ==
    /\ event[ge] = About("state", c) /\ c \notin Known
    /\ main' = "stopped"
    /\ UNCHANGED <<blocked, players>>

\* The name of the map is not the server's if ~rightMap.
RunStarted(c, rightMap) ==
    /\ event[ge] = About("started", c)
    /\ blocked' = IF rightMap THEN blocked \ {c} ELSE blocked
    /\ main' = "handled"
    /\ UNCHANGED players

RunLeft(c) ==
    /\ event[ge] = About("left", c)
    /\ actors' = actors \ {c}
    /\ main' = "handled"
    /\ UNCHANGED <<blocked, stage>>

RunOther(c) ==
    /\ event[ge] \in {About("play", c), About("hurt", c)}
    /\ main' = "handled"
    /\ UNCHANGED <<blocked, players>>

OnEvent ==
    /\ main = "retrieved"
    /\ \E c \in Clients :
        \/ RunCreate(c) \/ RunState(c) \/ RunStateOfNobody(c)
        \/ \E rightMap \in BOOLEAN : RunStarted(c, rightMap)
        \/ RunLeft(c) \/ RunOther(c)
    /\ UNCHANGED <<queue, checked, ge, phase>>

\* Release recycles what is at the front by now.
Release ==
    /\ main = "handled" /\ ready # <<>>
    /\ unused' = Pooled(<<Head(ready)>>)
    /\ ready' = Tail(ready)
    /\ main' = "draining" /\ ge' = None
    /\ UNCHANGED <<event, recent, blocked, checked, phase, players>>

\* R_ASSERT(!ready.empty()) ends the program.
ReleaseOfNothing ==
    /\ main = "handled" /\ ready = <<>>
    /\ main' = "stopped"
    /\ UNCHANGED <<queue, blocked, checked, ge, phase, players>>

\* Level().Send of the local client takes csMessage, as the receiving does.
csMessageFree == ~ \E e \in checked : e.type = "play"

\* A player gets an entity.
Spawn(c) ==
    /\ main = "updating"
    /\ stage[c] = "playing"
    /\ actors' = actors \cup {c}
    /\ UNCHANGED <<queue, blocked, checked, main, ge, phase, stage>>

\* An actor is hit or killed; the local client posts that and is not blocked.
Hurt(v) ==
    /\ main = "updating"
    /\ csMessageFree
    /\ v \in actors
    /\ Push(About("hurt", v))
    /\ UNCHANGED <<blocked, checked, main, ge, phase, players>>

\* SLS_Clear destroys the entities.
OnRoundStart ==
    /\ main = "updating" /\ phase = "pending"
    /\ phase' = "progress" /\ main' = "draining"
    /\ Erase(Events)
    /\ actors' = {}
    /\ UNCHANGED <<blocked, checked, ge, stage>>

OnRoundEnd ==
    /\ main = "updating" /\ phase = "progress"
    /\ phase' = "pending" /\ main' = "ending"
    /\ Erase(Events)
    /\ UNCHANGED <<blocked, checked, ge, players>>

\* The last lines of OnRoundEnd: the connected clients are ignored.
IgnoreEvents ==
    /\ main = "ending"
    /\ blocked' = blocked \cup Known
    /\ main' = "draining"
    /\ UNCHANGED <<queue, checked, ge, phase, players>>

NextUpdate ==
    /\ main = "updating" /\ main' = "draining"
    /\ UNCHANGED <<queue, blocked, checked, ge, phase, players>>

-----------------------------------------------------------------------------
\* The threads of the transport.

\* new_client puts the client in net_players; its event is not yet created.
Connect(c) ==
    /\ stage[c] = "out" /\ stage' = [stage EXCEPT ![c] = "found"]
    /\ UNCHANGED <<queue, blocked, checked, main, ge, phase, actors>>

\* The test of CreateSafe, by which the event passes or is ignored.
CheckCreate(c) ==
    /\ stage[c] = "found" /\ stage' = [stage EXCEPT ![c] = "joining"]
    /\ checked' = IF c \in blocked THEN checked
                  ELSE checked \cup {About("create", c)}
    /\ UNCHANGED <<queue, blocked, main, ge, phase, actors>>

\* Mutant of CheckPlay: the event goes to Create without a test.
CheckPlayUntested(c) ==
    /\ csMessageFree
    /\ stage[c] = "playing"
    /\ checked' = checked \cup {About("play", c)}
    /\ UNCHANGED <<queue, blocked, main, ge, phase, players>>

\* The same for a message that is obeyed only by who takes part in the round.
CheckPlay(c) ==
    /\ csMessageFree
    /\ stage[c] = "playing" /\ c \notin blocked
    /\ checked' = checked \cup {About("play", c)}
    /\ UNCHANGED <<queue, blocked, main, ge, phase, players>>

\* CreateSafe goes on with Create.
PushChecked ==
    /\ \E e \in checked : Push(e) /\ checked' = checked \ {e}
    /\ UNCHANGED <<blocked, main, ge, phase, players>>

\* The client answers its attachment with M_CREATE_PLAYER_STATE.
SendState(c) ==
    /\ csMessageFree
    /\ stage[c] = "attached" /\ stage' = [stage EXCEPT ![c] = "loading"]
    /\ Push(About("state", c))
    /\ UNCHANGED <<blocked, checked, main, ge, phase, actors>>

SendStarted(c) ==
    /\ csMessageFree
    /\ stage[c] = "playing"
    /\ Push(About("started", c))
    /\ UNCHANGED <<blocked, checked, main, ge, phase, players>>

\* OnCL_Disconnected: no event without a player state; its sender, 0, is
\* never blocked.
OnCL_Disconnected(c) ==
    /\ stage[c] \in {"joining", "attached", "loading", "playing"}
    /\ About("create", c) \notin checked
    /\ IF stage[c] = "playing" THEN Push(About("left", c)) ELSE UNCHANGED queue
    /\ stage' = [stage EXCEPT ![c] = "leaving"]
    /\ UNCHANGED <<blocked, checked, main, ge, phase, actors>>

client_Destroy(c) ==
    /\ stage[c] = "leaving"
    /\ PatientLeavers => main \notin {"retrieved", "handled"}
    /\ IF c \in actors THEN Erase({About("hurt", c)}) ELSE UNCHANGED queue
    /\ stage' = [stage EXCEPT ![c] = "gone"]
    /\ UNCHANGED <<blocked, checked, main, ge, phase, actors>>

MinutePasses ==
    /\ recent /\ recent' = FALSE
    /\ UNCHANGED <<ready, unused, event, blocked, checked, main, ge, phase,
                   players>>

-----------------------------------------------------------------------------
Init ==
    /\ ready = <<>> /\ unused = [i \in 1..InitialUnused |-> i]
    /\ event = [o \in Objects |-> None]
    /\ recent = FALSE
    /\ blocked = {} /\ checked = {}
    /\ main = "draining" /\ ge = None
    /\ phase = "pending"
    /\ stage = [c \in Clients |-> "out"] /\ actors = {}

Processing == Retreive \/ Drained \/ OnEvent \/ Release \/ ReleaseOfNothing

Next ==
    /\ main # "stopped"
    /\ \/ Processing
       \/ OnRoundStart \/ OnRoundEnd \/ IgnoreEvents \/ NextUpdate
       \/ \E c \in Clients :
            \/ Spawn(c) \/ Hurt(c) \/ Connect(c) \/ CheckCreate(c) \/ CheckPlay(c)
            \/ SendState(c) \/ SendStarted(c)
            \/ OnCL_Disconnected(c) \/ client_Destroy(c)
       \/ PushChecked \/ MinutePasses

Spec == Init /\ [][Next]_vars

\* The main thread keeps updating; nothing is asked of the clients.
FairSpec ==
    Spec /\ WF_vars(main # "stopped" /\
                    (Processing \/ IgnoreEvents \/ NextUpdate))

-----------------------------------------------------------------------------
\* An event object is in one place once: Create never hands out an object
\* that is still queued, and no object is recycled or deleted twice.
PoolIntegrity ==
    LET pool == ready \o unused
    IN  \A i, j \in DOMAIN pool : i # j => pool[i] # pool[j]

Stale(e) == e.type = "play" /\ e.client \in blocked

\* During a round at most one play event of ignored clients waits or is about
\* to: the one that CreateSafe let pass before OnRoundEnd had them ignored,
\* and whose thread did not go on until the next round.  Any other was queued
\* by then and is gone before OnRoundStart, run by ProcessDelayedEvent or
\* erased.  Create events, which CreateSafe lets pass as well, do not count:
\* of several ignored clients that join, each may have one.
OneStaleEvent ==
    phase = "progress" =>
        Cardinality({i \in DOMAIN ready : Stale(event[ready[i]])})
            + Cardinality({e \in checked : Stale(e)}) <= 1

\* ready without the event that is being run.
Waiting == IF ge = None THEN ready ELSE Tail(ready)

Log == INSTANCE EventLog WITH
    NoEvent <- None,
    pending <- [i \in DOMAIN Waiting |-> event[Waiting[i]]],
    running <- IF ge = None THEN None ELSE event[ge]

\* With patient leavers the recycled objects make a log of events: each is
\* run once, in order, and has its content from Retreive to Release.
IsEventLog == Log!Spec

\* A queued notice that a player has left does not wait for ever, however
\* much the other clients post.
LeaversServed ==
    \A c \in Clients :
        LET Waits == \E i \in DOMAIN ready : event[ready[i]] = About("left", c)
        IN  Waits ~> (~Waits \/ main = "stopped")

\* The assertion of Release, game_sv_event_queue.cpp:118.
ReleaseHasEvent == main = "handled" => ready # <<>>

=============================================================================

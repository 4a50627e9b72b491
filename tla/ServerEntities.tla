--------------------------- MODULE ServerEntities ---------------------------
(***************************************************************************)
(* The entity registry of the multiplayer server (xrServer) driven by the  *)
(* team-deathmatch game mode (game_sv_mp / game_sv_Deathmatch /            *)
(* game_sv_TeamDeathmatch) on a dedicated server.                          *)
(*                                                                         *)
(* The registry is a map from 16-bit ids to entities.  Entities form a     *)
(* forest through ID_Parent and the ordered vector `children'; each entity *)
(* is owned by a client object, and each client object points back at its  *)
(* main entity.  Every handler runs on the main thread and Level().Send is *)
(* synchronous on the server, so the events a handler sends to itself      *)
(* (GE_DESTROY, GE_OWNERSHIP_REJECT) are executed inside that handler.     *)
(* One action is therefore one handler together with everything it sends.  *)
(* The one loop that is split is the corpse removal of game_sv_mp::Update: *)
(* it advances one iteration per step while `sweep' keeps the main thread  *)
(* busy, so no other handler runs in between.                              *)
(*                                                                         *)
(* Clients are client OBJECTS (xrClientData): a name connects again only   *)
(* when nothing refers to its former object.  A free id may be reused at   *)
(* once, which allows more than the generator of id_generator.h does.      *)
(***************************************************************************)
EXTENDS Subsequences

CONSTANTS
    Ids,            \* entity ids
    Clients,        \* remote client objects
    SvClient,       \* the server's own client (SV_Client)
    NoId,           \* the id 0xffff: no parent, no entity
    NoClient,       \* the owner NULL
    MaxCorpses,     \* g_dwMaxCorpses
    Loadouts,       \* item kinds a player may have bought, in spawn order
    FreshGameIds,   \* what ps->GameID may hold before the first SpawnPlayer
    RestartAnyTime, \* may g_restart cut a round short while a client is joining?
    MaxLeaving      \* bound: disconnect events queued at once

GearKinds == {"weapon", "knife", "outfit"}
ItemKinds == GearKinds \cup {"bag"}
BodyKinds == {"actor", "spectator"}
Phases    == {"pending", "inprogress", "scores"}

ASSUME SentinelAssumption ==
    /\ NoId \notin Ids
    /\ SvClient \notin Clients
    /\ NoClient \notin Clients \cup {SvClient}
ASSUME BoundAssumption ==
    /\ IsFiniteSet(Ids)
    /\ MaxCorpses \in Nat
    /\ Loadouts \subseteq Seq(GearKinds)
    /\ FreshGameIds \subseteq Ids \cup {NoId}
    /\ RestartAnyTime \in BOOLEAN
    /\ MaxLeaving \in Nat \ {0}

VARIABLES
    ents,       \* xrServer::entities, free ids holding NoEntity
    status,     \* client object: "absent", "joining" (ps exists), "ready" (net_Ready)
    mainId,     \* the entity xrClientData::owner_ points at
    gameId,     \* ps->GameID
    flags,      \* ps->flags__: "dead" (VERY_VERY_DEAD), "watching" (SPECTATOR)
    corpses,    \* m_CorpseList
    leaving,    \* queued GAME_EVENT_PLAYER_DISCONNECTED events: the GameID each carries
    phase,      \* game phase
    ignored,    \* m_blocked_clients of the event queue: whose game events are dropped
    sweep       \* 0, or 1 + the loop index of the corpse removal in progress

clientVars == <<status, mainId, gameId, flags>>
roundVars  == <<phase, ignored>>
gameVars   == <<corpses, leaving, roundVars, sweep>>
vars       == <<ents, clientVars, gameVars>>

-----------------------------------------------------------------------------
(* Entities, and the operations of xrServer on the map `e' of entities.     *)

NoEntity == [kind |-> "free", parent |-> NoId, kids |-> <<>>,
             owner |-> NoClient, alive |-> FALSE]

Entity == [kind   : ItemKinds \cup BodyKinds \cup {"free"},
           parent : Ids \cup {NoId},
           kids   : Seq(Ids),
           owner  : Clients \cup {SvClient, NoClient},
           alive  : BOOLEAN]

Live(e) == {x \in Ids : e[x].kind # "free"}
Free(e) == Ids \ Live(e)

\* std::find on a children vector.
Position(s, x) == CHOOSE i \in DOMAIN s : s[i] = x

\* Process_spawn of a parentless entity.
Created(e, x, k, c) ==
    [e EXCEPT ![x] = [kind |-> k, parent |-> NoId, kids |-> <<>>,
                      owner |-> c, alive |-> (k = "actor")]]

\* Process_spawn of the items xs[i] of kind ks[i] under a, owned by the server.
Equipped(e, a, xs, ks) ==
    [x \in Ids |->
        IF x = a THEN [e[a] EXCEPT !.kids = @ \o xs]
        ELSE IF x \in ToSet(xs)
             THEN [kind |-> ks[Position(xs, x)], parent |-> a, kids |-> <<>>,
                   owner |-> SvClient, alive |-> FALSE]
             ELSE e[x]]

\* Perform_transfer of the items of xs, in that order.
Moved(e, xs, from, to) ==
    [x \in Ids |->
        IF x = from THEN [e[x] EXCEPT !.kids = Kept(@, Ids \ ToSet(xs))]
        ELSE IF x = to THEN [e[x] EXCEPT !.kids = @ \o xs]
        ELSE IF x \in ToSet(xs) THEN [e[x] EXCEPT !.parent = to]
        ELSE e[x]]

\* Mutants of Destroyed: the slot is freed without being cleared; the parent's
\* vector keeps the destroyed child.
DestroyedNotCleared(e, S) ==
    [x \in Ids |-> IF x \in S THEN [e[x] EXCEPT !.kind = "free"]
                   ELSE [e[x] EXCEPT !.kids = Kept(@, Ids \ S)]]
DestroyedStillListed(e, S) == [x \in Ids |-> IF x \in S THEN NoEntity ELSE e[x]]

\* Process_event_destroy of the entities S: each leaves its parent's vector.
Destroyed(e, S) ==
    [x \in Ids |-> IF x \in S THEN NoEntity
                   ELSE [e[x] EXCEPT !.kids = Kept(@, Ids \ S)]]

\* Process_event_ownership of the free item x by a.
Taken(e, a, x) == [e EXCEPT ![x].parent = a, ![a].kids = Append(@, x)]

\* Process_event_reject of the items S held by a.
Released(e, a, S) ==
    [x \in Ids |-> IF x \in S THEN [e[x] EXCEPT !.parent = NoId]
                   ELSE IF x = a THEN [e[x] EXCEPT !.kids = Kept(@, Ids \ S)]
                   ELSE e[x]]

\* `ID_Parent = 0xffff; C.erase(c)' with c at the index i of the vector of p.
Unlinked(e, p, x, i) ==
    [e EXCEPT ![x].parent = NoId, ![p].kids = RemoveAt(@, i)]

\* Mutant of Disowned: only an actor's body is handed over.
DisownedIfActor(e, x) ==
    IF x \in Ids /\ e[x].kind = "actor" THEN [e EXCEPT ![x].owner = SvClient] ELSE e

\* AllowDeadBodyRemove: the server becomes the owner of the entity, if there is one.
Disowned(e, x) ==
    IF x \in Live(e) THEN [e EXCEPT ![x].owner = SvClient] ELSE e

-----------------------------------------------------------------------------
(* What the game mode asks of the registry.                                 *)

IsActor(x) == x \in Ids /\ ents[x].kind = "actor"

\* KillPlayer flags the player whose entity is an actor; GE_DIE follows as a message.
Killed(c) == IF IsActor(gameId[c]) THEN flags[c] \cup {"dead"} ELSE flags[c]

\* Mutant of FlagsAs: a spectator does not set the dead flag.
FlagsAsNoSpectatorFlag(k, fl) == IF k = "actor" THEN fl \ {"dead"} ELSE fl

\* SpawnPlayer's flags: only an actor clears the dead flag.
FlagsAs(k, fl) == IF k = "actor" THEN fl \ {"dead"} ELSE fl \cup {"dead"}

\* Mutant of Possesses: the GameID follows actors only.
PossessesActorId(c, x, k, fl) ==
    /\ mainId' = [mainId EXCEPT ![c] = x]
    /\ gameId' = IF k = "actor" THEN [gameId EXCEPT ![c] = x] ELSE gameId
    /\ flags'  = [flags EXCEPT ![c] = FlagsAs(k, fl)]

\* The client's pointers and flags after SpawnPlayer made x its entity of kind k.
Possesses(c, x, k, fl) ==
    /\ mainId' = [mainId EXCEPT ![c] = x]
    /\ gameId' = [gameId EXCEPT ![c] = x]
    /\ flags'  = [flags EXCEPT ![c] = FlagsAs(k, fl)]

\* Mutant of Kit: the bag is given after the weapons.
KitBagLast(loadout) == Append(loadout, "bag")

\* The bag RespawnPlayer gives, then the items SpawnWeaponsForActor gives.
Kit(loadout) == <<"bag">> \o loadout

\* n distinct free ids of e, in the order they are handed out.
FreshIds(e, n) ==
    {s \in [1..n -> Free(e)] : \A i, j \in 1..n : s[i] = s[j] => i = j}

\* m_CorpseList once OnDestroyObject has run for the entities S.
CorpsesWithout(S) == Kept(corpses, Ids \ S)

\* An action outside the corpse removal finds the main thread idle.
Idle == sweep = 0 /\ UNCHANGED sweep

-----------------------------------------------------------------------------
(* Clients come and go.                                                     *)

\* AttachNewClient .. OnPlayerConnect: a new client object with a player state.
Connect(c) ==
    /\ Idle
    /\ status[c] = "absent"
    /\ \A x \in Ids : ents[x].owner # c
    /\ status' = [status EXCEPT ![c] = "joining"]
    /\ mainId' = [mainId EXCEPT ![c] = NoId]
    /\ \E g \in FreshGameIds : gameId' = [gameId EXCEPT ![c] = g]
    /\ flags' = [flags EXCEPT ![c] = {"watching"}]
    /\ UNCHANGED <<ents, corpses, leaving, roundVars>>

\* M_CLIENTREADY: OnPlayerConnectFinished.
ConnectFinished(c) ==
    /\ Idle
    /\ status[c] = "joining"
    /\ \E x \in Free(ents) :
        /\ ents' = Created(ents, x, "spectator", c)
        /\ Possesses(c, x, "spectator", flags[c] \cup {"watching"})
    /\ status' = [status EXCEPT ![c] = "ready"]
    /\ UNCHANGED <<corpses, leaving, roundVars>>

\* OnCL_Disconnected queues the event and leaves every entity with its owner.  Its
\* network id, which the event queue may go on ignoring, never comes back.
Disconnect(c) ==
    /\ Idle
    /\ status[c] # "absent"
    /\ Len(leaving) < MaxLeaving
    /\ status' = [status EXCEPT ![c] = "absent"]
    /\ leaving' = Append(leaving, gameId[c])
    /\ ignored' = ignored \ {c}
    /\ UNCHANGED <<ents, mainId, gameId, flags, corpses, phase>>

\* Mutant of PlayerDisconnected: the body keeps its owner.
PlayerDisconnectedKeepsOwner ==
    /\ Idle
    /\ leaving # <<>>
    /\ leaving' = Tail(leaving)
    /\ UNCHANGED <<ents, corpses, clientVars, roundVars>>

\* ProcessDelayedEvent runs OnPlayerDisconnect with the GameID of the event.
PlayerDisconnected ==
    /\ Idle
    /\ leaving # <<>>
    /\ leaving' = Tail(leaving)
    /\ ents' = Disowned(ents, Head(leaving))
    /\ corpses' = IF Head(leaving) \in Live(ents)
                  THEN Append(corpses, Head(leaving)) ELSE corpses
    /\ UNCHANGED <<clientVars, roundVars>>

-----------------------------------------------------------------------------
(* Bodies.                                                                  *)

\* RespawnPlayer + SpawnWeaponsForActor when the result is an actor: e is the
\* registry after the former entity was given up.
RespawnAsActor(c, e) ==
    \E loadout \in Loadouts :
        \E xs \in FreshIds(ents, 2 + Len(loadout)) :
            /\ ents' = Equipped(Created(e, xs[1], "actor", c), xs[1], Tail(xs), Kit(loadout))
            /\ Possesses(c, xs[1], "actor", flags[c])

\* RespawnPlayer of a spectator: it passes to the server, which destroys it.
SpectatorEnters(c) ==
    /\ ents[mainId[c]].kind = "spectator"
    /\ RespawnAsActor(c, Destroyed(Disowned(ents, mainId[c]), {mainId[c]}))
    /\ corpses' = CorpsesWithout({mainId[c]})

MayRespawn(c) ==
    /\ Idle
    /\ phase = "inprogress"
    /\ status[c] = "ready"
    /\ "dead" \in flags[c] /\ "watching" \notin flags[c]
    /\ mainId[c] # NoId

\* OnPlayerReady: an actor becomes a spectator, a spectator an actor.
PlayerReady(c) ==
    /\ MayRespawn(c)
    /\ \/ SpectatorEnters(c)
       \/ /\ IsActor(mainId[c])
          /\ \E x \in Free(ents) :
                /\ ents' = Created(Disowned(ents, gameId[c]), x, "spectator", c)
                /\ Possesses(c, x, "spectator", flags[c])
          /\ corpses' = Append(corpses, mainId[c])
    /\ UNCHANGED <<status, leaving, roundVars>>

\* check_ForceRespawn: always an actor; a body left behind becomes a corpse.
ForceRespawn(c) ==
    /\ MayRespawn(c)
    /\ \/ SpectatorEnters(c)
       \/ /\ IsActor(mainId[c])
          /\ RespawnAsActor(c, Disowned(Disowned(ents, gameId[c]), mainId[c]))
          /\ corpses' = Append(corpses, mainId[c])
    /\ UNCHANGED <<status, leaving, roundVars>>

\* CreateSafe drops the menu and shopping events of the clients that have not
\* reported the start of the round.
Obeyed(c) == status[c] = "ready" /\ c \notin ignored

\* GAME_EVENT_PLAYER_STARTED, with the name of the server's map.
PlayerStarted(c) ==
    /\ Idle
    /\ c \in ignored
    /\ ignored' = ignored \ {c}
    /\ UNCHANGED <<ents, clientVars, corpses, leaving, phase>>

\* Mutant of SelectSpectator: the GameID is read after SpawnPlayer changed it.
SelectSpectatorLateId(c) ==
    /\ Idle
    /\ Obeyed(c)
    /\ IsActor(mainId[c])
    /\ \E x \in Free(ents) :
         /\ ents' = Created(Disowned(ents, gameId[c]), x, "spectator", c)
         /\ Possesses(c, x, "spectator", Killed(c) \cup {"watching"})
         /\ corpses' = Append(corpses, x)
    /\ UNCHANGED <<status, leaving, roundVars>>

\* OnPlayerSelectSpectator.
SelectSpectator(c) ==
    /\ Idle
    /\ Obeyed(c)
    /\ LET fl == Killed(c) \cup {"watching"} IN
        \/ /\ IsActor(mainId[c])
           /\ \E x \in Free(ents) :
                /\ ents' = Created(Disowned(ents, gameId[c]), x, "spectator", c)
                /\ Possesses(c, x, "spectator", fl)
           /\ corpses' = Append(corpses, gameId[c])
        \/ /\ ~IsActor(mainId[c])
           /\ flags' = [flags EXCEPT ![c] = fl]
           /\ UNCHANGED <<ents, mainId, gameId, corpses>>
    /\ UNCHANGED <<status, leaving, roundVars>>

\* OnPlayerChangeTeam to another team.
ChangeTeam(c) ==
    /\ Idle
    /\ Obeyed(c)
    /\ flags' = [flags EXCEPT ![c] = Killed(c) \cup {"watching"}]
    /\ UNCHANGED <<ents, status, mainId, gameId, corpses, leaving, roundVars>>

\* OnPlayerChangeSkin: it stores the skin first, so its comparison with the
\* skin always returns early.
ChangeSkin(c) ==
    /\ Idle
    /\ Obeyed(c)
    /\ flags' = [flags EXCEPT ![c] = @ \ {"watching"}]
    /\ UNCHANGED <<ents, status, mainId, gameId, corpses, leaving, roundVars>>

\* The server client's update says the actor's health is gone.
BodyDies(x) ==
    /\ Idle
    /\ IsActor(x) /\ ents[x].alive
    /\ ents' = [ents EXCEPT ![x].alive = FALSE]
    /\ UNCHANGED <<clientVars, corpses, leaving, roundVars>>

\* GAME_EVENT_PLAYER_KILLED: OnPlayerKilled finds the player by the entity's owner.
PlayerKilled(c) ==
    /\ Idle
    /\ IsActor(gameId[c]) /\ ents[gameId[c]].owner = c
    /\ flags' = [flags EXCEPT ![c] = @ \cup {"dead"}]
    /\ UNCHANGED <<ents, status, mainId, gameId, corpses, leaving, roundVars>>

-----------------------------------------------------------------------------
(* Items.  `s' is the sender: the server's client or a remote one.          *)

\* The items of the actor a that its bag takes along: those of the buy list
\* except outfits and except the item in hands.
Transferable(a, inHands) ==
    {x \in ToSet(ents[a].kids) : ents[x].kind = "weapon"} \ inHands

Knives(a) == {x \in ToSet(ents[a].kids) : ents[x].kind = "knife"}

\* Process_event_ownership of a ground bag, OnTouchItem: its contents, last
\* first, go to the actor and the bag is destroyed.
BagOpened(a, b) ==
    Destroyed(Moved(ents, Reverse(ents[b].kids), b, a), {b})

\* GE_OWNERSHIP_TAKE of the free item x by the actor a.
TakeItem(s, a, x) ==
    /\ Idle
    /\ IsActor(a) /\ ents[x].kind \in ItemKinds
    /\ ents[x].parent = NoId
    /\ s \in {SvClient, ents[a].owner}
    /\ ents[a].alive
    /\ \/ /\ ents[x].kind = "bag"
          /\ ents' = BagOpened(a, x)
          /\ corpses' = CorpsesWithout({x})
       \/ /\ ents[x].kind # "bag"
          /\ ents' = Taken(ents, a, x)
          /\ UNCHANGED corpses
    /\ UNCHANGED <<clientVars, leaving, roundVars>>

\* Process_event_reject of the bag b: the position c of b is found first, then
\* OnDetachItem moves items into b, destroys knives and rejects the item in
\* hands (unless it is a grenade being thrown), and only then c is erased.
BagDropped(a, b, inHands, rejected) ==
    LET c  == Position(ents[a].kids, b)
        e1 == Moved(ents, Kept(ents[a].kids, Transferable(a, inHands)), a, b)
        e2 == Destroyed(e1, Knives(a))
    IN  Unlinked(Released(e2, a, rejected), a, b, c)

\* GE_OWNERSHIP_REJECT of the item x held by the actor a.
RejectItem(a, x) ==
    /\ Idle
    /\ IsActor(a) /\ x \in ToSet(ents[a].kids) /\ ents[x].parent = a
    /\ \/ /\ ents[x].kind = "bag"
          /\ \E inHands \in {{}} \cup {{w} : w \in Transferable(a, {})} :
                \E rejected \in {{}, inHands} :
                    ents' = BagDropped(a, x, inHands, rejected)
       \/ /\ ents[x].kind # "bag"
          /\ ents' = Unlinked(ents, a, x, Position(ents[a].kids, x))
    /\ UNCHANGED <<clientVars, corpses, leaving, roundVars>>

\* GE_DESTROY of an item by the server's client: a used item, or an item or a
\* bag whose time on the ground is over (children are destroyed first).
DestroyItem(x) ==
    /\ Idle
    /\ ents[x].kind \in ItemKinds
    /\ ents[x].kind = "bag" => ents[x].parent = NoId
    /\ ents' = Destroyed(ents, {x} \cup ToSet(ents[x].kids))
    /\ corpses' = CorpsesWithout({x} \cup ToSet(ents[x].kids))
    /\ UNCHANGED <<clientVars, leaving, roundVars>>

\* OnPlayerBuyFinished: what the server's actor object carries, bag and knife
\* excepted, is destroyed; a living player gets the new items.  The inventory
\* of that object may lag behind the children vector.
BuyItems(c) ==
    /\ Idle
    /\ Obeyed(c)
    /\ IsActor(gameId[c])
    /\ \E gone \in SUBSET {x \in ToSet(ents[gameId[c]].kids) :
                                ents[x].kind \notin {"bag", "knife"}} :
        LET e == Destroyed(ents, gone) IN
        /\ corpses' = CorpsesWithout(gone)
        /\ \/ "dead" \in flags[c] /\ ents' = e
           \/ /\ "dead" \notin flags[c]
              /\ \E loadout \in Loadouts : \E xs \in FreshIds(ents, Len(loadout)) :
                    ents' = Equipped(e, gameId[c], xs, loadout)
    /\ UNCHANGED <<clientVars, leaving, roundVars>>

-----------------------------------------------------------------------------
(* The corpse removal of game_sv_mp::Update, one iteration of its loop per step. *)

StartCorpseRemoval ==
    /\ sweep = 0
    /\ Len(corpses) > MaxCorpses
    /\ sweep' = 1
    /\ UNCHANGED <<ents, clientVars, corpses, leaving, roundVars>>

CorpseRemovalEnds ==
    /\ sweep # 0
    /\ sweep > Len(corpses) \/ Len(corpses) <= MaxCorpses
    /\ sweep' = 0
    /\ UNCHANGED <<ents, clientVars, corpses, leaving, roundVars>>

\* The loop body for the entry at the index of the sweep.
InRemovalLoop == sweep \in 1..Len(corpses) /\ Len(corpses) > MaxCorpses

\* Mutant of SkipCorpse: the index stays when the body still holds items.
SkipCorpseSameIndex ==
    /\ InRemovalLoop
    /\ LET known == corpses[sweep] \in Live(ents) IN
        /\ ~(known /\ ents[corpses[sweep]].kids = <<>>)
        /\ corpses' = IF known THEN corpses ELSE RemoveAt(corpses, sweep)
    /\ UNCHANGED <<ents, clientVars, leaving, roundVars, sweep>>

\* An entry without an entity is dropped; a body that still holds items is passed over.
SkipCorpse ==
    /\ InRemovalLoop
    /\ LET known == corpses[sweep] \in Live(ents) IN
        /\ ~(known /\ ents[corpses[sweep]].kids = <<>>)
        /\ corpses' = IF known THEN corpses ELSE RemoveAt(corpses, sweep)
        /\ sweep' = IF known THEN sweep + 1 ELSE sweep
    /\ UNCHANGED <<ents, clientVars, leaving, roundVars>>

\* GE_DESTROY is executed at once, and its OnDestroyObject already takes the
\* entry out; m_CorpseList.erase(begin() + i) then takes out what has moved to
\* the index i.  With nothing there it is erase(end()): the list stays as it is
\* or loses its last entry (a crash ends the run).
RemoveCorpse ==
    /\ InRemovalLoop
    /\ LET x    == corpses[sweep]
           left == CorpsesWithout({x})
       IN  /\ x \in Live(ents) /\ ents[x].kids = <<>>
           /\ ents' = Destroyed(ents, {x})
           /\ mainId' = [c \in Clients |->
                            IF mainId[c] = x /\ ents[x].owner = c THEN NoId ELSE mainId[c]]
           /\ IF sweep <= Len(left) THEN corpses' = RemoveAt(left, sweep)
              ELSE corpses' \in {left, Front(left)}
    /\ UNCHANGED <<status, gameId, flags, leaving, roundVars, sweep>>

-----------------------------------------------------------------------------
(* Rounds.                                                                  *)

Connected == {c \in Clients : status[c] # "absent"}

\* One fresh id for each client of C.
FreshFor(C, e) ==
    {f \in [C -> Free(e)] : \A c, d \in C : f[c] = f[d] => c = d}

\* The registry with a spectator f[c] for each c of C, and the clients' pointers.
WithSpectators(e, C, f) ==
    [x \in Ids |-> IF \E c \in C : f[c] = x
                   THEN [NoEntity EXCEPT !.kind = "spectator",
                                         !.owner = CHOOSE c \in C : f[c] = x]
                   ELSE e[x]]

\* The limits of checkForRoundEnd are reached: the winner's phase.
ScoreReached ==
    /\ Idle
    /\ phase = "inprogress"
    /\ phase' = "scores"
    /\ UNCHANGED <<ents, clientVars, corpses, leaving, ignored>>

\* OnRoundEnd: only a round cut short by g_restart is still in progress, and then
\* every client with a player state gets a spectator; delayed events are erased
\* and those the clients still send are dropped.
RoundEnd ==
    /\ Idle
    /\ \/ /\ phase = "inprogress"
          /\ RestartAnyTime \/ \A c \in Clients : status[c] # "joining"
          /\ \E f \in FreshFor(Connected, ents) :
                /\ ents' = WithSpectators(ents, Connected, f)
                /\ mainId' = [c \in Clients |-> IF c \in Connected THEN f[c] ELSE mainId[c]]
                /\ gameId' = [c \in Clients |-> IF c \in Connected THEN f[c] ELSE gameId[c]]
          /\ flags' = [c \in Clients |-> IF c \in Connected
                                         THEN flags[c] \cup {"dead"} ELSE flags[c]]
       \/ /\ phase # "inprogress"
          /\ UNCHANGED <<ents, mainId, gameId, flags>>
    /\ phase' = "pending"
    /\ leaving' = <<>>
    /\ ignored' = ignored \cup Connected
    /\ UNCHANGED <<status, corpses>>

\* Perform_destroy of every entity, its children first.
SLS_Clear == [x \in Ids |-> NoEntity]

\* OnRoundStart: corpses and delayed events are dropped, SLS_Clear destroys every
\* entity, and each ready client gets a spectator.
RoundStart ==
    /\ Idle
    /\ phase = "pending"
    /\ phase' = "inprogress"
    /\ corpses' = <<>>
    /\ leaving' = <<>>
    /\ LET ready == {c \in Clients : status[c] = "ready"}
       IN  \E f \in FreshFor(ready, SLS_Clear) :
             /\ ents' = WithSpectators(SLS_Clear, ready, f)
             /\ mainId' = [c \in Clients |-> IF c \in ready THEN f[c] ELSE NoId]
             /\ gameId' = [c \in Clients |-> IF c \in ready THEN f[c] ELSE gameId[c]]
             /\ flags' = [c \in Clients |-> IF c \in ready THEN flags[c] \cup {"dead"}
                                            ELSE flags[c] \ {"dead"}]
    /\ UNCHANGED <<status, ignored>>

-----------------------------------------------------------------------------
Init ==
    /\ ents = [x \in Ids |-> NoEntity]
    /\ status = [c \in Clients |-> "absent"]
    /\ mainId = [c \in Clients |-> NoId]
    /\ gameId = [c \in Clients |-> NoId]
    /\ flags = [c \in Clients |-> {}]
    /\ corpses = <<>> /\ leaving = <<>>
    /\ phase = "pending" /\ ignored = {} /\ sweep = 0

ClientStep ==
    \E c \in Clients :
        \/ Connect(c) \/ ConnectFinished(c) \/ Disconnect(c)
        \/ PlayerReady(c) \/ ForceRespawn(c) \/ SelectSpectator(c)
        \/ PlayerStarted(c) \/ ChangeTeam(c) \/ ChangeSkin(c)
        \/ PlayerKilled(c) \/ BuyItems(c)

EntityStep ==
    \E x \in Ids :
        \/ BodyDies(x) \/ DestroyItem(x)
        \/ \E a \in Ids : RejectItem(a, x)
        \/ \E a \in Ids, s \in Clients \cup {SvClient} : TakeItem(s, a, x)

CorpseStep ==
    \/ StartCorpseRemoval \/ CorpseRemovalEnds
    \/ SkipCorpse \/ RemoveCorpse

RoundStep == PlayerDisconnected \/ ScoreReached \/ RoundEnd \/ RoundStart

Next == ClientStep \/ EntityStep \/ CorpseStep \/ RoundStep

Spec == Init /\ [][Next]_vars

\* The main thread runs game_sv_mp::Update, the delayed events and the phase's
\* checks every frame; checkForRoundStart passes after g_sv_Pending_Wait_Time.
FairSpec ==
    /\ Spec
    /\ WF_vars(CorpseStep)
    /\ SF_vars(PlayerDisconnected)
    /\ SF_vars(RoundStart)

-----------------------------------------------------------------------------
(* Properties.                                                              *)

\* A free id holds no entity.
FreeIsEmpty(e) == \A x \in Ids : e[x].kind = "free" => e[x] = NoEntity

\* Every variable has its type, and the slots of free ids are clear.
TypeOK ==
    /\ ents \in [Ids -> Entity]
    /\ FreeIsEmpty(ents)
    /\ status \in [Clients -> {"absent", "joining", "ready"}]
    /\ mainId \in [Clients -> Ids \cup {NoId}]
    /\ gameId \in [Clients -> Ids \cup {NoId}]
    /\ flags \in [Clients -> SUBSET {"dead", "watching"}]
    /\ corpses \in Seq(Ids)
    /\ leaving \in Seq(Ids \cup {NoId})
    /\ phase \in Phases
    /\ ignored \in SUBSET Clients
    /\ sweep \in Nat

\* verify_entities: an entity with a parent is listed by a parent that exists ...
ParentsList(e) ==
    \A x \in Ids : e[x].parent # NoId =>
        /\ e[x].parent \in Live(e)
        /\ x \in ToSet(e[e[x].parent].kids)

\* ... and an entity's children exist and name it as their parent.
ChildrenPointBack(e) ==
    \A x \in Ids : \A i \in DOMAIN e[x].kids : e[e[x].kids[i]].parent = x

\* No entity is listed twice: one erase takes it out of its parent's vector.
ListedOnce(e) ==
    \A x \in Ids : \A i, j \in DOMAIN e[x].kids :
        e[x].kids[i] = e[x].kids[j] => i = j

\* The forest that xrServer::verify_entities asserts after every event survives
\* the handlers that rebuild it from inside each other.
VerifyEntities == ParentsList(ents) /\ ChildrenPointBack(ents) /\ ListedOnce(ents)

\* A bag held by an actor is the first of its children and is empty.
BagFirst(e) ==
    \A x \in Ids : e[x].kind = "bag" /\ e[x].parent # NoId =>
        /\ e[x].kids = <<>>
        /\ e[e[x].parent].kind = "actor"
        /\ e[e[x].parent].kids[1] = x

\* Process_event_reject keeps an iterator to the bag while OnDetachItem takes
\* other children out of the same vector; only what lies behind the bag may go.
HeldBagIsFirst == BagFirst(ents)

\* Only items are held: by actors, or, bags excepted, by bags.
KindsFit(e) ==
    \A x \in Ids : e[x].parent # NoId =>
        /\ e[x].kind \in ItemKinds
        /\ \/ e[e[x].parent].kind = "actor"
           \/ e[e[x].parent].kind = "bag" /\ e[x].kind # "bag"

\* A client's owner_ and its GameID name the same entity.
OwnIdsAgree == \A c \in Clients : mainId[c] # NoId => gameId[c] = mainId[c]

\* The inductive invariant behind TypeOK, VerifyEntities and HeldBagIsFirst: the
\* handlers preserve the forest only because items alone are held, spectators
\* hold nothing, bags do not nest and the bag is in front when it is dropped.
IndInv ==
    /\ TypeOK
    /\ VerifyEntities
    /\ KindsFit(ents)
    /\ HeldBagIsFirst
    /\ OwnIdsAgree

\* What the server destroys by itself is owned by its own client, so that the
\* R_ASSERT(c_dest == c_from) of Process_event_destroy holds: items, and the
\* bodies of the corpse list, which exist.
ServerMayDestroy ==
    /\ \A x \in Ids : ents[x].kind \in ItemKinds => ents[x].owner = SvClient
    /\ \A i \in DOMAIN corpses :
        /\ ents[corpses[i]].kind \in BodyKinds
        /\ ents[corpses[i]].owner = SvClient

\* A connected client's owner_ points at an existing body that it owns and that
\* its GameID names; a ready client has one.  Handlers use the two as one.
MainEntityIsOwn ==
    \A c \in Connected :
        /\ status[c] = "ready" => mainId[c] # NoId
        /\ mainId[c] # NoId =>
            /\ gameId[c] = mainId[c]
            /\ ents[mainId[c]].kind \in BodyKinds
            /\ ents[mainId[c]].owner = c

\* A ready player without the dead flag has an actor: OnPlayerBuyFinished and
\* SpawnWeaponsForActor assert it ("server entity of actor not found").
LivingPlayerHasActor ==
    \A c \in Clients :
        status[c] = "ready" /\ "dead" \notin flags[c] => IsActor(gameId[c])

\* Removing a corpse never takes the body of a connected player.
CorpsesAreNotPlayers ==
    \A i \in DOMAIN corpses : \A c \in Connected : mainId[c] # corpses[i]

\* In a running round a client object owns nothing but the body of its
\* connected player, or one whose disconnect event is still queued.
NothingLeftBehind ==
    phase = "inprogress" =>
        \A x \in Ids : ents[x].owner \in Clients =>
            \/ ents[x].owner \in Connected /\ mainId[ents[x].owner] = x
            \/ x \in ToSet(leaving)

\* The loop of the corpse removal, which erases under its own index, ends.
CorpseRemovalTerminates == sweep # 0 ~> sweep = 0

\* What a client object that is gone still owns, some later event takes over or
\* destroys, also when g_restart erased the disconnect event.
LeaversAreForgotten ==
    \A c \in Clients :
        status[c] = "absent" ~> (status[c] # "absent" \/ \A x \in Ids : ents[x].owner # c)

=============================================================================

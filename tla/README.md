# A TLA+ model of the IX-Ray 1.6 engine's shared state

IX-Ray is an X-Ray 1.6 engine tree (S.T.A.L.K.E.R.: Call of Pripyat). This
directory models the parts of it that carry long-lived shared state, are driven
by several parties and are hard to test:

* the **multiplayer server**, `xrServer` and the `game_sv_*` modes in
  `src/src/xrGame`, with the event queue, the id generator and the file transfer
  it uses, and the thread channels of `src/src/network`;
* the **two threads of a frame** in `src/src/xrEngine/device.cpp`, with the tasks
  that the renderer and the level hand from one to the other;
* the **update scheduler** in `src/src/xrEngine/xrSheduler.cpp`, through which
  every object of the game is updated and which those updates change.

Rendering, sound, physics, the editors and the single-player simulation are not
state machines of a useful kind; they are listed under *Not modelled*.

Paths below are relative to `src/src/xrGame` unless they name another directory.

## The system

### Components, their state and their operations

| component | state | operations |
|---|---|---|
| entity registry (`xrServer*.cpp`) | `entities`: id -> entity (`ID_Parent`, `children`, `owner`), the id generator | spawn, take, reject, transfer, destroy, clear |
| game mode (`game_sv_mp`, `_deathmatch`, `_teamdeathmatch`) | `m_CorpseList`, phase, player states (`GameID`, flags) | join, ready, respawn, spectate, change team and skin, buy, kill, corpse removal, round end and start |
| client objects (`xrServer_CL_*`, `xrClientsPool`) | `net_players`, `owner_`, `net_Ready`, the pool of disconnected clients | connect, ready, disconnect, pool, reconnect |
| game event queue (`game_sv_event_queue`) | `ready`, `unused`, blocked clients | create, retrieve, release, erase, ignore |
| id generator (`id_generator.h`) | blocks of free ids with a time stamp | get, free |
| thread channels (`src/src/network`) | two single-producer single-consumer lists per direction | push, pop, hand back, finalize |
| file transfer (`file_transfer.cpp`, `screenshot_server.cpp`) | sender and receiver sessions per client | start, chunk, abort, reject, timeout, relay |
| engine threads (`src/src/xrEngine/device.cpp`) | `mt_csEnter`, `mt_csLeave`, `mt_Thread_marker`, `mt_bMustExit`, `seqParallel`, `g_loading_events` | load, move a frame, hand over, do a frame's work, exit |
| bullets (`Level_Bullet_Manager.cpp`) | `m_Bullets`, `m_Events` | fire, update, register a removal, commit, clear |
| occlusion map and grass (`src/src/Layers/xrRender/HOM.cpp`, `DetailManager.cpp`) | `bEnabled`, the depth and the frame it is of; `m_visibles`, `m_frame_calc`, `m_frame_rendered` | `MT_RENDER`, `visible`, enable, disable; `MT_CALC`, `MT_SYNC`, draw |
| update scheduler (`src/src/xrEngine/xrSheduler.cpp`) | `Registration`, `ItemsRT`, the heap `Items`, `ItemsProcessed`, `m_current_step_obj` | register, unregister, destroy, serve the requests, the two loops of `Update` |
| delayed packets (`xrServer.cpp` 882-905) | `m_aDelayedPackets` | add, proceed, erase those of a client |
| connection handshake (`Level_start`, `Level_network*`, `xrServer_Connect`) | stage of each client | build check, keys, spawn replication, ready |
| secure messaging (`*secure_messaging*`) | key per client | synchronise, encrypt |
| item respawner (`game_sv_item_respawner.cpp`) | remembered ids and times | update, respawn, clear |
| transport (`src/src/xrNetServer`) | DirectPlay sessions | callbacks on its own threads |

### How they interact

* A remote client's message is handled on a thread of the transport, under
  `csMessage`; the server's own update takes that lock, too. Game events go
  through the event queue (`AddDelayedEvent`) and run in `ProcessDelayedEvent`,
  once a frame, before `game->Update`.
* The server runs a client of its own (`SV_Client`), which simulates the items
  and bodies and sends take, reject, destroy and death events for them.
* **`Level().Send` on the server is synchronous**: an event the game mode sends
  to itself is executed, callbacks included, before `Send` returns. Handlers
  therefore run inside handlers, on vectors the outer one is iterating.
* `Process_event_*` calls back into the game mode: `OnTouch` before an item is
  linked to its new parent, `OnDetach` between the search for the child and its
  erasure, `OnDestroyObject` before the entity goes.
* An entity points at its owner, a client object; the client object points back
  at its main entity (`owner_`); `ps->GameID` names that entity a second time.
* A disconnect is noticed on a thread of the transport, which queues
  `GAME_EVENT_PLAYER_DISCONNECTED` and pools the client object; what it owned is
  dealt with later, by the event.
* A frame is moved and drawn by the primary thread. What it leaves in
  `seqParallel` (bullets, sounds, grass, the occlusion map) and `seqFrameMT` is
  done by the secondary thread while the primary one draws, or by the primary
  one afterwards if the secondary has not come to it. The drawing itself needs
  the grass and the map, and does them on the spot if nobody has.
* The scheduler calls the objects' updates on the primary thread; an update may
  register, unregister or delete any object, the one being updated included.

### What is hard

* re-entrant handlers that erase under an iterator or an index
  (`xrServer_process_event_reject.cpp:61`, `game_sv_mp.cpp:97`, the loops of
  `xrSheduler.cpp`);
* three ways to name a player's body (`owner_`, `GameID`, the corpse list), each
  updated at another place of the same handler;
* events that are queued, dropped for blocked clients or erased by a restart;
* a restart of the round while a client is joining;
* the assertion `c_dest == c_from` of `Process_event_destroy`, which every
  server-side destruction must have prepared by taking over the entity;
* ids that are reused while old events still carry them;
* timeouts that race data (`file_transfer.cpp`);
* two critical sections that are not first come first served, and a marker that
  says who did the frame's work (`device.cpp:295`);
* flags that both threads write without the lock (`bEnabled`) or read without it
  (`m_frame_calc`);
* requests to the scheduler that are served later, by the address of an object
  that may have been deleted and allocated again.

`PROJECT.json` lists each hazard at its line with the property that covers it.

### What makes each component correct

* registry: the parent and child pointers form a forest that names only existing
  entities, each once (`xrServer::verify_entities`);
* game mode: every body is either its connected player's or the server's; the
  server destroys only what it owns; a living player has an actor; players are
  not removed as corpses;
* client objects: what a leaver owned is taken over;
* event queue: events of a live client are run once, in order, and recycled once;
* id generator: an id is handed out at most once until it is freed;
* channels: first in first out, each node freed exactly once, by its owner;
* file transfer: both ends of a session end, with one outcome each;
* engine threads: each frame's work is done once, in order, by one thread, before
  the next frame moves; every frame and the program end;
* bullets: a removal removes the bullet it was registered for;
* occlusion map and grass: nobody reads the map while it is drawn, or fills the
  lists of grass while they are drawn;
* scheduler: an object is updated only while registered and at most once a frame,
  nothing deleted is touched, and everyone registered is updated again and again.

## The modules

| module | content |
|---|---|
| `Subsequences` | what is left of a vector after some elements were erased |
| `ServerEntities` | the registry, the game mode, the client objects and the queued disconnect events |
| `MCServerEntities` | values for the constants and symmetry sets |
| `SubsequencesProofs` | lemmas on what is left of a vector |
| `ServerEntitiesProofs` | lemmas on the operators of the registry; the theorems about it, about whose the bodies and corpses are, and about the corpse removal |
| `ThreadsChannel` | a channel of `src/src/network` between two threads: two linked lists and what is allocated |
| `OwnedFifo` | what a channel promises: first in first out, and a value is freed only after its user gave it back |
| `MCThreadsChannel` | the module TLC runs for the channel |
| `ThreadsChannelProofs` | the invariant of the lists, what a reclaim leaves, and that `ThreadsChannel` implements `OwnedFifo` |
| `IdGenerator` | `CID_Generator`: blocks of free ids, their times and their count |
| `IdPool` | what the generator promises: an id has at most one user and can be had again |
| `IdGeneratorProofs` | the invariant of the blocks, and that `IdGenerator` implements `IdPool` |
| `EventQueue` | the recycled event objects between the transport's threads and the main thread |
| `EventLog` | what the game expects of its events: run once, in order, or withdrawn |
| `EventQueueProofs` | the invariant of the two lists, that at most one play event of ignored clients reaches a round, and that `EventQueue` implements `EventLog` |
| `MCEventQueue` | symmetry, and a view that leaves out what unused objects hold |
| `FileTransfer` | the relay of a suspect's file to an administrator: both ends of both transfers and the proxies between them |
| `FileTransferProofs` | types, the one user of a memory file, the position of a relay in it, and that only whole files are saved |
| `MCFileTransfer` | two files and the values of an unwritten size |
| `FrameThreads` | the primary and the secondary thread of the engine and how they hand a frame over |
| `FrameWork` | what they promise: the work of each frame done once, in order, before the next frame |
| `BulletManager` | the list of bullets and the removals registered for the next frame |
| `RenderTasks` | the occlusion map and the lists of grass, each with its lock |
| `ParallelTasks` | the composition of the three: which thread does which step of which task, and the drawing |
| `MCParallelTasks` | the tasks and the batches for TLC |
| `ParallelTasksProofs` | the invariant of the hand-over, the refinement of `FrameWork`, the invariants of map and grass and of the removals of bullets, and that the threads never wait in a circle |
| `Sheduler` | the scheduler, with the game that calls it between frames and within updates |
| `UpdateSchedule` | what it promises: updates only of the registered, one at a time, once a frame |
| `MCSheduler` | three objects: always realtime, either, never realtime |
| `ShedulerProofs` | the invariant of the scheduler, what an erasure costs the loop, that its loops end, and that it implements `UpdateSchedule` |

`ServerEntities` uses the queue through its abstraction: its events are a set
that is run or erased, with no thread between `Retreive` and `Release`.
`ServerEntities` uses the generator through its abstraction: an action takes any
free id, which `IdPool` allows and `IdGenerator` narrows to one. The channels
connect the threads of the network library; `xrServer` does not use them.
`ParallelTasks` uses `FrameThreads` itself: each of its steps is a step of
`FrameThreads` or leaves its variables alone, which is proved.

### ServerEntities

`ents` is `xrServer::entities`: a free id holds `NoEntity`, otherwise a record of
the kind of entity, `ID_Parent`, the ordered `children`, `owner` and whether a
body is alive. `status`, `mainId`, `gameId` and `flags` are a client object's
`ps`/`net_Ready`, `owner_`, `ps->GameID` and the two flags
`VERY_VERY_DEAD` and `SPECTATOR`. `corpses` is `m_CorpseList`, `leaving` the
GameIDs of the queued disconnect events, `ignored` the event queue's
`m_blocked_clients`, `phase` the phase of the round.

One action is one handler with everything it sends, because sending is
synchronous. The exception is the loop of `game_sv_mp::Update` that removes
corpses: `sweep` holds its index, an action is one iteration, and no other
handler runs while `sweep # 0`. Its termination is a property.

Items are of four kinds, told apart by what the handlers do with them: `weapon`
(in the buy list: the bag takes it along), `knife` (destroyed when its owner
dies), `outfit` (left behind), `bag` (the rucksack that collects a dead player's
items). What the items of the server's own client do (used up, time over) and
what its inventory contains at a given moment is nondeterministic.

Details that are modelled as the code has them:

* `Process_event_reject` finds the position of the item first, runs `OnDetach`,
  and erases at that position (`BagDropped`, `Unlinked`).
* `OnPlayerChangeSkin` stores the skin before it compares with it, so it never
  kills the player.
* `AllowDeadBodyRemove` takes over whatever entity the GameID names.
* `m_CorpseList.erase(begin() + i)` runs after `OnDestroyObject` removed the
  entry; when nothing is left at the index it is `erase(end())`, which keeps the
  list or drops its last entry.
* `OnRoundEnd` blocks the game events of all clients until each reports
  `GAME_EVENT_PLAYER_STARTED`; `PLAYER_READY` and the disconnect event (queued
  with client id 0) are never blocked.

Left out, because nothing modelled depends on it: money, scores, teams, ranks
and votes; map rotation in `checkForRoundStart` (the server is restarted); the
`READY` flag of the pending phase (`RoundStart` may happen at any time); hits;
the part of `OnDestroyObject` that gives a spectator to the owner of a destroyed
actor (the modelled senders destroy bodies only after the server's client owns
them, and its player state has no body). A client object that connects again is
a new one; the pool of disconnected clients is not modelled. A disconnect does not
split a handler: the transport's thread inside a running `RespawnPlayer` is not
modelled either.

### ThreadsChannel

The owner of a channel allocates values and pushes them to the forward queue; the
user pops them. An intrusive list needs a node before its first value, the *null
node*: a value that is popped becomes the null node, and the user hands the
former one back through the backward queue to the owner, the only one to free.
`next`, `head` and `tail` are the link, `m_head` and `m_tail`; `allocated` are the
values in memory, `kept` those whose deletion the user deferred. `owner` and
`user` say where in its calls each thread is and the registers are its local
variables. `list` is a history variable: the nodes each queue should contain.

An action ends where the other thread can see a difference. `push_back` writes
the link of the last node by an interlocked exchange and then stores `m_head`,
which only the pushing thread reads: between `OwnerPush` and `OwnerPushed`, and
between `UserHandsBack` and `UserHandedBack`, the popping thread may run, return
the value and hand back the node `m_head` still points at. `pop_front` is split
between reading the link and moving `m_tail`. That the order of the program is
that of the memory is taken from the interlocked exchange and from aligned words.

`UserKeeps` and the container of deferred values are external: no caller in the
tree uses the version of `user_pop_front` with a predicate. `UserStops` is the
end of the user's loop, which the owner waits for before it finalizes.

### IdGenerator

The ids are divided into blocks; `chunk[b]` is the used part of `m_tpIDs` of the
block b, `stamp[b]` its `m_tTimeID`, `available` is `m_available_count`.
`entities` are the ids in use, `now` is the time without wrapping and `freedAt` a
history variable. `GetID` takes the last entry of the first block for which
`operator<` finds no smaller one, `GetThisID` moves the last entry into the place
of the id that was asked for, `FreeID` appends and stores `now % TimePeriod`. An
id that is not free, or any id when none is, stops the program (`R_ASSERT2`): the
actions are disabled. `FreeID` is enabled only for ids in use because
`entity_Destroy`, its only caller, destroys a registered entity. The modules leave
out `clear_ids`, which has no caller.

### EventQueue

`ready` and `unused` are the deque and the vector of `GameEventQueue`, as sequences
of object names; `event` is what each object holds, which changes when `Create`
reuses it. `recent` says whether `LastTimeCreate` is less than a minute ago; if not,
objects beyond `KeepUnused` (32) are deleted instead of kept. `blocked` is
`m_blocked_clients`. `main` and `ge` are the main thread and the pointer that
`ProcessDelayedEvent` holds: `Retreive`, the handler (`OnEvent`, which reads the
object again) and `Release` are separate actions, because the lock `cs` is not held
between them. `checked` are the events between the test of `CreateSafe` and the
call of `Create`, which take the lock only for the second.

Three things run beside the main thread: the creation of a client (`Connect`,
`CheckCreate`), its destruction (`OnCL_Disconnected`, then `client_Destroy`, with
any step in between), and the messages of clients. Only the last take
`csMessage`, so at most one `play` event is between test and queue; the local
client's `Hurt` events take it too. `stage` follows a client as far as it decides
what it sends; a `DirectPlay` id is not used again, so nobody returns.

Events differ by what the code does with them: `create` (GAME_EVENT_CREATE_CLIENT),
`state` and `started`, which are not subject to blocking, `play` (what a player
does, subject to it), `hurt` (PLAYER_KILLED or PLAYER_HITTED, which name a victim
and are what a leaver erases) and `left`. `PLAYER_AUTH`, the votes and
`PLAYER_READY` are queued like `started` and do nothing to the queue. The packet of
a `hurt` event is passed to its handler by value, so its cursor still stands at the
victim when `PredicateDelVictim` reads it: the event being run can be erased.

A failed `R_ASSERT` ends the program (`stopped`): that of `Release`, and that of
CREATE_PLAYER_STATE, which fails for a client that left before its player state was
handled (`game_sv_base.cpp:751`, where CREATE_CLIENT tests and breaks). `Spawn` and `OnRoundStart` keep of
the entities only who has one.

`PatientLeavers` restricts `client_Destroy` to moments when no event is run. The code
does not promise that; the flag separates what the queue does right (`IsEventLog`)
from what the missing exclusion breaks (`release_of_nothing`). All other runs leave it
off.

### FileTransfer

An administrator asks for a suspect's screenshot or settings (`MakeData`). The first
proxy that is not active (`Free`) asks the suspect and opens a session of
`server_site` that receives into the proxy's memory file; with the first chunk the
proxy tells the administrator and starts a relay that reads the same memory file
while it is written (`ServerReceives`, `Relayed`). `proxy` holds the members of
`clientdata_proxy`; `receivers` and `transfers` are the two maps of `server_site`, by
suspect and by pair, each with the proxy whose memory file its callback is bound to;
`upload` is the suspect's `m_transfering` and `session` the administrator's
`m_receivers`. `buffer` is the file in `upload_memory_writer`, which an upload reads
in place: when another file is written there, what is read is `Torn`. `ask`, `up`,
`down` and `back` are the packets under way between the four ends.

Contents are sequences of units that remember whose file and which position they
are. `Receive` is `receive_packet`: the first chunk has a header with the size, and
whether a chunk is the first is told by the writer's being empty, so a late chunk of
another session may lose its first units to the header, or be kept with a header in
it. `m_data_size_to_receive` is not initialised: a session starts with any of
`AnySize`. Each end drops a session by itself, with a timeout, an abort or a reject,
and answers what it does not know with a reject; the commands name a client and no
session, so what is under way when a session is dropped reaches the next one.
`Leave` is a client that goes: of what it has sent a prefix arrives.

`late` is a history variable: the suspects of which a session timed out, who had
nothing to send, or who left. Two properties make an exception for them, because the
code gives no more: a chunk or a reject left over from the dropped session is taken
for one of the next, and a relay whose source has stopped is never stopped (it sends
empty chunks, which keep the administrator's session alive).

Left out: the clock (a timeout may fire whenever its session is open), the pace of
the chunks (each has any size up to `MaxChunk`), the notices an administrator only
prints, the copies the server may keep, disk files, the shutdown, and the transfer of
the server's logo, which uses the same two ends with a source of its own. The
channels keep their order, although the response is sent with a lower priority than
the chunks.

### FrameThreads and ParallelTasks

`pc` is where each thread is: in `message_loop` and `on_idle` the primary one,
in `mt_Thread` the secondary one. `csEnter` and `csLeave` are the owners of
`mt_csEnter` and `mt_csLeave`, `marker` is `mt_Thread_marker`, `mustExit` is
`mt_bMustExit`. The primary thread owns `mt_csEnter` except while it draws
(`ReleaseStart`, `CaptureStart`), and takes `mt_csLeave` for that time
(`CaptureEnd`, `ReleaseEnd`); the secondary one enters `mt_csEnter`, marks the
frame, does the work and waits in `mt_csLeave` until the drawing is over
(`Enter`, `Begin`, `Signal`, `Await`, `Pass`). An action is one operation on a
critical section or on a shared variable, since the other thread may run in
between. `Compare` is the test of the marker that makes the primary thread do
what the other has missed. `FrameMove` queues one of `Batches`: what `OnFrame` of
the renderer puts in front and `Level::OnFrame` behind. `Load` runs one of
`g_loading_events`; while there are any no frame moves. `Quit` is WM_QUIT, after
which the primary thread waits for the secondary to clear `mt_bMustExit`.

`ParallelTasks` says what the tasks do while the hand-over goes on; until its last
step a task does not move `FrameThreads`. `bullets` and `events` are `m_Bullets` and
the EVENT_REMOVE entries of `m_Events`; `UpdateWorkload` goes from the last bullet
to the first, so that the swap with the last in `CommitEvents` of the next frame
leaves the smaller indices as they were. `raster` is the frame of which the depth
is (`Free` while it is drawn), `homFrame` is `MT_frame_rendered`, `hom[p]` the point of `MT_RENDER` or
`visible` at which a thread is and `testing[p]` whether it is in `visible`: `Enable`
and `Render` of `MT_RENDER` are separate steps, because the primary thread may call
`HOM.Disable` in between. `visibles` are the frames whose grass is in the
lists, `det[p]` a thread's point in `MT_CALC`. `draw` is where
`CRender::Render` is, as far as it uses the two: the scene is collected and tested
(`calc`), the grass is synchronised and drawn, and the lights are drawn with the
map disabled (`shadows`), their grass included.

Left out: messages of the window and frames that `on_idle` drops because the device
is not ready; what the objects of `seqFrame` and `seqFrameMT` do; the flight and the
hits of bullets; what is drawn; `hom_frame`, by which an object may be known to need
no test; the main menu; the static renderer, which draws in another order.

### Sheduler

`registered` are the objects whose owners count on their updates and `doomed` those
whose `shedule_Needed` has become false; both describe the game. `Registration`,
`ItemsRT`, `Items`, `ItemsProcessed` and `m_current_step_obj` are the members;
`stage`, `it` and `running` say where `Update` is. Times are relative to the present: `due`
is what is left until an object's next update; of those that are over it keeps the order. The heap is a sequence of which any
earliest entry may be the top, so no order among equals is assumed. `Withdraw` is
the half of `Unregister` that the state of the scheduler decides: within `Update`
an object leaves at once, if it is in the list that its `b_RT` names or is the one
being updated; if not, and outside `Update`, a request is queued. The game's
steps (`Register`, `Unregister`, `DestroyUnregistered`) may come between two frames or
within any update. `DestroyUnregistered` is the destructor of an object that is not
registered: it unregisters all the same, with whatever `b_RT` the memory holds.
`ServeRequest` is one step of `internal_Registration`, before and after the loops,
`RealtimeUpdate`/`RealtimeReturn` and `NormalUpdate`/`NormalReturn` are the call of
an update and its return. `NormalReturn` may end the loop with every third entry,
since the frame's time may be used up; the rest then stays in the heap.

`erased` is a history variable: the entries that left `ItemsRT` during its loop.

Left out: the time an update is told and the scale of the intervals, `EnsureOrder`,
which nothing calls, and `Destroy` at the end of the program.

## The runs

Type invariants (and the inductive invariants) are proved and not checked by a run;
TLC has checked each before it was proved.

| run | instance | what it shows |
|---|---|---|
| `items` | 1 client, 5 ids (player, bag, knife, weapon and one more body), symmetric ids | `VerifyEntities`, `HeldBagIsFirst`: dropping the bag works only because it is the first child |
| `clients` | 2 symmetric clients, 4 ids, players with the bag only | `MainEntityIsOwn`, `LivingPlayerHasActor`, `CorpsesAreNotPlayers`, `NothingLeftBehind`, `ServerMayDestroy`, as long as a round is not cut short while a client joins |
| `lifecycle` | 1 client, 3 ids, fairness, `g_restart` at any time | `CorpseRemovalTerminates`, `LeaversAreForgotten` |
| `channel` | 4 nodes: two null nodes and two values, fairness | `ListsAreWellFormed`, `NothingLeaks`, `IsOwnedFifo`, `ReclaimIsComplete`: whatever the interleaving of the threads, each node is in one place, the queue is first in first out and reclaiming frees all that was handed back; `ValuesArrive`: a pushed value reaches a user that keeps popping |
| `ids` | 5 ids in blocks of 2 (the last is shorter, as with 65535 ids in blocks of 256), a time of period 3 that wraps | `AvailableAgrees`, `RoomToFree`, `IsIdPool`, which do not depend on the time, and `OldestFirst` up to the wrap |
| `events` | 2 symmetric clients, 3 event objects, 1 made at the start and 1 kept; leavers at any time | `PoolIntegrity`, `OneStaleEvent` (of `play` events; the create events of ignored clients, which `CreateSafe` lets pass as well, are not counted) |
| `event_log` | 2 clients, 2 objects, patient leavers, fairness of the main thread only | `IsEventLog`, `LeaversServed` |
| `relay` | 1 administrator, 2 suspects, 2 proxies and binders, a file of 2 units and one of 1, fairness | `OneUser`, `RelayWithinFile`, `SavedFilesAreWhole`, `SessionsEnd` |
| `frames` | 2 frames, 2 bullets, 1 view of a light with grass, each frame with or without the renderer's and the level's tasks, fairness of both threads | `WorkIsExclusive` and `IsFrameWork`: the work of a frame is done once, by one thread; `TestsUseAWholeMap`, `GrassIsFilledOnce`, `GrassIsCurrent`: what the drawing shares with the tasks; `RemovalsAreExact`; `FramesFinish`, `BothEnd`: nobody waits for ever |
| `sheduler` | 3 objects (one always realtime, one either, one never), intervals of 1 and 2, updates late by any time, 4 entries | `OnePlace`, `OwnersAreHeard`, `NothingFreedIsTouched`, `ErasingSkipsOne`, `IsUpdateSchedule`, `EveryoneIsUpdated` |
| `release_of_nothing` | as `events` | violated: `ReleaseHasEvent` |
| `shadows` | as `frames` without bullets and without the grass of lights | violated: `ShadowsAreNotOccluded` |

**Bounds of `ServerEntities`.** `Ids` is the number of entities that exist at once;
`MaxLeaving` the number of disconnect events queued at once; `MaxCorpses` is
`g_dwMaxCorpses`, which `g_corpsenum` may set to 0 and which is 0 in all runs so
that the removal starts with the first corpse. `FreshGameIds = {NoId}`:
`ps->GameID` is not initialised before the first spawn, and any other value the
memory may hold breaks all but the last of the properties of `clients` at once. Deadlock is not checked: when
all ids are in use every remaining action may be disabled, which is the assertion
"Not enough IDs" of the real generator. Five ids are the least with which a player
that carries all kinds of items can die and respawn, its bag lying on the ground;
four ids are the least with which two players have bodies and each leaves a corpse
or a bag.

**Channel and generator.** Of the four nodes of the channel each can be the null node
of either queue, be pushed, be popped or be on its way back, and what was freed is
allocated again; what the list invariants say of more nodes is proved. Three blocks of
which one is short, each of which can be emptied and filled again, are all the cases of
the generator; `MaxNow` bounds `Tick`.

**Event queue.** Of the event objects, one is run while one waits and one is recycled;
with `KeepUnused = 1` a third one that is released is deleted. The log needs two, one
run and one waiting or both waiting: how objects are made and deleted is left to the
run `events`. `MaxObjects` bounds the events queued at once: a thread that would need
one more waits.

**Relay.** Two requests may be for the same suspect, whose second file then follows,
crosses or is refused because of the first, or for two suspects, whose transfers go
through two proxies or one after the other through the same. A file of two units with
chunks of at most two (`MaxChunk`) travels in one chunk or two. `MaxPackets = 1` holds
a sender back while its chunk is under way; answers are not held back. `AnySize` has
the one value that makes an empty session complete, 0, and one that no file has, 9.

**Frames.** `MaxFrames` bounds `dwFrame`. Each frame starts with the critical sections
in one of the same few states, since the work of a frame ends before the next; two
frames are needed for the grass and the bullets, of which one frame leaves to the next
what it has found. Two bullets are the least of which one is swapped into the place of
the other; `Fired` allows up to two new ones a frame. `tested` bounds the tests of a
stage to one, whenever it likes. What depends on no bound (the hand-over, the map and the grass) is
proved for every number of frames.

**Scheduler.** Three objects are one that runs, one before and one after it; the
instance has each as a member of either list. `CheckEvery = 1` lets the time run out
after any update, where the code looks at the clock with every third only: more
behaviours, in a smaller state. `MaxItems` bounds the requests and entries together; a
fourth is an object whose old entry, or whose request, is still there. `MaxInterval = 2`
gives the objects different intervals, so that one may be due again and again while
another waits. Nothing bounds `Tick`: time goes on however late the updates are, and what
keeps the states finite is that of the times that are over only the order is kept
(`Over`), which changes no comparison of the code (lemma `TickKeepsOrder`). The objects
with shorter intervals therefore may overtake one that waits, as far as the order of the
heap lets them: with the mutant `AnyTops`, which takes any entry that is due, one object
is served for ever while another waits, longer and longer.

Deadlock is not checked for the relay and the queue, where all may be said and done or
an assertion may have failed, nor for the channel, which stops once it is finalized,
nor for the registry (above); it is for the generator, the frames and the scheduler.
The end of both threads is a step of its own in `FrameThreads` (`Stopped`).

**Fairness.** In `ServerEntities`, `FairSpec` asks that the corpse removal goes on (the
main thread is inside its loop), that a queued event is handled (`ProcessDelayedEvent`
empties the queue every frame) and that a pending round starts (`checkForRoundStart`
passes after `g_sv_Pending_Wait_Time`). The last two are strong because the main
thread is repeatedly busy in between. Nothing is asked of clients. The channel's
user keeps popping (`process_orders` and `process_responses` run every frame
until the thread ends), and a thread finishes a call it has begun. In `EventQueue`
only the main thread is fair: `LeaversServed` holds against clients that post for
ever, which may well keep `ProcessDelayedEvent` from ever returning. In `FileTransfer` the
frames of every process go on: the server updates its relays (`SendUpdatesToAll`) and
reads its packets, a suspect ends its collections and sends its chunks, an
administrator reads; requests, timeouts and leaving are never certain, so `SessionsEnd`
does not rely on a timeout. In `ParallelTasks` each thread is scheduled (weak fairness
of `MainStep` and of `WorkerStep`), and no more: neither critical section is fair, so a
thread may be overtaken there as long as the other keeps coming back. In `Sheduler`
every update returns and frame follows frame (weak fairness of `Update`), and time goes
on although it does so only between frames, in any of which any time may pass, or none
(strong fairness of `Tick`); nothing is asked
of the game, which may register and unregister as it likes.

## Findings

* **release_of_nothing** (`game_sv_base.cpp:847`): a client destroyed while an event
  about its player runs erases that event; `Release` then asserts on an empty queue
  or drops the event behind, which is never run.
* **shadows** (`src/src/Layers/xrRender/HOM.cpp:22`): "disable HOM", says the traversal
  for a light. When the secondary thread reaches the map's task late, after a scene in
  which nothing was tested, `MT_RENDER` enables the map again while the primary thread
  collects the shadow casters of a light, which are then culled by what the camera sees.

Seen while modelling, and not stated by any document of the repository, hence no
finding:

* `game_sv_mp.cpp:97`: the corpse removal erases the entry a second time after
  `OnDestroyObject` has; the second erase drops the corpse that moved to the index,
  which then stays in the level until the round ends. With no entry behind it, it is
  `erase(end())`.
* `game_sv_deathmatch.cpp:189`: `OnRoundEnd` of a round cut short gives a body and a
  GameID to clients that are still joining, `OnRoundStart` does not; a joining client
  that leaves then names, by a GameID left over from the round before, a body of someone
  else. `MainEntityIsOwn`, `LivingPlayerHasActor`, `CorpsesAreNotPlayers` and
  `ServerMayDestroy` fail with `RestartAnyTime = TRUE`, which is why `clients` has it
  FALSE. `NothingLeftBehind` is proved to hold all the same.
* `xrSheduler.cpp:454`: two realtime objects unregister themselves in their own update
  (`configs_dumper.cpp:52`, `screenshot_manager.cpp:195`). The vector's erase moves the
  next object to the index that the loop has just done: it misses one frame's
  update, and the loop stamps it with that frame's time all the same.
  `ErasingSkipsOne` says that it is never more than one per erasure.
* `HOM.cpp:305`: the matrix of a box is computed before `MT_RENDER` when the tester is
  the first to draw the map.
* `owner_initialize` of the channels swaps its two null nodes, which makes no
  difference; `network_world` never reclaims executed orders and responses.

## The proofs

`ServerEntitiesProofs` proves, for all constants that satisfy the assumptions of
`ServerEntities` (the sentinels are distinct, `Ids` is finite, the loadouts are
sequences of gear),

* `Invariance`: `Spec => []IndInv`,
* and from it `TypeCorrect`, `VerifyEntitiesHolds` and `HeldBagStaysFirst`.

`VerifyEntities` is not inductive: a handler that reparents an item preserves the
forest only if the item holds nothing that is moved with it, and dropping the
bag erases the right child only if the bag stands first. `IndInv` therefore adds

* `KindsFit`: only items are held, by actors or, bags excepted, by bags, so the
  forest has depth two and a spectator holds nothing;
* `HeldBagIsFirst`: a held bag is the first child and is empty;
* `OwnIdsAgree`: `owner_` and `GameID` name the same entity, so that
  `RespawnPlayer`, which takes over one and lists the other, handles one body.

The proof has one step per action. The operators that rebuild the registry
(`Created`, `Equipped`, `Moved`, `Destroyed`, `Released`, ...) have a lemma each
in the first part of the module that says which conjuncts of the invariant they preserve and
under which condition; the steps of the theorem combine them.

The properties about clients (`MainEntityStaysOwn`, `LivingPlayerKeepsActor`,
`CorpsesStayAnonymous`, `ServerAlwaysMayDestroy`) rest on a second invariant,
`ClientsInv`, and have two hypotheses, named as such:

* `RoundsAreNotCut`: no round is cut short by `g_restart` while a client is joining
  (`RestartAnyTime = FALSE`);
* `GameIdIsClear`: the `ps->GameID` of a new client names nothing
  (`FreshGameIds \subseteq {NoId}`).

The code guarantees neither, so these are limits of the code and not of the proof: with
four ids and two clients TLC refutes each of the four properties when either hypothesis is
dropped. In both cases it begins with a joining client whose GameID names somebody
else's body: when that client leaves, its event hands the body to the server and to the
corpses. `ClientsInv` says who owns what:

* `ItemsOwned`: items are the server's, so an entity of a client is a body;
* `CorpsesAreBodies`: what the corpse list names are bodies of the server. It is not
  enough that they exist: the removal would otherwise destroy a body that its client
  still points at;
* `MainEntityIsOwn` and `LivingPlayerHasActor` themselves;
* `JoiningHasNothing`: what `ConnectFinished` creates replaces nothing;
* `LeaversAreGone`: a queued disconnect event names nothing or the body that its client
  left, and no two name the same. Without it an event could hand over the body of
  somebody who plays, or list one corpse twice; the second entry would outlive the
  entity, and its id may be somebody's when the removal gets to it.

`ItemsStayWithServer` and `NothingStaysBehind` need no hypothesis. For the latter,
`BehindInv` adds that in a running round a joining client has no entity: one that it got
from a round that was cut short is gone when the next round starts. What a step does
to owners is `NobodyGains`: no client gets an entity, but for the new body of a respawn,
and then its former body, which `owner_` and GameID both name, has been handed over.

`CorpseRemovalGoesOn` is the safety half of `CorpseRemovalTerminates`: during the removal
nothing else happens and each step leaves fewer entries to pass, although the loop
erases under its own index. What TLC adds is that the steps are taken.

`SubsequencesProofs` shows that `Kept` returns a sequence, keeps order and
contains exactly the members asked for.

`ThreadsChannelProofs` proves, for every set of nodes, that the two lists are
well-formed after every step of either thread (`WellFormedAlways`), that a
finalization frees everything (`NothingLeaksAlways`) and that `ThreadsChannel`
implements `OwnedFifo` (`ImplementsOwnedFifo`). `ListsAreWellFormed` says that
the links make up the sequences of `list`, that these are disjoint from each other
and from what a thread has in hand, and that together they are all that is
allocated; only `TypeOK` and `Finalizing` (how far a finalization has got) must be
added to make it inductive. `ListTail`, `ListAppend` and `ListFrame` say what
popping, publishing and any other step do to a list. `ReclaimCompletes` counts: when the
owner's reclaim returns, of all that was given back only the null node of the backward
list and at most one value on its way are not freed. Each action then maps to an
action of `OwnedFifo` or to none.

`IdGeneratorProofs` proves, for every number of ids and size of a block, that the
count of blocks is exact (`AvailableAgreesAlways`), that a block never overflows
(`RoomToFreeAlways`) and that `IdGenerator` implements `IdPool`
(`ImplementsIdPool`). The invariant is `Stacks`: the entries of a block are
distinct and are exactly its ids not in use. `Removed` and `Returned` say what
replacing an entry by the last one, or appending one, does to the set of entries;
the arithmetic that makes an id and its pair of block and offset interchangeable
is a lemma of its own (`BlockAndOffset`). `OldestFirstBeforeWrap` rests
on `StampsAgree`: as long as `now < TimePeriod`, the stamp of a block is the latest
time at which one of its ids was freed.

`EventQueueProofs` proves, for every number of objects and clients, that an event
object is in one place once whatever the threads do (`PoolIntegrityAlways`). The
invariant is `Lists`: neither `ready` nor `unused` has a repetition, and they are
disjoint; each way of changing them (posting, erasing, releasing, deleting) has a
lemma. `ImplementsEventLog` assumes `PatientLeavers` and adds `Held`: the object
being run is the first of `ready`. It needs the assumption in one place only:
`StepsOfLog`, which says that nothing is erased while an event is run. The other
lemmas relate lists of objects to the list of what they hold (`ContentsOf...`); that
posting does not change what is queued is `PushKeepsLists`, by which the object of a
new event is not in `ready`. `OneStaleEventAlways` rests on `StaleInv`: the
blocked clients grow only between two rounds, the start of a round erases all that is
queued, and one `play` event at a time is past its check and not yet queued. The proofs
assume that `None` is no event.

`FileTransferProofs` proves, for any clients, proxies, binders, files and bounds, that
the memory file of a proxy has one user (`OneUserAlways`) and that no relay is ahead
of the file it reads (`RelayWithinFileAlways`), so that the unsigned difference of
`memory_writer_reader` never wraps. The invariant is their conjunction with `TypeOK`:
a memory file is cleared only by a proxy that is free, by `OneUser` a relay that reads
it would make the proxy active, and every other step only appends to it.
The lemma `FreeProxy` says so; `SentType`, `WrittenType`, `ReceiveType` and
`RelayChunkType` say that what is sent and written are sequences of units, and each
handler then has a lemma.

`SavedFilesAreWholeAlways` proves that an administrator saves only whole files, each
of the suspect it was asked of, unless a session with that suspect was cut short. It assumes
that `None` is no size and no session (`NoneIsNothing`), and a binder for each of finitely
many suspects (`EnoughBinders`), as the code has one per player
(`m_client_receiver_cbs[MAX_PLAYERS_COUNT]`, `game_cl_mp.h:311`): with fewer an administrator
would decline a transfer whose chunks are already under way. Its invariant `WholeInv` sees a
transfer as a place, so many units of a file or none under way, and a channel as a walk
(`Walk`): its packets, one after the other, take the receiver from its place to that of the
sender. `UploadAt` says, per suspect, that the request, the collection and the upload
follow one another and that the walk leads from what the proxy holds to what was sent;
`Relaying` says the same of a relay and its administrator, and that the proxy holds a
beginning of the file that relay sends. Sending prolongs a walk (`WalkAppend`), receiving
shortens it (`WalkHead`), and the lemma `StepOf` leaves to each action only the suspect and the
pair it is about.

`ParallelTasksProofs` proves, for every number of frames and any tasks,

* `FrameThreadsInvariant` and `FrameThreadsRefineFrameWork`. The invariant is who
  owns which critical section (`Ownership`), what the marker allows (`Marking`) and
  where the queue is empty. `WorkIsExclusive` is not inductive by itself: that the
  secondary thread cannot begin a frame twice rests on `mt_csLeave` being the primary
  thread's while it draws, and that the primary one does not repeat what is done, on
  the marker. `Todo` maps what is left of the queue, wherever the thread that works on
  it is, to the abstract list.
* `ParallelTasksRefineFrameWork` and `TasksAreExclusive`: every step of the
  composition is a step of `FrameThreads` or none (`StepsAreFrameSteps`), so all
  that is proved of `FrameThreads` holds for it.
* `RenderInvariant`, and from it `MapIsWhole`, `GrassIsFilledOnceAlways` and
  `GrassIsCurrentAlways`. The invariant says which task or stage of the drawing
  brings a thread into the renderer's code (`InScene`), who holds the two locks
  (`Locks`), that the map of this frame, once drawn, is not drawn again (`MapInv`), and that
  what is in the lists of grass has not been drawn (`GrassInv`). The argument for the
  map, whose flag `bEnabled` the lock does not protect: the primary thread tests while it
  collects the scene, before it disables the map, or in a light's view, after this frame's
  grass; the secondary thread tests only while it fills the grass, which is then
  still due, so that the drawing has not got past `MT_SYNC`, let alone to `HOM.Disable`. A tester thus never
  finds the map disabled between `Enable` and `Render`, and leaves `MT_RENDER` with the
  frame's map.
* `BulletsInvariant`, and from it `RemovalsAreExactAlways`: `UpdateWorkload` runs once in
  a frame (`WorkloadOnce`: once it has registered a removal it is not in what is left of
  the queue), and registers the bullets from the last to the first (`BulletsKept`), each
  behind those it has still to look at. `CommitEvents` replaces a bullet by the last of the list, so
  what it moves is behind all that is still to be removed. `Committed` is a recursive function; the
  induction over it takes the least number of removals for which the claim fails
  (`LeastNumber`), for want of an induction theorem the provers can apply.
* `NobodyWaitsInACircle`: `MainWaits` and `WorkerWaits`, when a thread waits for a
  critical section of the hand-over, for `mt_bMustExit` or for the locks of the map and
  of the grass, never hold together. From `Ownership` and `Locks`: whoever owns one of the
  locks is in a task or in the drawing, and the secondary thread's tasks fall in the primary
  one's drawing, so that the owner goes on. The one nesting is that grass is tested against the
  map while the lock of the grass is held; nobody takes them the other way round.

It assumes that `Nobody` and `Free` are neither a thread nor a frame number.

`ShedulerProofs` proves, for every set of objects and all bounds, `Invariance`, and from
it `OnlyOnePlace`, `OwnersAreAlwaysHeard`, `NothingFreed`, `ErasingSkipsOneAlways` and
that the scheduler implements `UpdateSchedule` (`ImplementsUpdateSchedule`). Besides the types the
invariant has three parts. `Places`: an object has at most one entry in the lists
together. `Loops`: what a loop has still to do was not updated in this frame.
`Agreement`: per object, what its owner asked for last is what the lists and the queued
requests come to. The last is the heart: requests are served in batches,
in pairs and singly, and name addresses, so that a request left over from a deleted
object could be served on behalf of its successor. It needs that requests to register an
object are separated by requests to unregister it, that the first request about an object that is still in
the lists is to unregister it, from the list it is in, and that during the loops there are
requests only about objects that are in no list. From the last follows that an
`Unregister` within an update always finds what there is to be found.

`ErasingSkipsOneAlways` adds `SkipInv` to it: the entries of the realtime list which the
index has passed and the frame has not updated are no more than the entries erased in
this frame. An update that erases its own object, or one behind the index, moves one entry
that is still to come behind the index; `ErasedRT` says that it is one, and that the
others keep their side.

`UpdateAlwaysGoesOn` is the safety half of `EveryoneIsUpdated`: in each loop of `Update`
`StepsLeft` is a natural number that every step of the loop makes smaller, and what the
objects do within their updates, which may register and destroy any of them, never makes it
larger, since a registration is only queued until the loops are over.

Every invariant and every action property of a passing run is proved. Only model-checked, in
small instances, is liveness: `ValuesArrive`, `LeaversServed`, `SessionsEnd`,
`CorpseRemovalTerminates`, `LeaversAreForgotten`, `FramesFinish`, `BothEnd`,
`EveryoneIsUpdated`. It needs fairness, hence `ENABLED`, which is out of the prover's reach.

## Not modelled

The tree has more than three million lines, nearly all of them vendored libraries,
headers, renderers, editors and game content code without shared state of the kind
checked here; what is modelled is a small share of it. Of what remains,

* **delayed packets**: the queue is filled and emptied under its lock, but its handler
  runs a remote console command, which may do most of what the server can do;
  the two hazards of it are listed without a property;
* **level start and connection handshake**: the client waits for each answer in turn,
  the rest is reading files; what a client that is not ready yet changes on the server is
  in `ServerEntities`;
* **secure messaging**: what could go wrong is in the bytes of a cipher;
* **item respawner**: a list of places, times and ids last spawned there. A place that
  waits for its time keeps the id of its last item, and the search for an id takes the
  first match, so a reused id may set the wrong timer; no property of the registry
  depends on it;
* **artefact modes, voting, administration**: the handlers are those of deathmatch, or
  count and print; a restart by vote or command is `RoundEnd`;
* **transport**: DirectPlay, an external library. Of its threads the models have the
  messages, the creation and the destruction of clients (`EventQueue`), but no
  disconnect in the middle of a handler of the game mode;
* **pool of disconnected clients**: who comes back is a new client object;
* **weapons, inventory, actors**: their effect on the registry is the nondeterministic
  sender of take, reject and destroy events;
* **A-Life and artificial intelligence**: single-player only, sequential, numeric;
* **login and lobby servers**: thin handlers over a database and sockets;
* **the rest of the engine and of the renderers, editors, tools, vendored code**:
  device code, numerics, interfaces.

Worth proving next: the safety halves of `SessionsEnd` (a session that is not fed has an end
in sight) and of `LeaversServed`, as has been done for the corpse removal and the scheduler. Worth modelling next: a disconnect in the middle of `RespawnPlayer`, and the pool of disconnected clients.

## Checking

`tlc -workers 2 -config MCItems.cfg MCServerEntities.tla` (about a minute; the
other configurations likewise, with the module `PROJECT.json` names),
`tlapm ServerEntitiesProofs.tla` (a few minutes; the other `*Proofs` likewise).

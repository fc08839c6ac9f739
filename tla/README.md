# Verification of the Armada Azteca server

TLA+ models of the server under `src/tfs_0.2.14/src/` (a fork of The Forgotten
Server 0.2.14, an MMORPG server in C++), the TLC runs that check them on small
instances and the theorems about them that TLAPS proves for all instances.
File names below are relative to `src/tfs_0.2.14/src/`.

Contents: [1 The system](#1-the-system) - [2 Plan](#2-plan) -
[3 Modules and code](#3-modules-and-code) - [4 Runs and bounds](#4-runs-and-bounds) -
[5 Fairness](#5-fairness) - [6 Proofs](#6-proofs) -
[7 What the work found](#7-what-the-work-found) -
[8 What is not modelled](#8-what-is-not-modelled) - [9 Running it](#9-running-it)

## 1 The system

### Threads

Three threads share the state of the server (`otserv.cpp`):

| thread | executes | locks |
|---|---|---|
| io_service (main) | completion handlers of sockets and timers: accept, read, write, timeout | `m_connectionLock` (recursive, per connection), `m_outputPoolLock` |
| dispatcher | one task at a time: all the game's logic, then `OutputMessagePool::sendAll` | `m_taskLock`, and the two above |
| scheduler | waits for the first timed event and hands it to the dispatcher | `m_eventLock` |

The game itself (`Game`, `Creature`, `Tile`, ...) has no lock: whatever touches it
is a task of the dispatcher. So there are two kinds of hard behaviour. Below
the dispatcher it is the *interleaving of threads*: signals, timeouts, objects with
two owners. Above it, it is the *sequence of tasks*: a request is decided on state
(raw pointers, cached flags, event ids) that an earlier request left and any number of
other requests have since changed.

### Inventory

| component (code) | state | operations | talks to | what must hold |
|---|---|---|---|---|
| Dispatcher (`tasks.*`) | task list, thread state, expiration of each task | addTask, stop, shutdown, flush, the thread's loop | called by all threads; executes tasks | a task has one owner and is executed at most once, in order; no lost wake-up; nothing that was queued is forgotten |
| Scheduler (`scheduler.*`) | heap of events by due time, active ids, last id | addEvent, stopEvent, stop, shutdown, the thread's loop | hands events to the dispatcher | never early, never after a successful stopEvent, never dropped as expired |
| Server start and shutdown (`otserv.cpp`, `game.cpp` setGameState, shutdown) | game state | load, run, shutdown in steps, join | stops scheduler and dispatcher from within a task | every thread ends; nothing runs that needs what is gone |
| Connections (`connection.*`) | state of closing, pending read and write, timers, reference count, socket | accept, parseHeader, parsePacket, onWrite, timeouts, closeConnection, closeConnectionTask, releaseConnection | io_service handlers; tasks to the dispatcher | the socket and the object outlive every handler and message; closing ends; one write at a time |
| Output messages (`outputmessage.*`) | pool, messages to be sent, messages put off | getOutputMessage, send, sendAll, release | connections, protocols | released once, sent once, in order |
| Protocol base, game protocol (`protocol.*`, `protocolgame.*`) | reference count, output buffer, link with the player | login, take-over, logout, about 80 parse functions, about 150 send functions | game, connection | deleted only when neither player, task nor message refers to it |
| Service ports (`server.*`) | acceptors | open, accept, re-open after an error | connections | always listens again |
| Login, admin, status protocols | none to speak of | one question, one answer | game, database | - |
| Waiting list (`waitlist.*`) | queue with time-outs | clientLogin, cleanup | login | nobody overtakes, a place is kept until its client was to come back |
| Game requests (`game.cpp` player*) | - | about 100 requests, most of which re-schedule themselves after a walk | everything below | decided on the state at execution |
| Trading (`game.cpp`, `player.cpp`) | per player: state, partner, item; `tradeItems` with reference counts | request, accept, look, close; callbacks of all item and creature movement | item movement, walking, logout | both sides agree; what is exchanged is what was shown; both items move or none |
| Item movement (`cylinder.*`, `container.*`, `tile.*`, `player.cpp` query functions, `game.cpp` internalMoveItem) | parent of each item | queryAdd, queryMaxCount, queryRemove, queryDestination, notifications | tiles, containers, inventories, depots, mailboxes, trash | nothing is lost or doubled; no container in itself |
| Parties (`party.*`, `game.cpp`) | leader, members, invitations, shared experience | invite, join, revoke, pass leadership, leave, disband, share | player, chat, combat | pointers of players and lists of the party agree; shared experience only under its conditions |
| Chat (`chat.*`) | channels, users, invitations | open, close, talk, invite, exclude | party, guild, logout | users are in the game, invited or members, and clients show what their players hear |
| Creature lifecycle (`game.cpp` 660-816, 3847-3913, 4721-4738) | ten check vectors, release list, counts | place, remove, check, think, death | map, scripts, combat | each creature is in one check list, deleted after its last use |
| Walking and following (`creature.cpp`, `player.cpp`) | list of steps, event ids of walk, action | startAutoWalk, onWalk, stopWalk, follow | scheduler | a creature with steps left has an event; a stopped one stops |
| Map, tiles, spectators, path finding (`tile.*`, `map.*`; `protocolgame.cpp` for what is sent) | stacks of things, the creatures a client knows | add, replace, change, remove, move; ghost mode | all; every client that sees the tile | each client has the stack that the server takes it to have |
| Items and decay (`item.*`, `game.cpp` transformItem, checkDecay, `movement.cpp` EquipItem) | use counts, decay buckets, attributes, the abilities of a player | put on, take off, transform, use up, destroy, decay | scheduler, player | released after its last use; in one bucket while its time runs; abilities are those of what is worn |
| Market, depots, mail (`game.cpp`, `iomarket.*`, `mailbox.*`, `depot.*`) | bank, inventory, depots in memory and in records; offers in the database | create, cancel, accept, expire an offer; store, fetch, send | items, database | nothing is lost or doubled between two stores |
| Houses and beds (`house.*`) | owner, rent, warnings, what lies there | buy, pass on, pay, evict, save | market, depots, database | an eviction sends everything home |
| Guilds and wars (`ioguild.*`, `chat.cpp`, `commands.cpp`) | ranks in memory and in the database, wars, channel | create, join, leave, kick, promote, pass, disband, declare, accept, end | chat, database | one leader, who is the owner; the channel is for members |
| Monsters and spawns (`monster.*`, `spawn.*`) | targets, friends, master, idle; slots | notice, forget, summon, convince, send home, place again | creatures, scheduler | knows whom it sees; a spawn that is short looks again |
| Combat, spells, conditions; raids; shops; quests, mounts, outfits | formulas, lists of conditions | within one task, driven by think | creatures | - |
| Lua scripting | scripts, events of scripts | callbacks | may call any operation | handles of what is gone are refused |
| Persistence (`ioplayer`, `iologindata`, `database*`) | SQL | load, save | login, logout, save event | all of a player or nothing |
| Loaders; bans, vocations, configuration; buffers and cryptography; GUI and tools | tables | read at start | - | - |

`PROJECT.json` lists each with its files, whether it is modelled and, if not, why.

### Where it is hard

The hazards, each with its line and the properties that would catch it, are in
`PROJECT.json`. They come in these groups:

* *signals and timeouts between threads* - a signal sent after the unlock to a
  thread that waits without a loop; a new first event while the scheduler sleeps;
  stopEvent racing the scheduler for one id; a socket timeout that is queued
  while its read completes; a shutdown while other threads still add;
* *objects with several owners* - task objects, the reference counts of connection
  and protocol that messages keep on two threads, items on offer in a trade;
* *raw pointers over many requests* - trade partner and item, a player's party and
  its invitations, the users of a channel, a protocol that a login waits for;
* *flags derived once and used later* - one field that is due time and expiration,
  shared experience, the tests made before an exchange whose results are ignored;
* *one fact in two places* - ranks in memory and in the database, goods between memory, records, offers and a
  house, a tile at the server and its picture at a client, the slot of a spawn and its monster;
* *callbacks in the middle of a change* - who is told of a disappearance removes others, a transformation takes
  abilities away and gives others, an item leaves a list of decay while the list is checked;
* *limits* - messages put off while two are under way, ten things of a tile, the creatures a client
  knows, a server that is full.

## 2 Plan

Order: what everything else runs on first, then the protocols between several
actors that tests hardly reach.

| module | models | abstract specification | status |
|---|---|---|---|
| TaskService | what the dispatcher and the scheduler promise together | is one | done |
| Dispatcher, Scheduler, TaskSystem | both threads, callers, shutdown | implements TaskService | done |
| TaskSystemProofs | theorems of the task system, its refinement of TaskService | | done |
| Connection, ConnectionProofs | a connection with its protocol and messages | | done, proved |
| Trade, TradeProofs | trading and the movement of items it depends on | | done, proved |
| Party, PartyProofs | parties and their channel | | done, proved |
| PlayerWalk, PlayerWalkProofs | walk events, walks to a thing, delayed actions, stop, follow | | done, proved |
| Goods, GoodsProofs | market, depots, mail, houses and rents, saving and loading, failing statements, crashes | | done, proved |
| Creatures, WorldProofs | appearing, disappearing, references, check vectors, what monsters know | | done, proved |
| Spawns, WorldProofs | the slots of a spawn and its check | | done, proved |
| WaitingList, SocietyProofs | queue, time-outs, admission | | done, proved |
| Guilds, Channels, SocietyProofs | ranks, leaders, wars, the guild's channel; private channels | | done, proved |
| Items | wearing, transforming and decay of items | | done |
| ClientView | tiles as a client is told of them | | done |
| ServerStop | closeAll, pool stop, connections during a shutdown, with ServicePort | composes Connection and Dispatcher | open |
| Stacks | splitting and merging with conservation of counts | | open |
| Conditions | lists of conditions with their clocks | | open |

The next theorem would be ItemsCounted of Items, whose releases have to be written without
recursive operators first.

## 3 Modules and code

Conventions: one action per handler, request or critical section, with the whole of
what it changes; variables and actions have the names of the code; a *history*
variable is named as such where it is declared and feeds no guard of the code.
`PROJECT.json` "map" gives the lines of every definition.

### Dispatcher, Scheduler, TaskSystem, TaskService

`Dispatcher.tla` is `tasks.cpp`: `taskList` is `m_taskList`, `dpc` the place of the
dispatcher thread between two lock operations, `tpc` that of every other thread
that calls `addTask`. A critical section is one action; the signal after the
unlock is another one, so a thread can be overtaken between the two. `live` are the
task objects that exist. `Scheduler.tla` is `scheduler.cpp` in the same way:
`eventList` the heap, `eventIds` the active ids, `spc` the thread. The order of the heap
is the order of due times, and events with the same due time come in any order, as in
a heap. Time is a clock of a few instants; the code's one field `m_expiration`,
which is a due time for an event and an expiration for a task, is one variable.

`TaskSystem.tla` composes them: `now`, the bodies of tasks (which call addTask,
addEvent and stopEvent on the dispatcher thread), other threads, and a shutdown in the
steps of `Game::setGameState` and `Game::shutdown`. `flush` executes tasks
while `m_taskLock` is held, so a body that adds a task there ends in `blocked`: that is what
the code does.

`TaskService.tla` says the same without threads, locks, signals or ids: a set of
events with due times, a list of tasks, one being executed. `ImplementsService` maps
the detailed state to it: an event that the scheduler has popped but not handed over is
still waiting, one that was stopped but not yet popped is not.

Assumption (`FreshEventId`): an id that comes up again after a wrap-around is not in use.
The ids wrap at `MaxEventId`, so the wrap-around itself is in the model.

### Connection

`Connection.tla` follows one game connection from its login to its release.
`ioQueue` holds the handlers that the io_service thread has to execute: a cancelled
timer whose handler is already there is executed all the same. `osRead` and `osWrite` are
operations that the system has not completed, and complete with success or
an error. `tasks` and `events` are this connection's tasks and events only, in their
order; that they are executed in order, once and not before they are due
is what TaskService promises. The dispatcher executes one task (`dpc` = "body"
while the game writes), then `sendAll`, which takes the connection's lock for one
message at a time, so the io_service thread runs in between. A message that fills up
after `Capacity` writes and the list of messages put off are modelled, encryption and
checksums are not. `socket` becomes "fault" when the socket is used after its deletion:
`ObjectsAlive` says that it never is.

### Trade

`Trade.tla` has one action per request: `RequestTrade`, `AcceptTrade`, `CloseTrade`,
`MoveItem`, `ExchangeItem` (a move to a slot that is taken), `RemoveItem` (use,
decay, scripts), `Walk`, `Disappear`, `Login`. Each includes the callbacks of all
spectators: `ClosedByMove` and its relatives compute who notices a change of the world
(`Player::onRemoveContainerItem`, `onUpdateContainerItem`, `onCreatureMove`, ...) and
`InternalCloseTrade` ends their trades. `QueryAdd` and `QueryDestination` decide
where an exchanged item goes, in the order of the code's search where the order matters.
`AcceptTrade` does what `playerAcceptTrade` does: tests first, then two moves whose
results are ignored. `shown` remembers what an offer contained when the
partner got to see it.

### Party

`Party.tla` has the requests of `game.cpp`, and `party.cpp` as operators on a record
`[party, invitations, parties]`: `Departed` is leaveParty, `Declined` clearPartyInvitations,
`Disbanded` disband. A party is known by an address of a small set that is given out again
after its deletion, because the channel of a party is looked up by address. Whether
everybody is near enough, of a fitting level and active is a choice (`able`) at each
update, as everything that decides it can change. `Exempt` are the players whose group has `PlayerFlag_NotGainInFight`: they need
not have fought (`Obliged`) and get no points. `fault` marks a step into a
deleted party, after which nothing is defined; the run shows that the only
way there is a leader who invited himself.

### PlayerWalk

`PlayerWalk.tla` follows one player on top of what TaskService promises: `waiting` are his
events in the scheduler, which `StopEvent` can take back, and `queue` his tasks in the
dispatcher's list, which nothing takes back. Creature and Player know an event by
its id only, as in the code. A request calls several functions (`OnWalk` may end in
`OnWalkAborted`, `StopEventWalk` and `AddEventWalk`), so each function of the code is an operator
from one state of the player, a record, to the next one or to the set of possible ones, and an
action composes them in the order of the code. All requests that walk to a thing
first, or wait until the player may act again, are alike (use, use with, use on a creature,
rotate, move, trade; a swing that waits is alike too): `UseItem` stops a walk, `MoveThing`
does not. What comes in between are teleports, paralysis and recovery, following, a script that forbids moving,
loss of all health, a new level and death in an arena, which brings the player to the temple.
A step may also end in a teleport or a paralysis. How long an event waits is a choice, so that events
become due in any order.

### Goods

`Goods.tla` has the stores between which goods and money move: `memory` of a player who is online (bank balance,
inventory, depot), his `record`, the table of `offers`, a `house` and its `houseRecord`, and the `street`.
Goods are alike and counted, so that a transfer is arithmetic on two stores; `Plus` is the only operator that
changes one. `Delivered` is what mail, market and evictions have in common: into the open or marked depot of who is online,
else load, add, save. `Outcomes` lets each statement of the database fail in the way its caller
notices, or does not. The loops over all offers that expired and over all players and houses that are saved take one
step per element (`todo`), so that `Crash` can come in between. `spent` and `lost` are histories: fees and rents, and
what an eviction puts into a record that `payHouses` then overwrites with the copy it holds.

### Guilds, Channels

`Guilds.tla` keeps each rank twice, as the code does: `rank` in memory of who is online, `rankId` in the
database; `RankNow` is the one that counts. Commands that touch two characters find each of them online or
offline, and saves and logins come in between. Wars are rows of the database, `guildWarList` is what a player took from them at
his login. `Channels.tla` has private channels, with `removeUserFromAllChannels` as it is: it deletes the owner's
channel from the map it is iterating over, so that any channel behind it may be missed (`skipped`). Both keep
apart who is in the game and who has a client, and take a login of somebody who is in the game in the two steps of the code: `login`
takes him out of all channels and either links the new client or, when there is still an old one, schedules `connect`
(`matesAwaited`, `pending`), which comes a second later and takes him out of none. Requests of the old client, `playerOpenChannel` among
them, other logins and expulsions come in between. The histories `strays` and `unseen` are the users whom this leaves where they should not be
(section 7).

### WaitingList

`WaitingList.tla`: times are what is left of them, in steps of five seconds. `CleanUpList` is part of every login, as in
the code. A client that is to be let in may still fail to load its character: it then has neither its place nor an entry.

### Creatures, Spawns

`Creatures.tla` keeps two kinds of references apart: counted ones (`uses`, from the map, check
vectors, lists of monsters, masters, and `releases` for those to be given back) and plain pointers (`attacked`, `followed`,
`master`). A callback is an operator from one world, a record of all variables, to the next, and those around are told one after the
other in any `order`, because a callback may remove or wake up others before they are told. `round` are the creatures of
the bucket that checkCreatures has yet to look at, so everything that thinking may do comes in between. `Spawns.tla`
is `spawnedMap` with its two kinds of entries, slots and lured monsters (number 0), and the check that re-arms itself.

### Items

`Items.tla` follows what one player wears and what lies about. Addresses are given out again after a deletion.
`useCount` counts, `buckets` are the lists of checkDecay, `toRelease` and `toDecay` what the
next cleanup does. `TransformItem`, `EquipItem` and `DeEquipItem` call each other through the notifications of the slot, so each is an
operator from one state, a record, to the next. `Gives` and `Takes` are what a kind does to its wearer, as the code computes it at either end: a `bonus` that is
constant, a `share` of the player's base at his level of the moment (`statsPercent`), a condition of the slot (`auras`), and suppressions, which are bits of one mask for
all slots (`immune`). Which kind turns into which is data of `items.xml`, given by the constant `Info`; its
assumptions are what the properties need of that data (section 7). The histories `drift` and `doubled` are what the shares worn grew by and
which suppressions came a second time.

### ClientView

`ClientView.tla` follows the client of one player. `top`, `creatures` and `down` are the parts of a tile behind its ground;
`known` is `knownCreatureList`; `shown` and `knows` are what the client has made of the messages. The client
itself is not in `src/`: the operators `Client...` say what a message means, by its place in the stack and the id of a creature, and
`broken` that it had no meaning. Every other operator is a send function or a function of Tile, in
the order of the code: where a place is counted before a move and sent after it, or a tile is sent again
after a removal, so it is here. Tiles lie in a row; floors are left out.

## 4 Runs and bounds

Symmetry is used for sets of model values only, and never in runs with liveness
properties. CHECK_DEADLOCK is off where the system may stop: the task system after a
shutdown, and Party after `fault`.

| run | instance | what it shows |
|---|---|---|
| task_system | 3 tasks and the shutdown task, 1 thread besides the two, 3 instants, delays 0 and 2, ids 1..3 | one owner per task; cancelled events never run; due events are executed; no lost wake-up; refinement of TaskService |
| task_system_live | 2 tasks, otherwise the same | tasks and events are served, a shutdown ends the dispatcher thread |
| task_system_comment | 2 tasks | violation: the queue of events is not empty at shutdown (section 7) |
| connection | 2 messages, 2 writes per message, 2 writes | references are counted, a message is sent and released once, one read and one write at a time, one close; no use of a deleted socket or protocol |
| connection_order | 3 messages, 4 writes | writes reach the client in order until a message is put off |
| connection_live | 1 message, 1 write | a closing connection is released, messages return to the pool |
| trade | 3 players, 3 items (2 containers), 3 places | both sides agree, offers are registered once, stay as shown, traders stay in reach |
| trade_nested | 2 players, 4 containers and a coin, 1 place, 1 slot, 1 item per container, offers up to 3 | offers inside offers never overlap, no cycles, exchanges are mutual but for an offer put into the other one |
| party | 3 players, one of them exempt from fighting, 2 addresses, 1 channel at a time | players and parties agree on members and invitations, users of channels are in the game, experience is shared only under its conditions |
| player_walk | paths of up to 2 steps, 4 event ids, 3 tasks in the list | the walk event is never lost and a walk goes on, a request to stop is honoured, delayed actions replace each other |
| society | goods: 2 players, 1 offer at a time of up to 2 goods, a house, 1 fault; guilds: 3 characters, 2 guilds; channels: 3 players, 2 numbers; waiting list: 4 clients for 1 place, 2 premium, 1 of the staff | goods and money are neither lost nor doubled, changed depots are marked; one leader per guild, its channel is for members; listeners are invited and see what they hear; places are kept, nobody overtakes |
| world | creatures: a player and 2 monsters on 3 places; spawn: 2 slots, 3 monsters; items: 3 addresses, 12 kinds; view: a client, a game master, 2 monsters, 3 tiles, 4 kinds of items | uses are counted, pointers lead, death is noticed, opponents are known; the spawn looks again; items are counted, abilities exact, decay goes on; the client shows the tiles |

Why these bounds suffice to meet the hard cases:

* Task system: three tasks give an event in front of an event that is waited for, while a
  third task stops one of them. One further thread is enough for a signal that is
  overtaken, as the two server threads do the overtaking. Three instants
  separate "due", "not yet due" and "expired". `MaxTime` stops the clock, and
  nothing is added that would be due later.
* Connection: two messages are one in flight and one being written; a third is needed only
  for one that is put off (connection_order). `MaxWrites` bounds the game's writes.
  `NoLogoutWaits` bounds the logouts in the list to one: a second one finds the player
  gone or the same state. The constraint `StillOrdered` leaves out states that
  `WritesInOrder` says nothing about: nothing is sent once the connection closes.
* Trade: three players are needed because the hazard is a third one who asks in between. The second instance has a container in a slot
  of each player and one to offer in it, the least at which an offer can be put into the other one, and a weight at which it can then be too heavy.
  Two containers and one or two other items give offers inside containers, containers
  inside offers, full containers and full slots. Positions are points of a line: the
  smaller reaches (0 and 1 instead of 1 and 2) make leaving the reach possible on a map of
  three places.
* Party: three players allow a leader, a member and an invited player at once; two
  addresses allow a second party next to the first and an address given out again.
  The channel of a party is explored where nobody shares or fights (`OneChannel`),
  shared experience where there is no channel, and where there is no other party (`OneSharing`): neither occurs in the guards or effects of the
  other, nor in those of membership and invitations. With a channel, the exempt player leads no party and is not invited while he is in one;
  the other two do both.
* Society and world compose parts that share no state, each in a module of its own with its own actions: a
  behaviour is one of a single part (`focus`), and the view of a state is that part, so a run is the sum of the parts
  and not their product. Nothing is claimed about how parts work together.
* Goods (`FewGoods`): markets and houses are explored one at a time, and with a house both players are online
  only while no depot is marked as changed; after a fault only what happens until somebody is online, which
  is where a record or house that the fault left behind is read. An offer of two goods can be accepted in part. Prices are 1, and `Coins`
  and `Stock` make one player the natural buyer.
* Guilds (`FewMates`): three members with one guild; two with two guilds or with listeners; wars while nobody
  listens; more than one unsaved rank only without either; the third character is never leader, which is symmetry
  among the three. One character at a time has lost its connection, while there is one guild. One connect may be pending for one character at a time (`MaxAwaited`; a further login adds another event, whose connect is refused or does what
  that of the first one did), with one guild of two members and no war: an expulsion needs two. The ranks that are in memory only, in the database only or in both occur in all
  combinations for two.
* Channels: once `skipped` nothing is claimed, and such states are not explored. One connect may be pending for each player (`MaxPending`), for the same reason.
* Waiting list: two premium and one ordinary client are needed to be put in front of somebody, one of the staff to enter a full server.
* Creatures (`FewCreatures`): a player and a monster in full; with a second monster only while one of the two is a summons that
  nobody but its master's enemies fights, at the two ends of the row and the player at one of them, with nothing to be released. A monster that
  summons does so while it thinks, in the middle of a round.
* Items (`FewItems`): one item in every way; two, while the player is online, when they are boots, or worn boots and an amulet that suppresses the same, none of which is about to be released, or when one takes the place of the
  other, in each case without a remainder of a share; once a suppression was given twice (`doubled`), worn boots and the amulet only. The ring and the worn boots give a share that is another one at the second level. Two lists of decay instead of four (`LastBucket`; `EVENT_DECAY_BUCKETS`, game.h:83): an item is in the list that is looked at or in another one. The view counts
  lists from the last one looked at.
* View (`FewThings`): four things behind the ground of all tiles, of which a client shows three: with `MaxThings` 4 the fifth thing of
  a tile is hidden, comes up and goes down. Items lie in the middle only, with at most one creature besides the viewer. Three known creatures and four that
  come and go with new ids make the client forget one. Once more creatures are in sight than it can know
  (`kicked`), nothing is claimed, and such states are not explored.
* Walk: the player remembers three events, so a fourth id leaves room for one that was
  replaced too late and is still queued; with all ids in use only what schedules no event can happen.
  Two steps tell the last step from another one. `MaxQueued` is the length of the list up to
  which another event becomes due, and `NoWalkQueued` leaves one walk of `ActThere` in it at a time.
  A fresh id is one that the player does not remember and that is not in use: ids come in turn.

Every property of a passing run has a mutant: a plausible bug in one definition,
such as a dropped guard or a missing reset, under which TLC finds the property violated.
Mutants are operators next to the definition they replace and are commented as such.

## 5 Fairness

Fairness is stated only for what the code and its environment do without being asked:

* `TaskSystem!FairSpec`: the clock advances; both threads run when they can; a shutdown
  that began goes on; the call of addEvent in a body returns; a thread that has unlocked sends
  its signal. Strong fairness of the timeout of `timed_wait`: the wait may return
  spuriously any number of times, but when its time has come it does not for ever return
  without noticing. Nobody is obliged to add tasks or to begin a shutdown.
* `Connection!FairSpec`: a read or write of the system completes or its timer
  expires (the code arms one with every operation); the io_service thread executes
  its handlers; the dispatcher executes what is in its list, and this connection's tasks
  in the end although others come in between (SF, from the order of the list); a body ends; a
  message that stays in the list becomes old enough to be sent (SF of `SendNow`, as
  sendAll compares the message's age with a constant); scheduled events become due.

All other modules have safety properties only. WalkGoesOn, DecayGoesOn, SpawnLooksAgain and DeathNoticed say that what goes on with a
walk, an item, a spawn or a dying creature is scheduled, and AllServed of the task system that what is scheduled is executed.
No fairness is assumed of players.

## 6 Proofs

TLAPS checks these theorems for every value of the constants that meets the named
assumptions of the modules:

| theorem | module | says |
|---|---|---|
| TypeCorrect | TaskSystemProofs | `Spec => []TypeOK` |
| TasksHaveOneOwner | TaskSystemProofs | `Spec => []OneOwner` |
| NoWakeupIsLost | TaskSystemProofs | `Spec => []NoLostWakeup` |
| StoppedEventsNeverRun | TaskSystemProofs | `Spec => []StoppedNeverRuns` |
| EventsAreExecutedWhenDue | TaskSystemProofs | `Spec => []DueThenExecuted` |
| TaskSystemImplementsService | TaskSystemProofs | `Spec => ImplementsService`, the safety of TaskService |
| ConnectionRefsCounted | ConnectionProofs | `Spec => []RefsCounted` |
| ConnectionObjectsAlive | ConnectionProofs | `Spec => []ObjectsAlive` |
| ConnectionWritesInOrder | ConnectionProofs | `Spec => []WritesInOrder` |
| TradeTypes | TradeProofs | `Spec => []TypeOK` |
| TradeSidesAgree | TradeProofs | `Spec => []SidesAgree` |
| TradeOffersRegistered | TradeProofs | `Spec => []OffersRegistered` |
| TradeOffersAsShown | TradeProofs | `Spec => []OffersAsShown` |
| TradeTradersTogether | TradeProofs | `Spec => []TradersTogether` |
| TradeNestingSound | TradeProofs | `Spec => []NestingSound` |
| TradeExchangeIsMutual | TradeProofs | `Spec => ExchangeIsMutual` |
| PartyPlayersAgree | PartyProofs | `Spec => []PlayersAgree` |
| PartySharesWithAll | PartyProofs | `Spec => []SharedNeedsAll` |
| PartyUsersOnline | PartyProofs | `Spec => []UsersOnline` |
| PlayerWalkGoesOn | PlayerWalkProofs | `Spec => []WalkGoesOn` |
| PlayerDelaysOneAction | PlayerWalkProofs | `Spec => []OneDelayedAction` |
| PlayerStopsWhenAsked | PlayerWalkProofs | `Spec => []StopHonoured` |
| GoodsTypes | GoodsProofs | `GoodsSpec => []GoodsTypeOK`: no store ever gives what it does not have |
| GoodsDepotsMarked | GoodsProofs | `GoodsSpec => []DepotChangesMarked` |
| GoodsAreConserved | GoodsProofs | `GoodsSpec => GoodsConserved` |
| UsesAreCounted | WorldProofs | `CreaturesSpec => []UsesCounted` |
| DeathIsNoticed | WorldProofs | `CreaturesSpec => []DeathNoticed` |
| PointersLeadOn | WorldProofs | `CreaturesSpec => []PointersLead` |
| OpponentsAreKnown | WorldProofs | `CreaturesSpec => []OpponentsKnown` |
| SpawnsLookAgain | WorldProofs | `SpawnsSpec => []SpawnLooksAgain` |
| GuildsOneLeader | SocietyProofs | `GuildsSpec => []OneLeader` |
| GuildsChannelOfMembers | SocietyProofs | `GuildsSpec => []ChannelOfMembers` |
| ChannelsHeardByInvited | SocietyProofs | `ChannelsSpec => []ListenersInvited` |
| WaitingPlacesKept | SocietyProofs | `WaitSpec => []PlacesKept` |
| WaitingRoomForThoseAhead | SocietyProofs | `WaitSpec => RoomForThoseAhead` |

*Task system.* `OneOwner` is not inductive: whether a task may be given up depends on where the
threads are and on how far the shutdown is. `PlacesInv` adds this: `ThreadPlaces` ties each
thread's local task to its place, `ShutdownOrder` the states of both services to the
progress of the shutdown. `NoLostWakeup` needs in addition `EventsDated`, the due times of
queued events and what the scheduler waits for. The invariant is
TypeOK, PlacesInv, OneOwner, EventsDated and NoLostWakeup together, and each step of the
dispatcher, the scheduler, the bodies, the shutdown and other threads has a lemma.
Assumptions: `NoTask` is no task, the shutdown task none of `Tasks`, `NoDate` no number,
`MaxTime` and the delays are natural numbers, `TaskExpiration`, `MinTicks` and `MaxEventId`
positive ones.

*Events and refinement.* `EventsInv` adds `StopInv` (what was stopped is still allocated, and ids are unique in the
queue, so that stopEvent means one event) and `DueInv` (the scheduler never waits beyond the first due time; what was
handed over has no date left). The step simulation behind `ImplementsService` needs `HandInv` besides: an event that was popped
was the first one, nothing that was added since precedes it, and only the last task flushes the list. Each step
of the two threads, bodies, other threads and the shutdown is a step of TaskService or leaves its state alone.

*Connection.* `ConnectionInv` says where everything is: `IoInv` relates the counters of pending reads and
writes to the operations of the system and the handlers in the queue; `StopLast`, that behind the stop handler only timeouts come that
could not be cancelled; `CloseInv`, that each state of a closing connection has one task, event or handler that takes it
further; `ProtocolInv`, which tasks may still be bound to a protocol (a login is the first task, who logs out did so before
the close); `CountInv`, one reference per message that is out; `SentOnce`, that a message is in one place. They need
each other: no message is out when the stop handler is queued because the release waits for the count, and the
count is right because a message is in one place. The queues are sequences whose elements are counted; the
lemmas on `CountIn` say how Append and Tail change that. `OrderInv` adds the order of writes: before the game's first
write only a refusal is sent; afterwards, and unless a message was begun while two were under way or one was put off, at most one
message waits, or two in their order of which the first is full, while nothing is being written and `sendAll` looks at the
first. Assumption: `ConnectionConstants`.

*Trade.* `IInv` is TypeOK, SidesAgree and OffersRegistered: both need each other,
because a request is decided on the pointers that `SidesAgree` relates, and closing a trade
gives back what `OffersRegistered` counts. The central lemma is
`PartnersLeaveTogether`: a set of players closed under partners leaves the rest
in agreement, so `InternalCloseTrade` keeps the invariant for any set of spectators that
notice a change. Assumptions: `Containers` are items, the null values are no players or
items, reaches are natural numbers and an item's is not larger than a partner's (in the code 1 and 2), players, items and
places are different things, `Items` is finite.

*Trade, the offers.* `OffersInv` is about what lies in what. `Above` of an item is a least set, found in as many rounds as
there are items (`AboveIsLeast`, by induction over the rounds), and it is a chain with one thing at its top (`AboveIsChain`, `TopIs`), as
long as nothing is inside itself (`Acyclic`). The lemma that carries the three theorems is `MoveKeepsOffer`: a move at which
a player's callbacks close no trade leaves what his offer contains and what is above it as they were; so an offer that
stands holds what the partner saw, is where its owner reaches it, and shares nothing with another offer. An exchange is two
such moves, the second one from the state in between (`KeptTwice`).

*Trade, the exchange.* `ExchangeIsMutual` needs, besides, that no container holds more than its `Room` (`RoomKept`). `StillRoom`: where
the test found a place for the second item there still is one when the first has gone, for what the receiver carries became
less; and if that place was inside the item that has gone, there is one where that item was, as the search does not start from the
offer itself. Assumption: slots, room and capacity are natural numbers.

*Party.* `AgreesOn` says of one address what players, invitations and the party there say of each other; a leader
is no member and no member is listed twice. `leaveParty` and `disband` pass through states where this is broken for one
address: `Loose` is what is left of it there, and each operator of the code has a lemma from one to the other. A member who is also
invited has invited himself (`askedSelf`). `SharedNeedsAll`, about every player who is not `Exempt`, is the part `Sharing` of the set `Sound` of the party records that operators
pass on. `UsersOnline` needs that `fault` implies a leader who invited himself.

*Walk.* Each function of the code has lemmas of what it makes of one state of the player, for the parts `Known`, `Led`, `Going` and
`Stops` of `Sound`. They are about every id the player may remember (`World(id)`), as the next id is not part of his state. `Known`
is why a delayed action replaces the one before: what waits in the scheduler is remembered by its id and can be taken back,
and what could not be taken back is in the dispatcher's list. No event that waits is without an id (`Numbered`), because a request finds
one or is refused: the only place where the bound on ids matters.

*Creatures.* The callbacks pass worlds on, so the invariant is one of worlds: `Sound` is `Due` (uses are the holders and what is
to be released), `Agree` (a master and his list of summons agree), `Fresh` (who does not exist has no master, is in no vector
and not dead) and `Minded` (who has creatureCheck is on the map and in a vector, who is dead on the map has it). A callback gives a
world `Like` the one before, in which nobody came or went, or one `After` it, in which some were removed: either way who was in a vector
stays in one, and players on the map keep creatureCheck. Each operator has a lemma from `Sound` to `Sound`; one
that tells those around in turn has it by induction over the turns (`Turns` and `TurnsStay`, stated of the function
of worlds, as an operator cannot be a parameter of a fact). A deletion gives back what the object held, so that another one may follow: as many rounds as there are creatures
(`Collected`). The invariant `Going` adds that those of the round of checks are in a vector and that players on the map have
creatureCheck. Assumption: `CreaturesConstants`, players and monsters being finite sets, for what is counted.

`PointersLead` speaks of plain pointers that only the callbacks of others clear, so the invariant needs `Led`: who is on the map
attacks and follows only whom it sees there (`Aimed`), who does not exist points at nobody (`Blank`), and who has left the map but
still exists has nobody left who would be told (`Flat`, `Attended`). In the middle of a removal or of a movement the world is not `Led`:
some of those who see the creature have been told and others have not. Two relations say what a callback may do in between:
`Loosed`, it moves nobody and points at nobody new, and `Steers`, whom it points at now it sees, and whom it removed nobody who saw it
points at any more. A turn of the loop over the spectators makes good for one of them (`Marked` after a movement),
and as every later turn `Steers`, it stays good, so that after the last turn all are; who is no spectator saw nothing before and
after. Deletions give up masters and summons and only loose pointers.

`OpponentsKnown` is about pairs, a monster without a master and an opponent in its view (`Faces`), and the invariant is `Aware`: it
`Knows` the opponent, as a target while it is let think or as one it was told to overlook. A callback may concern others and still make a
monster sleep, forget or lose its master, so a relation of two worlds says what it must not do: the second `Heeds` the first when no
monster faces anybody anew and none forgets whom it still faces. Most callbacks make a world that heeds the one they are given, because
a monster without a master falls asleep only when its list is empty, unless it is sent home or removed, and wakes up whenever somebody is
put into the list. The others are excepted for one creature: who comes, moves or is convinced may be faced anew (`HeedsBut`), as may a creature
in the middle of its removal, which leaves its master while it is still on the map; and a monster that looks again or is sent home
empties its list first (`HeedsOthers`). There the loop over the spectators makes good for one pair at a turn (`Acquainted`, `Noted`);
every later turn heeds, and everybody who sees the place where the creature now is has a turn (`SeenAt`, `AllAsked`). A summons whose
master is deleted faces nobody with its old list, as it is no longer on the map (`Attended`).

*Spawns.* The invariant counts: every living monster of the spawn has one entry and every slot in use one monster, and a monster
that is placed is new, so that as long as the entries are as many as the slots no monster is missing. `Slots` is finite.

*Goods.* The types are natural numbers, so that `GoodsTypeOK` says that no balance and no stock falls below
zero. Each operator of the stores has a lemma that it maps well-typed stores to well-typed ones, given what the guards
ask for, and each action cites those it uses. That changed depots are marked needs two more facts:
`Marked` is about the record of stores that operators pass on, and only holds while no statement has failed; and a player with an
open locker has marked his depots, as the code marks them when it opens the locker, not when something is put in.

`GoodsConserved` is about sums over all players and all offers, which the library adds up with a recursive function on finite sets.
Its lemmas (`SumsAre`, `SumMoves`), by induction over finite sets, say that a sum changes as much as the one term that changed.
`Moves` says of two records of stores what they differ by in goods and in money, for those who are online (`On`): an operator of the code
that does its work moves what it is given (`DeliveredMoves`, `CreditedMoves`, `PaidMoves`, `ReducedMoves`...), moves follow
each other, and each action is a chain of them that adds up to what it takes from the house, the street, fees and rents (`Balances`).
The invariant `Present` is what makes a change of the session harmless: only players in the game are marked or waited for by a
save, so that a save never overwrites what an offline player was given, and the rent of one who is offline is taken from depots as
they are in his record. Assumptions: there are finitely many players and offers at a time (a table of the database has finitely many rows),
and `NoOffer` is no offer.

*Guilds.* `OneLeader` relates the owner in the table to the rank that counts, and commands see only those who are online:
the invariant `Leading` says who may be leader of which guild in terms of `RankNow`, so that a save or login, which
moves a rank between memory and database, changes nothing. `Listening` is about the users of the channel: one who is no member either
has no client and no connect that would give him one, so that only a login can, which takes him out first, or is one of `strays`. `ChannelOfMembers` follows for those
who have a client.

*Channels.* `ListenersInvited` is invariant unless `skipped`; the induction needs that clients that are gone show nothing
(`NoneShown`), and that what was heard before its client was linked (`unseen`) is excepted only while it is heard (`UnseenHeard`).

*Waiting list.* The list is `InLine`: no client twice, no premium client behind another one; dropping what timed out (a recursive
function over the list, by induction), inserting and leaving keep it so. `Promised`: who still has time is in the list, and the
time left and the time waited together are at least what was promised. For `RoomForThoseAhead`, those ahead of a client are
as many as the places before its own.

Induction on natural numbers (rounds of `Above`, lengths of lists) is done through well-founded induction
on a set of numbers, which takes no operator as a parameter.

Only model-checked: everything with fairness (liveness and ENABLED are beyond the prover); ClientView (folds over tiles, and what a client
was told is a sequence of messages); and Items, which uses recursive operators for what releases set off, and whose `AbilitiesExact` and
`DecayGoesOn` are about the kinds of item of the instance.

## 7 What the work found

* *The queue of events is not empty at shutdown* (`task_system_comment`).
  `Scheduler::shutdown` says "this list should already be empty" (scheduler.cpp:220)
  and pops what it finds without deleting it. Nothing empties the list before: an event
  that is not yet due is unlinked and its task object leaks. At the end of a
  process the leak is harmless; the comment is wrong.

Behaviour that the models have because the code has it, and that no text in the
repository contradicts:

* `Scheduler::shutdown` sends no signal, so a scheduler thread that waits for a first event
  never ends and the join at otserv.cpp:225 does not return; `ShutdownEnds` is therefore
  about the dispatcher thread only.
* `Dispatcher::shutdown` holds the lock while it flushes: a flushed task that adds a task
  locks its own thread (`blocked`).
* An exchange can put the first offer inside the container it is exchanged for
  (`PutIntoOffer`): the search for a free place skips offers among the slots, but
  not an offer that lies deeper (player.cpp:3000). The first player gets it back with the
  container; or the container is then too heavy for him, its move fails, nobody looks at the result
  (game.cpp:2814), and the other player keeps both. The proof of `ExchangeIsMutual` says that this is the only exception;
  an instance with two containers was too small to show the second outcome.
* A leader can invite himself (game.cpp:5191 does not refuse it). When the party goes, his list
  of invitations keeps its address and his logout asks a deleted party (`LogoutFaults`).
* A player who leaves a party stays a user of its channel: his party pointer is cleared before
  the channel is looked up by it (party.cpp:110). He is removed when he logs out.
* A party channel is never deleted and is found by the address of the party, which a later
  party may get.
* A walk event that comes while its player has no health is dropped, with `eventWalk` set
  (game.cpp:3826). When a share of experience gives the player a level before `onDeath`, he is alive and no
  longer walks, because addEventWalk waits for an event that is gone; a teleport or a
  paralysis frees him (`dropped`).
* A teleport stops the walk event but keeps the list of steps and the task at its end: an event that
  could not be taken back, or the next walk event, takes a step of the old path, and while
  `walkTask` is set the player does not follow anybody (player.cpp:3556).
* A request to stop is forgotten when the player is paralysed and recovers: `setSpeed` calls
  addEventWalk, which resets `cancelNextWalk`. `StopHonoured` therefore ends with a recovery.
* `goToFollowCreature` writes the path into the list before startAutoWalk refuses to start
  (creature.cpp:1051): a player whom a script forbids to move, and who has a walk event, follows.

* Goods: `accept` of an offer to buy pays the seller before it looks for the buyer, whose record may not be readable: the
  goods are gone and the offer is still there (game.cpp:5710). Results of saves of offline players are ignored (game.cpp:5762, 5910,
  mailbox.cpp:171, house.cpp:266). A query for items that fails at a login leaves the depot empty, and the next
  save writes that. An offer that is not deleted is paid again. `payHouses` saves its own copy of an owner over
  the record into which `transferToDepot` just put the goods of the house (house.cpp:964-970), although the
  comment at house.cpp:72 says "send items to depot". `paidUntil` is written and never read: rent is due at every
  `payHouses`. Players, owners and houses are saved in transactions of their own, so that a crash in between doubles or loses goods.
* Guilds: the test of `!stopwar` is inverted (chat.cpp:1160): wars younger than four days can be ended, older ones get "You
  have to wait at least 4 days". A guild that accepts its own declaration is told that it is at war, without effect. The wars of a guild that was disbanded cannot be ended. A
  crash after a change of leadership, when one of the two was saved, leaves two leaders (the model has no crash of its own here).
* A login of somebody who is in the game takes him out of all channels at once and links the new client a second later (protocolgame.cpp:288-294), with connect,
  which takes him out of none. When he opens the guild's channel in between, by a request of the old client that is still queued or by a login that is linked first, and is expelled
  before the new client is there, he hears the guild although he is no member (`strays`), until he leaves the channel. A private channel that he opens in between he hears while
  the new client does not show it (`unseen`). `ChannelOfMembers` and `ListenersInvited` except these users and nobody else.
* Channels: `removeUserFromAllChannels` erases an element and goes on from it (chat.cpp:394). Somebody invited who is offline cannot be
  excluded.
* Waiting list: a premium client that finds only premium clients is not queued and is told place -1 (waitlist.cpp:113).
* Spawns: convincing a monster removes it without starting the check again; a slot that could not be filled at the start is not tried again
  unless something else starts the check. Lured monsters count as present.
* Creatures: a monster that is sent home is put to sleep with an empty list of targets, and overlooks those around it. Two dead summons that know each other
  keep each other's objects.
* Items: a script that turns a decaying item into another decaying kind lists it twice (a lit torch that
  `decayto.lua` turns into the next kind of lit torch): the assumption on `turns` leaves it out. A worn item that is exchanged for another
  one is taken off after the new one was put on, which then has no abilities. A level that is lost leaves what is worn in effect.
  A percentage of a stat is one of the player's base when the item is put on, and one of his base when it is taken off (movement.cpp:837, 909): when he gained a level meanwhile, more is taken than was given, until he
  logs out (`drift`). Two items that suppress the same condition share a bit: the first to be taken off ends it for both (movement.cpp:875, `doubled`). `AbilitiesExact` says that the
  player's abilities are off by exactly this.
  An item whose kind decays to nothing and has charges never disappears.
* View: with more creatures in sight than a client can know, the new one is dropped from the list while the client is told to forget
  another ("lets kick some players with debug errors :)", protocolgame.cpp:1020).

## 8 What is not modelled

* Dispatcher and scheduler: nothing that changes state.
* Connection: the first packet (its refusal changes the reference count on the io_service
  thread without a lock), closing of all connections and of the pool at shutdown,
  exceptions of the asio library, and the admin and account manager protocols.
* Trade: stackable items, kinds of slots, the document of a house transfer, rules of
  scripts. Weight is the number of items. These restrict where an item fits; the model has every
  outcome of "fits" and "does not fit" by its three limits `Slots`, `Room` and `Capacity`.
* Party: how experience is divided, what is displayed. A player's group, and with it `Exempt`, does not change.
* PlayerWalk: monsters and non-player characters; path finding; durations; ground without a
  speed (no event is scheduled on it); the removal of the player, whose events then find nobody; a step that
  makes the player faster.
* Goods: items that differ, prices, histories and statistics of the market; parcels and labels; access lists of houses; beds.
* Guilds: invitations, nicks, names of ranks, kills in a war, failing statements, crashes.
* Channels: public channels, muting, the text of messages.
* Creatures: conditions, experience, which target is chosen, attacks, floors, zones and invisibility; the references that a spawn has to its monsters
  (spawn.cpp:355, given back at 430 and 473) and a protocol to its player (protocolgame.cpp:134, 318), which `UsesCounted` does not count. Spawns: times.
* Items: stacks and merging, containers in slots, what a script does on its own. The base that shares are of changes with the level only (in the code the level of magic and
  soul points change it, too), and the least values of stats (player.cpp:616-622) are never met.
* ClientView: floors and the spectator cache; ground that is replaced; fields that cannot be replaced; outfits, light and other data
  of creatures; moves of an item within its own tile that a script could make of a field or an item on top.
* Everything marked not_modelled in `PROJECT.json`, each with its reason: planned (section 2);
  data, formulas or file formats; rules that are the database's; scripts, which are data of
  a particular server.

## 9 Running it

    tlc -workers 2 -config Party.cfg MCParty      # likewise the other .cfg files
    tlapm TradeProofs.tla     # likewise TaskSystemProofs, ConnectionProofs, PartyProofs,
                              # PlayerWalkProofs, GoodsProofs, WorldProofs, SocietyProofs

`TaskSystem*.cfg` belong to `MCTaskSystem`, `Connection*.cfg` to `MCConnection`,
`Trade*.cfg` to `MCTrade`, `Party.cfg` to `MCParty`, `PlayerWalk.cfg` to `MCPlayerWalk`,
`Society.cfg` to `MCSociety`, `World.cfg` to `MCWorld`.
No run takes longer than three minutes with two workers.

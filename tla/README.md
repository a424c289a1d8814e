# A formal model of the Psycho-Core world server

This directory is a TLA+ verification project kept beside the Psycho-Core 8.3.7
sources, a TrinityCore-derived MMO server in C++. It models the parts of the server
where the order of steps decides whether the program is right: the threads and queues
every other subsystem stands on, the sessions of the players, and the persistence of what
they own. Paths below
are relative to `src/src/`; line numbers of every definition are in `PROJECT.json`
under `map`.

Contents: 1 inventory, 2 modules and how they correspond to the code, 3 runs, bounds
and fairness, 4 findings, 5 proofs, 6 what is not modelled, 7 plan, 8 how to run.

## 1. Inventory

### 1.1 Threads and how they meet

`worldserver` (`server/worldserver/Main.cpp`) runs

- the **world thread**, `WorldUpdateLoop` -> `World::Update`: sessions, mail and
  auction timers, battlegrounds, groups, LFG, and once per `i_timer` the maps;
- **map update threads** (`MapUpdate.Threads`), one pool, `MapUpdater`;
- **database threads**: per pool (login, world, character, hotfix) a number of
  asynchronous connections, each with a `DatabaseWorker`, and synchronous
  connections shared by all callers;
- **network threads** (`Network.Threads`), each updating its own sockets, and
  `boost::asio` threads for accept, timers and REST;
- CLI, RA, SOAP and freeze-detector threads that only queue commands.

`bnetserver` authenticates accounts and hands the client to a realm.

Threads share state in four ways: a *queue with a lock and a condition* (map updater,
database pools), a *barrier* (`MapUpdater::wait`: between ticks the world thread owns
every map, during one each map belongs to one thread), *futures polled by callbacks*
(database results), and *queues of packets* between network, world and map threads
(`LockedQueue`, `MPSCQueue`). Game code in `game/` is written without locks because of
the barrier; the barrier is therefore the property on which everything else rests.

### 1.2 Components

State, operations, what is hard and what makes it correct. Those marked * are modelled
or partly modelled here.

| Component | State | Operations | Hard | Correct when |
|---|---|---|---|---|
| `ProducerConsumerQueue`* | `_queue`, `_shutdown`, sleepers | Push, Pop, WaitAndPop, Cancel | one `notify_one` per Push, spurious wakeups, Cancel against sleepers | a FIFO queue; no wakeup lost; nobody sleeps after Cancel |
| `MapUpdater`* | `pending_requests`, token, threads, queue | activate, schedule_update, update_finished, wait, deactivate | updates schedule updates; the token drops requests; shutdown order | barrier, exclusive updates, wait() and deactivate() end |
| `MapManager`*, `MapInstanced`* | `i_maps`, `m_InstancedMaps` | Update, CreateBaseMap, CreateInstance, DestroyInstance, UnloadAll | maps are deleted by update threads | a request never refers to a deleted map; every map updated once per tick |
| `MySQLConnection`*, `Transaction`* | handle, session, `_deadlockLock` | ExecuteTransaction, Execute, `_HandleMySQLErrno`, retries | deadlocks, lost connections, process death | atomicity; a truthful result; no lock outlives its transaction |
| `DatabaseWorkerPool`*, `DatabaseWorker`* | queue, tokens, connections | Execute, AsyncQuery, DelayQueryHolder, CommitTransaction, DirectCommitTransaction, Close | several workers, shutdown with work queued | loads follow saves; Close ends |
| Query callbacks* | `_callbacks`, futures, chains | AddCallback, ProcessReadyCallbacks, SetNextQuery | callbacks add callbacks; sessions die with futures pending | no callback lost, doubled or starved |
| `MPSCQueue` | Head, Tail, Next of nodes | Enqueue, Dequeue | lock-free, a gap between exchange and link | FIFO per producer, nothing lost |
| `WorldSession`* | sockets, player, `m_playerLoading`, login callbacks, logout time, expiry | login over a second connection, logout, KickPlayer, Update, destructor | connections close at any time; network threads act on the session; loads and saves are queued | loads follow saves; a lost session ends; nobody is left unsaved at the end |
| `World` sessions and login queue* | `m_sessions`, `m_QueuedPlayer`, `addSessQueue`, `_linkSocketQueue` | AddSession_, RemoveQueuedPlayer, ProcessLinkInstanceSocket, UpdateSessions, KickAll | replaced sessions, privileged ones, limit | no pointer to a deleted session; the limit kept; no idle place; first come, first served |
| `LockedQueue`, packet filters | `_recvQueue` | add, next, readd | two kinds of thread drain one queue; requeued packets | packets in order, each handled once, by the right thread |
| `Socket`, `NetworkThread`, acceptor | `_closed`, `_closing`, write queue, socket lists | AsyncRead, QueuePacket, CloseSocket, Update | close against pending writes | every closing socket closes; each socket has one thread |
| Trade | accepted flags, items, gold of two players | set item/gold, accept, unaccept, cancel | two actors | nothing changes after both accepted; items neither lost nor doubled |
| Mail* | mailboxes in memory, mails and items in the database, queued transactions | send, list, take, return, delete, return of old mail | memory and database change apart; crashes; loading past the queue | an item and a coin are in one place; what was to be paid is paid |
| Auction house, black market | auctions, bids | post, bid, buyout, cancel, expire | timers against requests, transactions | an item has one owner; gold is conserved |
| LFG | queues, proposals, role checks | join, leave, proposal answers, timeouts | many actors and timeouts | no player in two groups; a proposal ends |
| Groups, instance saves, battlegrounds | members, leader, bindings, invitations | invite, leave, disband, reset, queue, invite, remove | stale invitations, resets | one leader, a member; limits of a battleground |
| Events, pools, game events | timed events, spawned objects, event states | add, kill, modify; spawn, despawn | events that add and delete events | each event runs once; pool limits kept |
| Guilds, calendar, quests, achievements | large records | handlers of one thread | data volume, not order | (sequential) |
| Grids, visibility, movement, spells, combat, AI, scripts | the game world | the rules of the game | size | (out of scope) |
| Static stores, codecs, configuration, tools, vendored code | read-only | load | none | (out of scope) |

`PROJECT.json` lists them all with their sources and status, and under `hazards` every
place where the surveyed code is hard to test, with the properties that watch over it or the
reason why none does yet.

## 2. Modules

```
 WorkQueue  <== implements == ProducerConsumerQueue(Spec) 
     ^                               |
     | used by (contract)            | used by (the detailed queue)
 DatabaseWorkerPool             MapUpdater == implements ==> MapTick

 MySQLServer (external) <-- SqlTransaction == implements ==> AtomicTransactions

 Sessions: WorldSocket, WorldSession and World over the database's queue in order
 Mail:     mail handlers and mailboxes over the database's queue in order, with crashes
```

`Sessions` and `Mail` use the database as a queue that one worker executes in order: what
`DatabaseWorkerPool` shows of it with one worker (`LoadsSeeSaves`), and `SqlTransaction`
of each transaction (whole or not at all).

| Module | Kind | Models |
|---|---|---|
| `WorkQueue` | abstract | what callers of the blocking queue rely on |
| `ProducerConsumerQueue` | component | the queue's member functions, one action per critical section |
| `ProducerConsumerQueueSpec` | closed system | the queue under callers in any order, its properties and its refinement |
| `MapTick` | abstract | world phase and map phase, each map updated once |
| `MapUpdater` | component | world thread, update threads, queue, counter, barrier, shutdown |
| `MySQLServer` | external | sessions, row locks, autocommit, deadlocks of the database server |
| `AtomicTransactions` | abstract | a transaction takes effect whole or not at all, and says which |
| `SqlTransaction` | component | ExecuteTransaction, error handling, reconnection, retries |
| `SqlContention` | component | `SqlTransaction` with a history of the deadlocks that retries lose |
| `DatabaseWorkerPool` | component | callers, workers, futures and callbacks, Close |
| `Sessions` | component | connections, login queue, sessions table, login, logout, kick, expiry, last update |
| `Mail` | component | mail between players: memory, database, queue, crashes, return of old mail |
| `MC*` | instances | constants for TLC, where a .cfg alone cannot state them |
| `*Proofs` | proofs | theorems of the component of that name; `SessionsLoginProofs` extends `SessionsProofs`, and `MailProofs` extends `MailDatabaseProofs` |

Operators whose comment begins with "Mutant of" are deliberate errors, each a plausible
bug of the definition below it. `PROJECT.json` pairs every checked property with one
that breaks it, which shows that the property depends on the code as it is. They are in
no next-state relation.

### 2.1 ProducerConsumerQueue

`_queueLock` is held for the whole body of every member function except inside
`_condition.wait`, so each body is one action and `WaitAndPop` is split at the wait.
`where` says where a consumer is: outside, about to take the lock and evaluate the loop
condition, or asleep. `Push` notifies some sleeper (or nobody), `Cancel` empties the
queue, sets `_shutdown` and notifies all. Spurious wakeups are an action of their own.
`value` is the variable passed by reference, which callers initialise with null.
Cancel's deletion of queued pointers is the emptying of the queue.

### 2.2 MapUpdater

`_lock` is held for the whole body of `schedule_update` and `update_finished`, so each is
one action with the Push or the notification in it. `world` and `worker` are the program
counters of the world thread and the update threads. A tick of the world thread:
`BeginTick`, one `ScheduleMap` per base map, `EndSchedule`, `WaitSleep`/`WaitReturn`
(with the sleep, and spurious wakeups), one `DelayedUpdate` per map, `EndTick`. Without
update threads (`activated = FALSE`) `UpdateInline` replaces the scheduling. An update
thread: `CallWaitAndPop`, the queue's own steps, then `Exit` or `BeginUpdate`, for each
instance of the map `VisitInstance` (which schedules it) or `UnloadInstance` (deletes it,
or spares it when players could not be moved), and `FinishUpdate`. Shutdown is
`UnloadAll`, then `MapUpdater::deactivate` in its order: token, wait, `Cancel`, join.
The map's own update is not modelled: what it may change is another map's existence:
the instances it schedules and deletes, and the base maps it creates when it asks `MapManager`
for the zone or area of a place (`CreateInUpdate`, on an update thread; in `UpdateInline` on the
world thread). The scheduling loop may come past such a map in this tick (`seen`) or not.
A map is its key: the unordered map `i_maps` has no iterators here, which an insertion without the
loop's knowledge may invalidate, and two threads that both miss a map, outside the lock, put one
key there, where the code has a second object. `served` is a history variable, used by the
properties and by the refinement; a base map created behind the loop counts as let off.

### 2.3 SqlTransaction and MySQLServer

A transaction is a sequence of rows its statements write; the effect of the k-th statement
is the number k, so "atomic and in order" is `durable[t] \in {<<>>, Whole[t]}`. One action
is one request with what the code does with its reply. `ExecuteTransaction` is `Enter`,
`BeginTransaction`, `ExecuteStatement` (or waiting for a row, being refused, finding no
handle), `CommitTransaction` or `RollbackTransaction`, and `errno` is the code it returns.
`TransactionTask::Execute` and `DirectCommitTransaction` are `Start`, `Retry` (under
`_deadlockLock` for worker threads only, without it for direct callers), `Succeed` and
`GiveUp`; the empty transaction returns -1 and fails. Nothing in the code bounds how often a
transaction loses deadlocks: `_deadlockLock` is taken by retries only, so any number of
transactions on their first try may beat one that is retried. `SqlContention` adds the history
variable `outrun`, which records for each transaction the statements that took a row from it in a
deadlock it lost while retried. `LoseRequest` and `LoseReply` lose
the connection before or after the server acted; `_HandleMySQLErrno` then reopens it
(`Reconnect`, on which `Execute` sends *its statement* again, in a new session in
autocommit mode), leaves it without a handle (`ReconnectRefused`), or aborts the process
(`Abort`, which may also happen at any other time).

`MySQLServer` is the database server as the code uses it and is external: exclusive row
locks held to the end of the transaction, autocommit outside one, `START TRANSACTION`
committing an open one, deadlocks broken by rolling back one member of the cycle, the
sessions of a dead process rolled back. It has no lock wait timeout.

### 2.4 DatabaseWorkerPool

The queue is the contract `WorkQueue`, which `ProducerConsumerQueue` is shown to
implement; one `Call` executes an operation whole (its inside is `SqlTransaction`'s
subject). A client is a session with the records it owns. `Save` stands for `Execute`
and `CommitTransaction`; saves carry version numbers, and a load carries the version it
follows, which makes "loads see saves" a statement about versions. `Query` is `AsyncQuery`
or `DelayQueryHolder` with `AddCallback`; `ProcessReadyCallbacks` is split into moving the
list away, `NotReady`/`Invoke` for each callback, what the callback does (`Save`, `Query`,
`NextQuery` = SetNextQuery, `EndChain`), and `EndProcessing`, which puts the rest behind
what callbacks added. A promise may be set by a worker between any two of these steps.
`Leave` deletes a session with its callbacks and futures while its operations stay queued.
`Close` destroys connections one by one; `~DatabaseWorker` is `SetToken`, `CancelQueue`,
`Join`. A worker that pops an operation and then finds its token set drops it (`Exit`).

### 2.5 Sessions

`session` holds the `WorldSession` objects (`life` says whether one exists), `m_sessions`,
`m_QueuedPlayer`, `addSessQueue` and `_linkSocketQueue` what their names say in `World`;
the two `LockedQueue`s are sequences because each of their member functions holds the lock
throughout. `pc` is the world thread's place in `UpdateSessions`, one action per step of its
loops: `ProcessLinkInstanceSocket`/`LinksDone`, `RefuseSession` or `AddSession_`/`AddsDone`,
`PickSession`, then `WorldSession::Update` of that session as `HandlePacket`, `PacketsDone`,
`AccountReady` and `CharacterReady` (ProcessQueryCallbacks), `LogoutDue`, and at last
`KeepSession` or `RemoveSession`. Network threads act between any two of them: `Connect`,
`RealmCloses`, `InstanceCloses`, the client's packets, `ClientLink` and
`HandleConnectToFailed`, which in the code too runs in the network thread and changes the
session. `RemoveQueuedPlayer` is an operator on the queue and the size of the table, used by
`AddSession_` once and by `RemoveSession` twice, as in the code. `asyncQueue` holds the loads
and saves of characters in the order in which they were queued. `KickAll` and a last round of
`UpdateSessions` are the end of the server (Main.cpp 317-325).

A `ConnectTo` key is a number per session instead of 31 random bits; `expireTime` counts
updates, `ExpireTicks` of them standing for the configured time. The result of a load is
`ready` when the worker has executed it and the session still waits for it.

### 2.6 Mail

`database` is the record of the tables that mail touches; `Execute` is what each prepared
statement does to them, and a queued transaction is the sequence of its statements, in the
code's order. A handler changes memory (`m_money`, `m_items`, `m_mail`) and appends its
transaction in one action, since handlers of the world thread do not interleave;
`ExecuteTransaction` is the worker. Loading a mailbox is two actions because it is two queries
with the worker between them, and both bypass the queue. A login is a query in the queue. A
crash takes memory and the queue away, sets `_mailId` from the mails that are stored, and
returns old mail. Which mails are old is chosen freely, which includes mail whose delivery is
delayed. Items and coins are tokens, so "nothing is lost or doubled" can be said of each one;
`destroyed` records what a player or a return of old mail has deleted on purpose. Sums of
money are sets of coins.

## 3. Runs

| Run | Instance | Checks | Shows |
|---|---|---|---|
| `queue` | 3 consumers, 2 items, queue of at most 2 | TypeOK, NoLostWakeup, ShutdownWakesAll, ImplementsWorkQueue | one notification per Push is enough, Cancel reaches everybody, the queue implements `WorkQueue` with its liveness |
| `map_update` | 2 update threads or none, a dungeon with 2 instances, a continent | TypeOK, Barrier, ExclusiveUpdate, NoDanglingRequest, RequestInHand, OncePerTick, EveryMapServed, ShutdownEnds, ImplementsMapTick | no map is touched by two threads or after its deletion, each is updated once per tick, wait() and the shutdown end |
| `sql_transaction` | 2 workers and a direct caller, 4 transactions on 2 rows in opposite orders, one refused statement, one empty transaction, 2 retries, death at any step | TypeOK, AllOrNothing, DoneMeansDurable, EveryTransactionEnds, ImplementsAtomicTransactions | atomicity and truthful results |
| `sql_contention` | 2 workers, a transaction on 3 rows, 4 others that write them in the opposite order, the code's 5 retries | DroppedOnlyIfOutrun | a transaction that the server never refuses is dropped only when five different statements of transactions on their first try have beaten it; retries do not beat each other |
| `sql_losses` | 2 workers, 3 transactions, 1 lost connection, reconnection possible | IdleHoldsNothing, EveryTransactionEnds | losing a connection strands no row lock and no `_deadlockLock`, and nobody waits for ever |
| `sql_reconnect` | as before | RolledBackIfNotCommitted, violated | finding 1 |
| `pool` | 2 workers, 1 client, 2 saves, 2 queries, chains of 2 | TypeOK, LoadsSeeSaves, NoCallbackLost, CallbacksRun, CloseEnds | loads do not overtake saves, callbacks are neither lost nor starved, Close ends from every state |
| `pool_close` | 1 worker, 1 save, 1 query | SavedBeforeClose, violated | finding 2 |
| `sessions` | 3 accounts, one connecting twice, one privileged; limit 1; 2 attempts per login; sessions outlive their connection by 2 updates | TypeOK, NoDanglingSession, QueueOnlyWhenFull, LimitRespected, LoginsReadSaves, NobodyLeftBehind, FirstComeFirstServed, LostSessionsEnd | the login queue is fair, exact and never idle; nothing dangles; characters are loaded from their last save; lost sessions end |
| `login_abort` | as before | AbortedLoginsStayOut, violated | finding 3 |
| `mail` | 2 players, 1 item, 1 coin, price 0 or 1, 2 mails, 2 queued transactions of handlers, crashes | TypeOK, SavedOnce, OneHolder, QueueSavesMemory, PaidOnDelivery | no crash and no interleaving of queue and mailbox loses or doubles an item or a coin |
| `mail_expiry` | as before, with one daily return of old mail | ListedMailStays, violated | finding 4 |

### 3.1 Bounds and why they are enough

- *Queue*: the interesting cases are a sleeper notified, a second arriving and taking its
  item, and a third still asleep: three consumers and two items. The theorems drop the bound.
- *Maps*: two threads and two maps that can be updated at once, one of which schedules and
  deletes two others; more maps repeat the same steps. The number of ticks is not bounded.
- *Transactions*: a deadlock needs two rows and two connections; a third connection competes
  with the one that retries. `LoopBreaker` is 2 in the first run, so that the loop can be used
  up by one direct caller, and the code's 5 in `sql_contention`, where the number itself is at
  stake. There each of four rivals can take two rows from the fifth transaction, eight
  statements for five retries, so the retries do run out: the run reaches states in which a
  transaction without a refused statement has been dropped. Without `_deadlockLock` (the mutant)
  two workers beat each other's retries and fewer statements do. `MaxLosses`
  counts lost connections: 0 where a property holds only without them (see 5.3), 1 elsewhere.
- *Pool*: two workers make executions overlap, two saves and two queries let a load stand
  between saves and a callback add a query while another waits; a chain of two is the
  shortest with a `SetNextQuery`. One client is enough for properties that relate a client's
  loads to its own saves; other clients only lengthen the queue. The queue's capacity equals
  all operations that can be enqueued, so its bound is never met.

- *Sessions*: a replaced session needs two of one account; the limit is contested by one
  other, and the privileged one makes the sessions outside the queue exceed the limit, which is
  where counting goes wrong. `LastAttempt` is 2 instead of 5: the attempts between the first
  and the last are alike. `MAX_PROCESSED_PACKETS` is 0 (one packet per update instead of 101)
  so that packets are left over for the next update; `MaxKeys` bounds the offers to connect of
  each session (a second login needs a second one). Queue lengths are bounded by the sessions.
- *Mail*: an item with a price, its payment and its return are two mails each way over two
  players; two queued transactions are a cut between them. `_mailId` stops handlers that send at
  `MaxMails`; a crash lowers it again, so numbers are reused as in the code. `MaxDays` is 0 where
  no daily return is wanted: with one, `OneHolder` falls with `ListedMailStays` (finding 4). The
  daily return and a restart queue more statements than `MaxQueue`, which bounds handlers only.

Only `sql_contention` uses symmetry, of its four equal rivals, which its one invariant treats
alike. No run uses a state constraint. Deadlock checking is on everywhere; a system
that has ended stutters explicitly (`Terminated`, `Stopped`), so any other stop is an error.

### 3.2 Fairness and why the code justifies it

- *Queue*: weak fairness of each consumer inside `WaitAndPop`: nobody holds `_queueLock` for
  ever, so a thread that wants it gets it. None for producers, and none for spurious wakeups,
  so nothing depends on them.
- *MapUpdater*: weak fairness of each update thread (threads are scheduled, map updates
  return) and of the world thread inside a tick or the shutdown. Nothing obliges the world
  thread to begin a tick or to stop.
- *SqlTransaction*: weak fairness of each connection's own work: the server answers and
  `std::mutex` is granted in the end (a thread's request that waits for a row is not enabled,
  so no fairness is assumed of locks); and the server breaks deadlocks, without a say in whom.
  Losses and death are never obliged to happen.
- *Pool*: weak fairness of workers, of the closing thread once begun, and of each session's
  callback processing (sessions are updated in every world tick). None for new requests,
  for sessions leaving, or for Close.
- *Sessions*: weak fairness of the world thread, which updates sessions in every tick, and of
  the database's worker. None for clients, connections or network threads, and none for KickAll.
- *Mail*: none; its properties are safety properties.

## 4. Findings

1. **A statement re-sent after a reconnection leaves its transaction**
   (`server/database/Database/MySQLConnection.cpp:530`, run `sql_reconnect`). When a statement
   in the middle of a transaction finds the connection lost, `_HandleMySQLErrno` opens a new
   session in autocommit mode and `Execute` sends that statement again. The statements before
   it were rolled back by the server; it and those after it commit one by one, and the
   `ROLLBACK` after a later failure has nothing to roll back. `DatabaseWorkerPool.h:169` says
   a transaction "will automatically rollback if not commited. (Autocommit=0)".
2. **Closing a pool drops queued saves**
   (`server/database/Database/DatabaseWorker.cpp:34`, run `pool_close`). `~DatabaseWorker`
   cancels the shared queue, which deletes what is in it, and a worker that has just popped an
   operation drops it. Nothing between the logout of the players and `StopDB` waits for the
   queue to drain, while `Main.cpp:319` says "save and kick all players".

3. **A login that was aborted goes on** (`server/game/Handlers/CharacterHandler.cpp:955`, run
   `login_abort`). When the client reports its last `ConnectTo` as failed, `AbortLogin` clears
   `m_playerLoading` and tells the client that the login failed. If the second connection came up
   after all, the load of the character is already queued, `_charLoginCallback` stays, and
   `ProcessQueryCallbacks` puts the player in the world. The log says "aborting login"
   (`WorldSocket.cpp:955`).
4. **Old mail is returned after it was listed** (`server/game/Globals/ObjectMgr.cpp:6023`, run
   `mail_expiry`). `ReturnOrDeleteOldMails` leaves the mails of players who have listed them
   alone, but tests for that when it queues the return. A player who lists his mails between the
   test and the execution has in memory a mail whose row goes back to its sender; both can take
   what it carries. The comment at 6024 knows the case only for mails listed before the test.

All are about what the code does as written; how often they occur depends on how far the
queue is behind and on the server's availability.

## 5. Proofs

All proofs are checked by TLAPS for every value of the constants that meets the named
assumptions. The assumptions are declared with the constants (finiteness of the sets of
threads and maps, distinctness of the null values, bounds in Nat) and are evaluated by TLC
in the runs.

### 5.1 `ProducerConsumerQueueProofs`

`IInv == TypeOK /\ ShutdownWakesAll /\ NoLostWakeup`. NoLostWakeup ("while somebody sleeps
there are at least as many threads on their way as items") is inductive with the types:
Push adds an item and moves a sleeper, Take removes one of each, and a thread goes to sleep
only when the queue is empty. `ImplementsWorkQueueSafety` shows that each step is a step of
`WorkQueue` or a stutter.

### 5.2 `MapUpdaterProofs`

`IInv` strengthens the properties by what relates the threads: the counter equals the length
of the queue plus the requests in hand (`CountOK`), where threads are in the queue matches
where they are in the loop, and with token and shutdown (`ThreadsOK`); what is requested,
still to be scheduled or still to be visited are different maps, and begun only if being
updated (`FreshOK`); what is requested exists (`ExistOK`), and nothing that exists is
forgotten (`CoverOK`). `Barrier` follows from the counter being zero when wait() returns and
from nothing outside a tick scheduling updates; it is not inductive alone because updates
schedule updates. Theorems: TypeCorrect, BarrierHolds, UpdatesAreExclusive, NothingDangles,
NoNullRequest, UpdatedOnce, NothingForgotten and the safety half of the refinement to
`MapTick`, for any number of threads, maps and instances.

### 5.3 `SqlTransactionProofs`

`HoldInv == TypeOK /\ TaskOK /\ OpenOK /\ LockOK` is inductive whatever connections are lost and
found again: a connection has an open transaction only while it executes one on a link that is
up; a row has an owner only while its transaction is under way, and who waits for a row waits
for somebody else. `TypeCorrect` and `LocksAreReleased` follow without assumptions.

`IInv == HoldInv /\ SessionOK /\ DurableOK /\ AllOrNothing` adds that a session holds only the
effects of the statements already sent, in order, and that what is durable is nothing as long as
the transaction has not committed. The assumptions are stated in the theorems:
`CanReconnect = FALSE` for Atomicity and Rollback (finding 1 shows that they need it),
`MaxLosses = 0` for ReportsAreTrue and Implementation (the reply to COMMIT is not looked at, so a
loss there makes the report wrong).

`DropsAreOutrun` (`DroppedOnlyIfOutrun`) is about worker threads that lose no connection, and
assumes nothing of the transactions or of the contention between them. Such a transaction may be
dropped although the server refuses nothing: the code retries five times, however many others
fight for its rows. The theorem says what has to happen first. While a transaction is retried
nobody else is (`OneRetries`, because of `_deadlockLock`), so what beats it is on its first try.
Each deadlock it loses gives one of its rows to a statement that waited for it
(`SomeoneOvertakes`); that statement has its row and cannot wait for it again in the same try
(`OvertakerPasses`), nor in a retry of its own before the loser's retries end. So each lost
deadlock adds a statement to `outrun` (`OutrunGrows`), and `LoopOK` compares its size with the
retries made.

### 5.4 `DatabaseWorkerPoolProofs`

`OInv` adds to the types, while the pool is open: every save begun is done (executed, or in the
hands of a worker) or queued (`SavesKept`); every save that a queued load follows is done or
queued before that load (`QueuedInOrder`); every save that a load in hand follows is done
(`HandedInOrder`). Taking the head of the queue turns the second into the third, and the first is
what a new load starts from. From these `LoadsFollowSaves`: a load that is taken from the queue
finds each save of its client before it executed, or in the hands of another worker. With one
worker, the default of the configuration, there is no other worker.

`NoCallbackIsLost` adds `CallbackOK`, also while the pool is open. `ListsOK`: a query occurs once in
the three lists that `ProcessReadyCallbacks` moves callbacks between. `QueryOK`, per query: it has at
most one load on its way, in the queue or in the hands of a worker (`OnlyOne`); its future is
held if and only if its callback waits and is not the one that runs; an unset future has a load
on its way, a set one and a running callback have none. The last is what lets a callback begin
the next query of its chain. A query that was never begun occurs nowhere, and numbers
only grow, so a load that outlives its session cannot set a later future. Each list operation
has a lemma about which queries occur afterwards, and each kind of step one about the loads on
their way (`SameWay`, `PutWay`, `HandWay`, `HandsWay`, `CallWay`).

### 5.5 `SessionsProofs`, `SessionsLoginProofs`

`IInv` is the conjunction of the types; `TableOK` (the table maps an account to a live session of
it, and no two accounts to one); `NewOK` (what is in `addSessQueue` is alive, not in the table,
there once, and not yet initialised); `WaitersOK` (who waits is in the table, once, kept from
sending, and not initialised) and `PlaceOK` (where the world thread is, the session in its hand is
in the table). Three facts rest on it. `QueueOnlyWhenFull` is inductive with it: what
`RemoveQueuedPlayer` leaves in the queue still fills the limit when the table has one session
fewer (`RemovalKeepsFull`), which also says that the second call of `RemoveSession` lets nobody
in. `ServedInOrder` follows from the one let in being the first of what is left
(`FirstIsLetIn`). `LimitHolds` adds `AdmittedBound`: those without privilege that have been let in
are no more than the sessions outside the queue, and a new one is let in only below the limit.
Cardinalities need the accounts to be finite (`FiniteAssumption`); nothing else is assumed but the
types of the constants.

`LoginsAfterLogouts` adds `LoginInv`. `LocalOK` says how the fields of one session go together
(before the account's data has arrived the client has sent nothing; a player in the world
awaits no load), `AbsentOK` that only sessions of the table have been initialised. `LinksOK` and
`LoadsOK` follow the keys: connections and loads on their way have each a key of their own, which
was offered and, if it is the session's last, has been used; so a connection that arrives
cannot start a load that is queued already. `OrderOK` is the second half of the property; the first
follows from the types and the table. All steps but three are *tame* (`Tame`): they start no load,
leave the character screen closed and bring no player in, and the keys only grow. What a tame
step leaves alone is proved once (`TameFrame`), the three others one by one.

`NobodyStaysBehind` adds `StopOK`, over the last round of `UpdateSessions`: a session that is still
to be updated has been kicked, or came after `KickAll` and cannot have logged in; in its callbacks
it has been kicked or has neither player nor load; afterwards it has no player. A kicked session stays
so (`Forward`), and is removed because it has lost its connection and `forceExit` is set.

### 5.6 `MailDatabaseProofs`, `MailProofs`

The properties of `Mail` are about every database that the queue still leads through, so its
invariant is about `Stages`, the function from 0 .. Len(asyncQueue) that gives these databases.
`IInv` has three parts beside the types (TLC has checked it on the instance of the run `mail`):

- Each stage is `Sound`: its mails have numbers below `_mailId`; no coin and no item is in two
  places; what is attached is attached to a mail that says it has items; and what nobody has
  deleted is somewhere. `NothingLostOrDoubled` (`SavedOnce`) reads that off.
- Consecutive stages are a `PaidStep`, which is `PaidOnDelivery` of two databases; executing the
  head of the queue moves from stage 0 to stage 1 (`PriceIsPaid`). A `LoginOK` login in the queue
  finds what is there in the end: from its stage on nobody else changes the player's money, what
  he carries, or the mails he has (`Settled`; new ones may come).
- Memory agrees with the last stage (`PlayerOK`, which is stronger than `QueueSavesMemory`), for a
  mailbox that is being loaded as well: while it is not listed, its owner's mails are settled, so
  what the first query has read is still so when the second runs. `MemoryIsSaved` follows at
  once, and `InOneHand` (`OneHolder`) because what a player holds is in the last stage, where nothing
  has two homes.

A handler appends one transaction, so it adds a last stage and leaves the others alone
(`StagesAppend`, `QueueGrows`, `PlayerGrows`); what remains is to say what its statements do to
the last database, one lemma per handler (`SendEffect`, `TakeItemEffect`, `ReturnEffect`,
`BoxIsSaved`). The worker drops the first stage (`StagesTail`, `QueueShrinks`). A crash replaces
the queue by the return of old mail, whose statements are transactions of their own; `Aged`
describes any database between them.

Transactions and queues have any length. Their effect is a recursive function, so its values are
known through an induction which is carried out with sets and functions instead of predicates and
operators: `SetInduction` is derived from well-foundedness of the natural numbers (`WFMin`),
`IterationExists` gives the function, and `CommittedReaches` and `FlattenReaches` say that a database
is reached if a function with the right steps leads there.

Assumptions: those of the module. Each coin is with one player at first and each item with one
(`StartAssumption`), items and coins are finite, the bounds are numbers, the null values are
different from everything else. The theorems are about `Spec`. Nothing is proved of `DailySpec`, of
which `OneHolder` does not hold: finding 4 puts the items of a listed mail into two hands.

### 5.7 What is model-checked only

Liveness (EveryTransactionEnds, CallbacksRun, CloseEnds, ShutdownEnds, LostSessionsEnd and the
liveness halves of the refinements to `WorkQueue` and `MapTick`): liveness under fairness and ENABLED are out
of the prover's reach. Every invariant that a passing run checks is stated by a theorem. Some
theorems ask more than the run does, which the sections above name (`Atomicity` and its like). No module that is proved about uses RECURSIVE operators, which the
provers cannot look through; the library's induction theorems cannot be used, because they take
an operator as a parameter.

## 6. What is not modelled, and why

- The inside of a map's update, of spells, AI, movement and scripts: sequential game rules
  over large data, which the barrier protects; content.
- Memory: use after free and leaks have no state here. Hazards that are about memory are listed
  with a note (the future taken before the enqueue, the error read from a freed handle, a login
  holder dropped with its session).
- The C++ memory model: every shared variable in the modelled code is guarded by a lock or is
  an atomic flag; the lock-free `MPSCQueue` comes with the plan.
- In `Sessions`: bots, the tolerance for players who come back after a disconnect (off by
  default), changes of the player limit, the map threads' packet filter, packets that are put
  back, all opcodes but login, logout and failed connections. One of these touches the state that
  is modelled: `HandleLoadScreenOpcode` (CharacterHandler.cpp 959-967) clears `m_playerLoading`
  when the client reports that its loading screen is gone. A client reports it in the world, where
  nothing is left to clear; one that reported it while its character loads would end the
  protection against a second login early, and the properties of `Sessions` say nothing of it.
- In `Mail`: postage, text, caps, stacked items, mails that are not from players, deleted
  characters. Auctions, although their money goes through mail: two of their hazards are listed.
- Result sets, statement preparation, escaping, KeepAlive, synchronous queries.
- Instance ids, of which the unlocked bit set is a planned module.
- Generated protocol code, static stores, configuration, tools, vendored libraries, SQL data.

## 7. Plan

Done: the threads and queues under everything, the map tick, SQL transactions, the database
pool, sessions with the login queue, mail. Next, the most important first:

1. **Packets**: `LockedQueue` with the two filters over `MapTick`'s phases, packets put back and
   the limit per update. To prove: each packet is in one place.
2. **`AuctionHouse`** over `Mail`: bids, refunds, cancellation; one owner per item, gold conserved.
3. **`Trade`**: two players; nothing changes between the second acceptance and the exchange;
   the refinement to an atomic exchange.
4. **`Socket`** and `NetworkThread`: closing against pending writes, delayed close with nothing
   to write, sockets handed to threads. Liveness: a closing socket closes.
5. **`MPSCQueue`**, lock-free, against `WorkQueue`: per-producer order, nothing lost; the
   refinement with the point of linearisation at the store of `Next`.
6. **`InstanceIds`**: the allocator's unlocked read-modify-write of a word by several update
   threads; ids are unique only if frees do not overlap.
7. **`EventProcessor`**, **LFG proposals**, **battleground invitations**, **instance saves**.
8. Proofs: an abstract mail (tokens that move between holders) that `Mail` implements; what
   callers of `SqlTransaction` learn under losses of anything but a COMMIT.

## 8. Running

    tlc -config MCMapUpdater.cfg MCMapUpdater          # likewise for each .cfg
    tlc -config DatabaseWorkerPoolClose.cfg DatabaseWorkerPool
    tlapm MapUpdaterProofs.tla                         # likewise for each *Proofs.tla

`MCSqlContention.cfg` belongs to `MCSqlContention`, the other `MCSql*.cfg` to `MCSqlTransaction`, `MCSessionsAbort.cfg` to `MCSessions` and
`MCMailExpiry.cfg` to `MCMail`; the queue's configuration is `ProducerConsumerQueueSpec.cfg` of the
module of that name. The longest runs, `sessions` and `mail`, have about 740 000 and 720 000
states and take two to three minutes on two cores.

----------------------------- MODULE MapUpdater -----------------------------
(***************************************************************************)
(* The world thread and the map update threads: game/Maps/MapUpdater.cpp,  *)
(* with MapManager::Update and UnloadAll that drive it, and with           *)
(* MapInstanced::Update, which runs on an update thread and schedules the  *)
(* map's instances from there.  The requests travel through the queue of   *)
(* ProducerConsumerQueue.                                                  *)
(*                                                                         *)
(* MapUpdater::_lock guards pending_requests.  schedule_update and         *)
(* update_finished hold it for their whole body, so each is one step.      *)
(***************************************************************************)
EXTENDS Naturals, Sequences, FiniteSets

CONSTANTS
    Workers,    \* update threads, when the configuration asks for any
    BaseMaps,   \* keys of MapManager::i_maps
    Instances,  \* keys of the m_InstancedMaps of the base maps
    Parent,     \* the base map an instance belongs to
    NoMap       \* the null request

Maps == BaseMaps \cup Instances

ASSUME WorkersAssumption == IsFiniteSet(Workers)
ASSUME MapsAssumption ==
    /\ IsFiniteSet(BaseMaps)
    /\ IsFiniteSet(Instances)
    /\ BaseMaps \cap Instances = {}
    /\ NoMap \notin BaseMaps \cup Instances
    /\ Parent \in [Instances -> BaseMaps]

VARIABLES
    i_maps,            \* base maps that exist
    instanced,         \* instances that exist
    activated,         \* _workerThreads is not empty
    pending_requests,
    cancelationToken,  \* _cancelationToken
    world,             \* where the world thread is
    todo,              \* base maps its current loop has still to visit
    worker,            \* where each update thread is
    visit,             \* instances the update thread's MapInstanced::Update has still to visit
    served,            \* history: maps whose update began, or was waived, this tick
    queue, shutdown, where, value   \* the request queue

Q == INSTANCE ProducerConsumerQueue WITH
    Consumers <- Workers, Items <- Maps, NoItem <- NoMap

queueVars == <<queue, shutdown, where, value>>
mapVars == <<i_maps, instanced, served>>
workerVars == <<worker, visit>>
worldVars == <<world, todo>>
vars == <<mapVars, workerVars, worldVars, queueVars, activated, pending_requests, cancelationToken>>

WorldPlaces ==
    {"sessions",                \* World::Update outside MapManager::Update
     "schedule",                \* MapManager::Update's first loop
     "wait", "asleep",          \* MapUpdater::wait, awake and in _condition.wait
     "delayed",                 \* MapManager::Update's second loop
     "unloaded",                \* MapManager::UnloadAll, the maps are gone
     "drain", "drainAsleep",    \* the wait of MapUpdater::deactivate
     "cancel", "join", "done"}

\* "top" of the loop, in WaitAndPop ("pop"), back from it ("check"), in
\* request->call() ("running"), or returned ("exited").
WorkerPlaces == {"top", "pop", "check", "running", "exited"}

TypeOK ==
    /\ i_maps \subseteq BaseMaps
    /\ instanced \subseteq Instances
    /\ activated \in BOOLEAN
    /\ pending_requests \in Nat
    /\ cancelationToken \in BOOLEAN
    /\ world \in WorldPlaces
    /\ todo \subseteq BaseMaps
    /\ worker \in [Workers -> WorkerPlaces]
    /\ visit \in [Workers -> SUBSET Instances]
    /\ served \subseteq Maps
    /\ Q!TypeOK

\* MapUpdate.Threads decides whether threads are started.
Init ==
    /\ i_maps = {}
    /\ instanced = {}
    /\ activated \in BOOLEAN
    /\ pending_requests = 0
    /\ cancelationToken = FALSE
    /\ world = "sessions"
    /\ todo = {}
    /\ worker = [w \in Workers |-> IF activated THEN "top" ELSE "exited"]
    /\ visit = [w \in Workers |-> {}]
    /\ served = {}
    /\ Q!Init

InstancesOf(b) == {i \in instanced : Parent[i] = b}

-----------------------------------------------------------------------------
(* MapUpdater: called by the world thread and by the update threads.       *)

\* Mutant of schedule_update: the request is not counted.
ScheduleUncounted(map) == Q!Push(map) /\ UNCHANGED pending_requests

schedule_update(map) ==
    /\ pending_requests' = pending_requests + 1
    /\ Q!Push(map)

\* Where the world thread sleeps when it waits in `place`.
Asleep == [wait |-> "asleep", drain |-> "drainAsleep"]

\* notify_all on the condition the world thread waits for.
WakeWorld ==
    world' = CASE world = "asleep" -> "wait"
               [] world = "drainAsleep" -> "drain"
               [] OTHER -> world

\* Mutant of update_finished: nobody is notified.
FinishSilently ==
    /\ pending_requests' = pending_requests - 1
    /\ UNCHANGED world

update_finished ==
    /\ pending_requests' = pending_requests - 1
    /\ WakeWorld

\* wait(), from MapManager::Update or from deactivate: sleep while requests are
\* pending ...
WaitSleep ==
    /\ world \in DOMAIN Asleep
    /\ pending_requests > 0
    /\ world' = Asleep[world]
    /\ UNCHANGED <<mapVars, workerVars, queueVars, todo, activated, pending_requests, cancelationToken>>

WaitSpurious ==
    /\ world \in {"asleep", "drainAsleep"}
    /\ WakeWorld
    /\ UNCHANGED <<mapVars, workerVars, queueVars, todo, activated, pending_requests, cancelationToken>>

-----------------------------------------------------------------------------
(* The world thread.                                                       *)

\* Between two map updates sessions, battlegrounds and events create maps; a base
\* map brings the maps that share its terrain with it.
CreateBaseMap ==
    /\ world = "sessions"
    /\ \E new \in SUBSET (BaseMaps \ i_maps) : i_maps' = i_maps \cup new
    /\ UNCHANGED <<instanced, served, workerVars, worldVars, queueVars, activated, pending_requests, cancelationToken>>

CreateInstance(i) ==
    /\ world = "sessions"
    /\ Parent[i] \in i_maps
    /\ i \notin instanced
    /\ instanced' = instanced \cup {i}
    /\ UNCHANGED <<i_maps, served, workerVars, worldVars, queueVars, activated, pending_requests, cancelationToken>>

\* MapManager::Update, once i_timer has passed.
BeginTick ==
    /\ world = "sessions"
    /\ world' = "schedule"
    /\ todo' = i_maps
    /\ served' = {}
    /\ UNCHANGED <<i_maps, instanced, workerVars, queueVars, activated, pending_requests, cancelationToken>>

\* Mutant of ScheduleMap: the iterator stays on the map.
ScheduleMapAgain(b) ==
    /\ world = "schedule"
    /\ activated
    /\ b \in todo
    /\ \/ UNCHANGED todo
       \/ todo' = todo \ {b}
    /\ pending_requests <= Cardinality(Maps)
    /\ schedule_update(b)
    /\ UNCHANGED <<world, mapVars, workerVars, activated, cancelationToken>>

ScheduleMap(b) ==
    /\ world = "schedule"
    /\ activated
    /\ b \in todo
    /\ todo' = todo \ {b}
    /\ schedule_update(b)
    /\ UNCHANGED <<world, mapVars, workerVars, activated, cancelationToken>>

\* An update creates base maps, by asking MapManager for a zone or an area.  The
\* loop that schedules comes past some of them, `seen`; the others have no update in
\* this tick.
CreatedInUpdate(new, seen) ==
    /\ new \subseteq BaseMaps \ i_maps
    /\ seen \subseteq (IF world = "schedule" THEN new ELSE {})
    /\ i_maps' = i_maps \cup new

\* Without update threads the loop updates the map itself; MapInstanced::Update
\* then destroys some instances, spares some it cannot empty, updates the rest.
UpdateInline(b) ==
    /\ world = "schedule"
    /\ ~activated
    /\ b \in todo
    /\ \E destroyed \in SUBSET InstancesOf(b), new, seen \in SUBSET BaseMaps :
          /\ CreatedInUpdate(new, seen)
          /\ todo' = (todo \ {b}) \cup seen
          /\ instanced' = instanced \ destroyed
          /\ served' = served \cup {b} \cup (InstancesOf(b) \ destroyed) \cup (new \ seen)
    /\ UNCHANGED <<world, workerVars, queueVars, activated, pending_requests, cancelationToken>>

\* Mutant of EndSchedule: the loop stops one map early.
EndScheduleEarly ==
    /\ world = "schedule"
    /\ Cardinality(todo) <= 1
    /\ IF activated
         THEN world' = "wait" /\ UNCHANGED todo
         ELSE world' = "delayed" /\ todo' = i_maps
    /\ UNCHANGED <<mapVars, workerVars, queueVars, activated, pending_requests, cancelationToken>>

EndSchedule ==
    /\ world = "schedule"
    /\ todo = {}
    /\ IF activated
         THEN world' = "wait" /\ UNCHANGED todo
         ELSE world' = "delayed" /\ todo' = i_maps
    /\ UNCHANGED <<mapVars, workerVars, queueVars, activated, pending_requests, cancelationToken>>

\* Mutant of WaitReturn: waits for the queue instead of the counter.
WaitReturnWhenQueueEmpty ==
    /\ world = "wait"
    /\ queue = <<>>
    /\ world' = "delayed"
    /\ todo' = i_maps
    /\ UNCHANGED <<mapVars, workerVars, queueVars, activated, pending_requests, cancelationToken>>

\* ... and return when none is.
WaitReturn ==
    /\ world = "wait"
    /\ pending_requests = 0
    /\ world' = "delayed"
    /\ todo' = i_maps
    /\ UNCHANGED <<mapVars, workerVars, queueVars, activated, pending_requests, cancelationToken>>

\* Map::DelayedUpdate.  A transport may change continents in it and create the
\* base map it goes to; the loop may or may not come past that map.
DelayedUpdate(b) ==
    /\ world = "delayed"
    /\ b \in todo
    /\ \E new \in SUBSET (BaseMaps \ i_maps) :
          /\ i_maps' = i_maps \cup new
          /\ \E seen \in SUBSET new : todo' = (todo \ {b}) \cup seen
    /\ UNCHANGED <<world, instanced, served, workerVars, queueVars, activated, pending_requests, cancelationToken>>

EndTick ==
    /\ world = "delayed"
    /\ todo = {}
    /\ world' = "sessions"
    /\ UNCHANGED <<todo, mapVars, workerVars, queueVars, activated, pending_requests, cancelationToken>>

\* World::IsStopped: MapManager::UnloadAll unloads and deletes every map.
UnloadAll ==
    /\ world = "sessions"
    /\ i_maps' = {}
    /\ instanced' = {}
    /\ world' = IF activated THEN "unloaded" ELSE "done"
    /\ UNCHANGED <<served, todo, workerVars, queueVars, activated, pending_requests, cancelationToken>>

\* Mutant of Deactivate: the queue is cancelled before the token is set.
CancelBeforeToken ==
    /\ world = "unloaded"
    /\ Q!Cancel
    /\ world' = "drain"
    /\ UNCHANGED <<todo, mapVars, workerVars, activated, pending_requests, cancelationToken>>

\* MapUpdater::deactivate, step by step.
Deactivate ==
    /\ world = "unloaded"
    /\ cancelationToken' = TRUE
    /\ world' = "drain"
    /\ UNCHANGED <<todo, mapVars, workerVars, queueVars, activated, pending_requests>>

DrainReturn ==
    /\ world = "drain"
    /\ pending_requests = 0
    /\ world' = "cancel"
    /\ UNCHANGED <<todo, mapVars, workerVars, queueVars, activated, pending_requests, cancelationToken>>

\* Mutant of CancelQueue: the threads asleep on the queue are not woken.
CancelSilently ==
    /\ world = "cancel"
    /\ queue' = <<>>
    /\ shutdown' = TRUE
    /\ world' = "join"
    /\ UNCHANGED <<where, value, todo, mapVars, workerVars, activated, pending_requests, cancelationToken>>

CancelQueue ==
    /\ world = "cancel"
    /\ Q!Cancel
    /\ world' = "join"
    /\ UNCHANGED <<todo, mapVars, workerVars, activated, pending_requests, cancelationToken>>

Join ==
    /\ world = "join"
    /\ \A w \in Workers : worker[w] = "exited"
    /\ world' = "done"
    /\ UNCHANGED <<todo, mapVars, workerVars, queueVars, activated, pending_requests, cancelationToken>>

-----------------------------------------------------------------------------
(* The update threads.                                                     *)

CallWaitAndPop(w) ==
    /\ worker[w] = "top"
    /\ worker' = [worker EXCEPT ![w] = "pop"]
    /\ Q!Call(w)
    /\ UNCHANGED <<visit, worldVars, mapVars, activated, pending_requests, cancelationToken>>

\* One turn inside WaitAndPop: to sleep, or back with a request or with none.
InWaitAndPop(w) ==
    /\ worker[w] = "pop"
    /\ \/ Q!Wait(w) /\ UNCHANGED worker
       \/ (Q!Take(w) \/ Q!GiveUp(w)) /\ worker' = [worker EXCEPT ![w] = "check"]
    /\ UNCHANGED <<visit, worldVars, mapVars, activated, pending_requests, cancelationToken>>

QueueSpurious(w) ==
    /\ Q!SpuriousWakeup(w)
    /\ UNCHANGED <<workerVars, worldVars, mapVars, activated, pending_requests, cancelationToken>>

\* `if (_cancelationToken) return;`: a request in hand is dropped, and its
\* update_finished never called.
Exit(w) ==
    /\ worker[w] = "check"
    /\ cancelationToken
    /\ worker' = [worker EXCEPT ![w] = "exited"]
    /\ UNCHANGED <<visit, worldVars, mapVars, queueVars, activated, pending_requests, cancelationToken>>

\* request->call() begins: Map::Update, then for a base map its instances.
BeginUpdate(w) ==
    /\ worker[w] = "check"
    /\ ~cancelationToken
    /\ value[w] # NoMap
    /\ worker' = [worker EXCEPT ![w] = "running"]
    /\ visit' = [visit EXCEPT ![w] = InstancesOf(value[w])]
    /\ served' = served \cup {value[w]}
    /\ UNCHANGED <<i_maps, instanced, worldVars, queueVars, activated, pending_requests, cancelationToken>>

\* Mutant of VisitInstance: the iterator is not advanced.
VisitInstanceAgain(w, i) ==
    /\ worker[w] = "running"
    /\ i \in visit[w]
    /\ pending_requests <= Cardinality(Maps)
    /\ schedule_update(i)
    /\ UNCHANGED <<worker, visit, worldVars, mapVars, activated, cancelationToken>>

\* The loop of MapInstanced::Update comes to an instance that cannot unload.
VisitInstance(w, i) ==
    /\ worker[w] = "running"
    /\ i \in visit[w]
    /\ visit' = [visit EXCEPT ![w] = @ \ {i}]
    /\ schedule_update(i)
    /\ UNCHANGED <<worker, worldVars, mapVars, activated, cancelationToken>>

\* Mutant of UnloadInstance: deletes instances behind the iterator too.
UnloadAnyInstance(w, i) ==
    /\ worker[w] = "running"
    /\ i \in InstancesOf(value[w])
    /\ instanced' = instanced \ {i}
    /\ UNCHANGED <<visit, served, worker, i_maps, worldVars, queueVars, activated, pending_requests, cancelationToken>>

\* It can unload.  DestroyInstance deletes it, or gives up while players remain,
\* and then it is not updated in this tick.
UnloadInstance(w, i) ==
    /\ worker[w] = "running"
    /\ i \in visit[w]
    /\ visit' = [visit EXCEPT ![w] = @ \ {i}]
    /\ \/ instanced' = instanced \ {i} /\ UNCHANGED served
       \/ served' = served \cup {i} /\ UNCHANGED instanced
    /\ UNCHANGED <<worker, i_maps, worldVars, queueVars, activated, pending_requests, cancelationToken>>

\* The update of a map creates base maps, each under _mapsLock.  A map is its key
\* here: FindBaseMap looks outside the lock, so two updates that miss one map create
\* it twice and the second object replaces the first under the same key.
CreateInUpdate(w) ==
    /\ worker[w] = "running"
    /\ \E new, seen \in SUBSET BaseMaps :
          /\ CreatedInUpdate(new, seen)
          /\ todo' = todo \cup seen
          /\ served' = served \cup (new \ seen)
    /\ UNCHANGED <<world, instanced, workerVars, queueVars, activated, pending_requests, cancelationToken>>

FinishUpdate(w) ==
    /\ worker[w] = "running"
    /\ visit[w] = {}
    /\ worker' = [worker EXCEPT ![w] = "top"]
    /\ update_finished
    /\ UNCHANGED <<visit, todo, mapVars, queueVars, activated, cancelationToken>>

-----------------------------------------------------------------------------
WorldThread ==
    \/ BeginTick \/ EndSchedule \/ WaitReturn \/ EndTick \/ UnloadAll \/ CreateBaseMap
    \/ \E b \in BaseMaps : ScheduleMap(b) \/ UpdateInline(b) \/ DelayedUpdate(b)
    \/ \E i \in Instances : CreateInstance(i)
    \/ WaitSleep
    \/ Deactivate \/ DrainReturn \/ CancelQueue \/ Join

WorkerThread(w) ==
    \/ CallWaitAndPop(w) \/ InWaitAndPop(w) \/ Exit(w) \/ BeginUpdate(w)
    \/ CreateInUpdate(w) \/ FinishUpdate(w)
    \/ \E i \in Instances : VisitInstance(w, i) \/ UnloadInstance(w, i)

Spurious ==
    \/ WaitSpurious
    \/ \E w \in Workers : QueueSpurious(w)

Terminated == world = "done" /\ UNCHANGED vars

Next == WorldThread \/ (\E w \in Workers : WorkerThread(w)) \/ Spurious \/ Terminated

\* Every thread that can take a step takes one in the end.  The world thread
\* need not stop, so its fairness leaves out the steps of the sessions.
TickSteps ==
    \/ EndSchedule \/ WaitReturn \/ EndTick \/ WaitSleep
    \/ \E b \in BaseMaps : ScheduleMap(b) \/ UpdateInline(b) \/ DelayedUpdate(b)
    \/ Deactivate \/ DrainReturn \/ CancelQueue \/ Join

Fairness == WF_vars(TickSteps) /\ \A w \in Workers : WF_vars(WorkerThread(w))

Spec == Init /\ [][Next]_vars /\ Fairness

-----------------------------------------------------------------------------
\* Requests a thread has taken and not finished, and everything scheduled.
Held == {w \in Workers : worker[w] \in {"check", "running"} /\ value[w] # NoMap}
Updating == {value[w] : w \in {v \in Workers : worker[v] = "running"}}
Requested == {queue[k] : k \in DOMAIN queue} \cup {value[w] : w \in Held}

InMapUpdate == world \in {"schedule", "wait", "asleep"}

\* The barrier: outside the span from the first schedule_update of a tick to the
\* return of wait() no map is being updated and no update is waiting to be,
\* the updates that updates scheduled included.  Sessions, battlegrounds, delayed
\* updates and the deletion of maps rely on it instead of on locks.
Barrier == ~InMapUpdate => queue = <<>> /\ Held = {}

\* A map is updated by one thread at a time, and is not requested again while it
\* is queued or being updated.
ExclusiveUpdate ==
    /\ \A v, w \in Held : v # w => value[v] # value[w]
    /\ \A j, k \in DOMAIN queue : j # k => queue[j] # queue[k]
    /\ \A w \in Held, k \in DOMAIN queue : value[w] # queue[k]

\* A request refers to a map that exists: neither DestroyInstance nor UnloadAll
\* deletes a map that is queued or being updated, and the instances an update has
\* still to visit exist too.
NoDanglingRequest ==
    /\ Requested \subseteq i_maps \cup instanced
    /\ \A w \in Workers : worker[w] = "running" => visit[w] \subseteq instanced

\* A thread that is not cancelled comes back from WaitAndPop with a request: it
\* would dereference a null one.
RequestInHand ==
    \A w \in Workers : worker[w] = "check" /\ ~cancelationToken => value[w] # NoMap

\* Each map is updated at most once in a tick.
OncePerTick ==
    [][\A w \in Workers :
          worker[w] = "check" /\ worker'[w] = "running" => value[w] \notin served]_vars

\* wait() returns only after every base map but those created behind the loop, and
\* every instance that was neither destroyed nor spared, has been updated in this tick.
EveryMapServed ==
    [][world = "wait" /\ world' = "delayed" => i_maps \cup instanced \subseteq served]_vars

\* Shutdown ends: deactivate's wait() returns and every thread can be joined.
ShutdownEnds == world = "unloaded" ~> world = "done"

\* The state of MapTick: whose time it is, and what is scheduled but not begun.
Phase ==
    CASE InMapUpdate -> "maps"
      [] world \in {"sessions", "delayed"} -> "world"
      [] OTHER -> "closed"

Due == (IF world = "schedule" THEN todo ELSE {}) \cup (Requested \ Updating)

Tick == INSTANCE MapTick WITH
    phase <- Phase, maps <- i_maps \cup instanced, due <- Due, updating <- Updating

\* The update threads, the request queue, the counter and the condition together
\* keep the contract of MapTick; in particular every map phase ends, so wait() is
\* always woken and no request stays in the queue while all threads sleep.
ImplementsMapTick == Tick!Spec

=============================================================================

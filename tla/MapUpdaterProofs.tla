--------------------------- MODULE MapUpdaterProofs ---------------------------
(***************************************************************************)
(* Proofs about MapUpdater, for any finite set of update threads, any      *)
(* finite sets of base maps and instances, and any assignment of instances *)
(* to base maps.                                                           *)
(***************************************************************************)
EXTENDS MapUpdater, FiniteSetTheorems, TLAPS

\* An update thread is in the queue exactly while it calls WaitAndPop, with a null
\* request; null requests come back only once the token is set; the token is set
\* only after the last tick.
ThreadsOK ==
    /\ \A w \in Workers : worker[w] = "pop" <=> where[w] # "out"
    /\ \A w \in Workers : worker[w] = "pop" => value[w] = NoMap
    /\ \A w \in Workers : worker[w] = "running" => value[w] # NoMap
    /\ \A w \in Workers : worker[w] = "check" /\ value[w] = NoMap => cancelationToken
    /\ shutdown => cancelationToken
    /\ cancelationToken => world \in {"drain", "drainAsleep", "cancel", "join", "done"}
    /\ world \in {"drain", "drainAsleep", "cancel", "join"} => cancelationToken
    /\ world \in {"wait", "asleep"} => activated /\ todo = {}

\* pending_requests counts the requests queued or in hand, and is zero whenever the
\* world thread is not inside a tick's map update.
CountOK ==
    /\ pending_requests = Len(queue) + Cardinality(Held)
    /\ ~InMapUpdate => pending_requests = 0
    /\ ~activated => pending_requests = 0

Queued == {queue[k] : k \in DOMAIN queue}
InHand == {value[w] : w \in Held}
Touched == Queued \cup InHand \cup served

\* What has been requested, is still to be scheduled, or is still to be visited are
\* different maps, none of them begun except those being updated.
FreshOK ==
    /\ \A w \in Held : worker[w] = "running" <=> value[w] \in served
    /\ Queued \cap served = {}
    /\ world = "schedule" => todo \subseteq i_maps /\ todo \cap Touched = {}
    /\ \A w \in Workers : worker[w] = "running" =>
          \A i \in visit[w] : i \in instanced \ Touched /\ Parent[i] = value[w]

\* In a tick an instance is touched only after its base map's update began, nothing
\* that exists is forgotten, and a base map that was touched stays.
CoverOK ==
    /\ \A i \in instanced : Parent[i] \in i_maps
    /\ InMapUpdate =>
          /\ \A i \in Instances : i \in Touched => Parent[i] \in served
          /\ i_maps \subseteq todo \cup Touched
          /\ Touched \cap BaseMaps \subseteq i_maps
          /\ \A i \in instanced :
                \/ i \in Touched
                \/ Parent[i] \notin served
                \/ \E w \in Workers : worker[w] = "running" /\ i \in visit[w]

\* What is requested exists.
ExistOK == Queued \cup InHand \subseteq i_maps \cup instanced

IInv ==
    /\ TypeOK
    /\ ThreadsOK
    /\ CountOK
    /\ ExclusiveUpdate
    /\ FreshOK
    /\ CoverOK
    /\ ExistOK

-----------------------------------------------------------------------------
(* What the operations of the queue do to the sets the invariant speaks of. *)

\* A push adds its map to the queue and moves nobody in or out of WaitAndPop.
LEMMA PushEffect ==
    ASSUME NEW m \in Maps, TypeOK, Q!Push(m)
    PROVE  /\ queue' = Append(queue, m)
           /\ queue' \in Seq(Maps)
           /\ Len(queue') = Len(queue) + 1
           /\ Queued' = Queued \cup {m}
           /\ UNCHANGED <<shutdown, value>>
           /\ where' \in [Workers -> Q!Places]
           /\ \A w \in Workers : where[w] = "out" <=> where'[w] = "out"
<1>1. queue' = Append(queue, m) /\ queue \in Seq(Maps) /\ UNCHANGED <<shutdown, value>>
  BY DEF Q!Push, TypeOK, Q!TypeOK
<1>2. Queued' = Queued \cup {m}
  BY <1>1 DEF Queued
<1>3. where' \in [Workers -> Q!Places] /\ \A w \in Workers : where[w] = "out" <=> where'[w] = "out"
  BY DEF Q!Push, Q!NotifyOne, Q!Wake, Q!At, Q!Places, TypeOK, Q!TypeOK
<1> QED BY <1>1, <1>2, <1>3

\* A take removes the oldest map from the queue and puts it in one thread's hand.
LEMMA TakeEffect ==
    ASSUME NEW w \in Workers, TypeOK, ExclusiveUpdate, Q!Take(w)
    PROVE  /\ queue' \in Seq(Maps)
           /\ Len(queue) \in Nat
           /\ Len(queue') = Len(queue) - 1
           /\ Head(queue) \in Queued \cap Maps
           /\ Queued' = Queued \ {Head(queue)}
           /\ value' = [value EXCEPT ![w] = Head(queue)]
           /\ where' = [where EXCEPT ![w] = "out"]
           /\ UNCHANGED shutdown
<1>1. queue' = Tail(queue) /\ queue \in Seq(Maps) /\ queue # <<>>
  BY DEF Q!Take, TypeOK, Q!TypeOK
<1>2. Head(queue) = queue[1] /\ 1 \in DOMAIN queue
  BY <1>1
<1>3. DOMAIN queue' = 1 .. (Len(queue) - 1) /\ \A k \in DOMAIN queue' : queue'[k] = queue[k + 1]
  BY <1>1
<1>4. \A x : x \in Queued' <=> x \in Queued \ {Head(queue)}
  <2>1. ASSUME NEW x \in Queued' PROVE x \in Queued \ {Head(queue)}
    <3>1. PICK k \in DOMAIN queue' : x = queue'[k]
      BY <2>1 DEF Queued
    <3>2. k + 1 \in DOMAIN queue /\ k + 1 # 1 /\ x = queue[k + 1]
      BY <1>1, <1>3, <3>1
    <3> QED BY <1>2, <3>2 DEF Queued, ExclusiveUpdate
  <2>2. ASSUME NEW x \in Queued \ {Head(queue)} PROVE x \in Queued'
    <3>1. PICK k \in DOMAIN queue : x = queue[k]
      BY <2>2 DEF Queued
    <3>2. k - 1 \in DOMAIN queue' /\ (k - 1) + 1 = k
      BY <1>1, <1>2, <1>3, <2>2, <3>1
    <3> QED BY <1>3, <3>1, <3>2 DEF Queued
  <2> QED BY <2>1, <2>2
<1>5. Head(queue) \in Queued \cap Maps
  BY <1>1, <1>2 DEF Queued
<1>6. queue' \in Seq(Maps) /\ Len(queue) \in Nat /\ Len(queue') = Len(queue) - 1
  BY <1>1
<1> QED BY <1>4, <1>5, <1>6 DEF Q!Take

\* The threads with a request in hand, and their number.
LEMMA HeldFinite ==
    /\ IsFiniteSet(Held)
    /\ Cardinality(Held) \in Nat
    /\ \A w \in Held : Cardinality(Held) > 0
<1>1. Held \subseteq Workers
  BY DEF Held
<1>2. IsFiniteSet(Held)
  BY <1>1, WorkersAssumption, FS_Subset
<1> QED BY <1>2, FS_CardinalityType, FS_EmptySet

-----------------------------------------------------------------------------
\* Every step keeps the types.
LEMMA TypeStep == IInv /\ [Next]_vars => TypeOK'
<1> SUFFICES ASSUME IInv, [Next]_vars PROVE TypeOK'
  OBVIOUS
<1> USE DEF mapVars, workerVars, worldVars, queueVars, WorldPlaces, WorkerPlaces
<1> TypeOK
  BY DEF IInv
<1>1. ASSUME BeginTick PROVE TypeOK'
  BY <1>1 DEF BeginTick, TypeOK, Q!TypeOK
<1>2. ASSUME EndSchedule PROVE TypeOK'
  BY <1>2 DEF EndSchedule, TypeOK, Q!TypeOK
<1>3. ASSUME WaitReturn PROVE TypeOK'
  BY <1>3 DEF WaitReturn, TypeOK, Q!TypeOK
<1>4. ASSUME EndTick PROVE TypeOK'
  BY <1>4 DEF EndTick, TypeOK, Q!TypeOK
<1>5. ASSUME UnloadAll PROVE TypeOK'
  BY <1>5 DEF UnloadAll, TypeOK, Q!TypeOK
<1>6. ASSUME CreateBaseMap PROVE TypeOK'
  BY <1>6 DEF CreateBaseMap, TypeOK, Q!TypeOK
<1>7. ASSUME NEW b \in BaseMaps, UpdateInline(b) PROVE TypeOK'
  BY <1>7 DEF UpdateInline, CreatedInUpdate, TypeOK, Q!TypeOK, InstancesOf, Maps
<1>8. ASSUME NEW b \in BaseMaps, DelayedUpdate(b) PROVE TypeOK'
  BY <1>8 DEF DelayedUpdate, TypeOK, Q!TypeOK
<1>9. ASSUME NEW i \in Instances, CreateInstance(i) PROVE TypeOK'
  BY <1>9 DEF CreateInstance, TypeOK, Q!TypeOK
<1>10. ASSUME WaitSleep PROVE TypeOK'
  BY <1>10 DEF WaitSleep, Asleep, TypeOK, Q!TypeOK
<1>11. ASSUME WaitSpurious PROVE TypeOK'
  BY <1>11 DEF WaitSpurious, WakeWorld, TypeOK, Q!TypeOK
<1>12. ASSUME Deactivate \/ DrainReturn \/ Join PROVE TypeOK'
  BY <1>12 DEF Deactivate, DrainReturn, Join, TypeOK, Q!TypeOK
<1>13. ASSUME NEW b \in BaseMaps, ScheduleMap(b) PROVE TypeOK'
  <2>1. b \in Maps /\ Q!Push(b) /\ pending_requests' = pending_requests + 1
    BY <1>13 DEF ScheduleMap, schedule_update, Maps
  <2>2. Q!TypeOK'
    BY <2>1, PushEffect DEF TypeOK, Q!TypeOK
  <2> QED BY <1>13, <2>1, <2>2 DEF ScheduleMap, TypeOK
<1>14. ASSUME CancelQueue PROVE TypeOK'
  <2>1. Q!TypeOK'
    BY <1>14 DEF CancelQueue, Q!Cancel, Q!Wake, Q!At, Q!Places, TypeOK, Q!TypeOK
  <2> QED BY <1>14, <2>1 DEF CancelQueue, TypeOK
<1>15. ASSUME NEW w \in Workers, CallWaitAndPop(w) PROVE TypeOK'
  BY <1>15 DEF CallWaitAndPop, Q!Call, Q!Places, TypeOK, Q!TypeOK
<1>16. ASSUME NEW w \in Workers, InWaitAndPop(w) PROVE TypeOK'
  <2>1. CASE Q!Take(w)
    <3>1. Q!TypeOK'
      BY <2>1, TakeEffect DEF IInv, TypeOK, Q!TypeOK, Q!Places
    <3> QED BY <1>16, <2>1, <3>1 DEF InWaitAndPop, TypeOK
  <2>2. CASE Q!Wait(w) \/ Q!GiveUp(w)
    BY <1>16, <2>2 DEF InWaitAndPop, Q!Wait, Q!GiveUp, Q!Places, TypeOK, Q!TypeOK
  <2> QED BY <1>16, <2>1, <2>2 DEF InWaitAndPop
<1>17. ASSUME NEW w \in Workers, QueueSpurious(w) PROVE TypeOK'
  BY <1>17 DEF QueueSpurious, Q!SpuriousWakeup, Q!Wake, Q!Places, TypeOK, Q!TypeOK
<1>18. ASSUME NEW w \in Workers, Exit(w) PROVE TypeOK'
  BY <1>18 DEF Exit, TypeOK, Q!TypeOK
<1>19. ASSUME NEW w \in Workers, BeginUpdate(w) PROVE TypeOK'
  BY <1>19 DEF BeginUpdate, InstancesOf, TypeOK, Q!TypeOK
<1>20. ASSUME NEW w \in Workers, NEW i \in Instances, VisitInstance(w, i) PROVE TypeOK'
  <2>1. i \in Maps /\ Q!Push(i) /\ pending_requests' = pending_requests + 1
    BY <1>20 DEF VisitInstance, schedule_update, Maps
  <2>2. Q!TypeOK'
    BY <2>1, PushEffect DEF TypeOK, Q!TypeOK
  <2> QED BY <1>20, <2>1, <2>2 DEF VisitInstance, TypeOK
<1>21. ASSUME NEW w \in Workers, NEW i \in Instances, UnloadInstance(w, i) PROVE TypeOK'
  BY <1>21 DEF UnloadInstance, TypeOK, Q!TypeOK, Maps
<1>22. ASSUME NEW w \in Workers, FinishUpdate(w) PROVE TypeOK'
  <2>1. pending_requests > 0
    <3>1. w \in Held
      BY <1>22 DEF FinishUpdate, Held, IInv, ThreadsOK
    <3> QED BY <3>1, HeldFinite DEF IInv, CountOK, TypeOK, Q!TypeOK
  <2> QED BY <1>22, <2>1 DEF FinishUpdate, update_finished, WakeWorld, TypeOK, Q!TypeOK
<1>23. CASE UNCHANGED vars
  BY <1>23 DEF vars, TypeOK, Q!TypeOK
<1>24. ASSUME NEW w \in Workers, CreateInUpdate(w) PROVE TypeOK'
  BY <1>24 DEF CreateInUpdate, CreatedInUpdate, TypeOK, Q!TypeOK, Maps
<1> QED BY <1>1, <1>2, <1>3, <1>4, <1>5, <1>6, <1>7, <1>8, <1>9, <1>10, <1>11, <1>12, <1>13, <1>14,
           <1>15, <1>16, <1>17, <1>18, <1>19, <1>20, <1>21, <1>22, <1>23, <1>24
        DEF Next, WorldThread, WorkerThread, Spurious, Terminated

\* Every step keeps the threads consistent with the queue and the token.
LEMMA ThreadsStep == IInv /\ [Next]_vars => ThreadsOK'
<1> SUFFICES ASSUME IInv, [Next]_vars PROVE ThreadsOK'
  OBVIOUS
<1> USE DEF mapVars, workerVars, worldVars, queueVars
<1> TypeOK /\ ThreadsOK
  BY DEF IInv
<1>1. ASSUME BeginTick \/ EndSchedule \/ WaitReturn \/ EndTick \/ UnloadAll \/ CreateBaseMap PROVE ThreadsOK'
  BY <1>1 DEF BeginTick, EndSchedule, WaitReturn, EndTick, UnloadAll, CreateBaseMap, ThreadsOK, TypeOK
<1>2. ASSUME NEW b \in BaseMaps, UpdateInline(b) \/ DelayedUpdate(b) PROVE ThreadsOK'
  BY <1>2 DEF UpdateInline, DelayedUpdate, ThreadsOK
<1>3. ASSUME NEW i \in Instances, CreateInstance(i) PROVE ThreadsOK'
  BY <1>3 DEF CreateInstance, ThreadsOK
<1>4. ASSUME WaitSleep \/ WaitSpurious PROVE ThreadsOK'
  BY <1>4 DEF WaitSleep, WaitSpurious, WakeWorld, Asleep, ThreadsOK
<1>5. ASSUME Deactivate \/ DrainReturn \/ Join PROVE ThreadsOK'
  BY <1>5 DEF Deactivate, DrainReturn, Join, ThreadsOK
<1>6. ASSUME NEW b \in BaseMaps, ScheduleMap(b) PROVE ThreadsOK'
  <2>1. b \in Maps /\ Q!Push(b)
    BY <1>6 DEF ScheduleMap, schedule_update, Maps
  <2>2. UNCHANGED <<shutdown, value>> /\ \A w \in Workers : where[w] = "out" <=> where'[w] = "out"
    BY <2>1, PushEffect
  <2> QED BY <1>6, <2>2 DEF ScheduleMap, ThreadsOK
<1>7. ASSUME CancelQueue PROVE ThreadsOK'
  <2>1. \A w \in Workers : where[w] = "out" <=> where'[w] = "out"
    BY <1>7 DEF CancelQueue, Q!Cancel, Q!Wake, Q!At
  <2>2. cancelationToken
    BY <1>7 DEF CancelQueue, ThreadsOK
  <2> QED BY <1>7, <2>1, <2>2 DEF CancelQueue, Q!Cancel, ThreadsOK
<1>8. ASSUME NEW w \in Workers, CallWaitAndPop(w) PROVE ThreadsOK'
  BY <1>8 DEF CallWaitAndPop, Q!Call, ThreadsOK, TypeOK, Q!TypeOK
<1>9. ASSUME NEW w \in Workers, InWaitAndPop(w) PROVE ThreadsOK'
  <2>1. CASE Q!Take(w)
    <3>1. value' = [value EXCEPT ![w] = Head(queue)] /\ Head(queue) \in Maps /\ Maps \cap {NoMap} = {}
      BY <2>1, TakeEffect, MapsAssumption DEF IInv, Maps
    <3> QED BY <1>9, <2>1, <3>1 DEF InWaitAndPop, Q!Take, Q!Wait, Q!GiveUp, ThreadsOK, TypeOK, Q!TypeOK
  <2>2. CASE Q!Wait(w)
    BY <1>9, <2>2 DEF InWaitAndPop, Q!Take, Q!Wait, Q!GiveUp, ThreadsOK, TypeOK, Q!TypeOK
  <2>3. CASE Q!GiveUp(w)
    BY <1>9, <2>3 DEF InWaitAndPop, Q!Take, Q!Wait, Q!GiveUp, ThreadsOK, TypeOK, Q!TypeOK
  <2> QED BY <1>9, <2>1, <2>2, <2>3 DEF InWaitAndPop
<1>10. ASSUME NEW w \in Workers, QueueSpurious(w) PROVE ThreadsOK'
  BY <1>10 DEF QueueSpurious, Q!SpuriousWakeup, Q!Wake, ThreadsOK, TypeOK, Q!TypeOK
<1>11. ASSUME NEW w \in Workers, Exit(w) PROVE ThreadsOK'
  BY <1>11 DEF Exit, ThreadsOK, TypeOK
<1>12. ASSUME NEW w \in Workers, BeginUpdate(w) PROVE ThreadsOK'
  BY <1>12 DEF BeginUpdate, ThreadsOK, TypeOK
<1>13. ASSUME NEW w \in Workers, NEW i \in Instances, VisitInstance(w, i) PROVE ThreadsOK'
  <2>1. i \in Maps /\ Q!Push(i)
    BY <1>13 DEF VisitInstance, schedule_update, Maps
  <2>2. UNCHANGED <<shutdown, value>> /\ \A v \in Workers : where[v] = "out" <=> where'[v] = "out"
    BY <2>1, PushEffect
  <2> QED BY <1>13, <2>2 DEF VisitInstance, ThreadsOK
<1>14. ASSUME NEW w \in Workers, NEW i \in Instances, UnloadInstance(w, i) PROVE ThreadsOK'
  BY <1>14 DEF UnloadInstance, ThreadsOK
<1>15. ASSUME NEW w \in Workers, FinishUpdate(w) PROVE ThreadsOK'
  BY <1>15 DEF FinishUpdate, update_finished, WakeWorld, ThreadsOK, TypeOK
<1>16. CASE UNCHANGED vars
  BY <1>16 DEF vars, ThreadsOK
<1>17. ASSUME NEW w \in Workers, CreateInUpdate(w) PROVE ThreadsOK'
  BY <1>17 DEF CreateInUpdate, CreatedInUpdate, ThreadsOK
<1> QED BY <1>1, <1>2, <1>3, <1>4, <1>5, <1>6, <1>7, <1>8, <1>9, <1>10, <1>11, <1>12, <1>13, <1>14,
           <1>15, <1>16, <1>17
        DEF Next, WorldThread, WorkerThread, Spurious, Terminated

\* What the queue's operations do to the set of threads with a request in hand.
LEMMA HeldFrame ==
    ASSUME UNCHANGED <<worker, value>>
    PROVE  Held' = Held /\ InHand' = InHand
BY DEF Held, InHand

\* A take gives the oldest map to a thread that held none.
LEMMA HeldTake ==
    ASSUME NEW w \in Workers, IInv, InWaitAndPop(w), Q!Take(w)
    PROVE  /\ w \notin Held
           /\ Held' = Held \cup {w}
           /\ value'[w] = Head(queue)
           /\ InHand' = InHand \cup {Head(queue)}
           /\ \A v \in Workers : v # w => value'[v] = value[v] /\ worker'[v] = worker[v]
           /\ worker'[w] = "check"
<1>1. value' = [value EXCEPT ![w] = Head(queue)] /\ Head(queue) # NoMap
  BY TakeEffect, MapsAssumption DEF IInv, Maps
<1>2. worker[w] = "pop" /\ worker' = [worker EXCEPT ![w] = "check"]
  BY DEF InWaitAndPop, Q!Take, Q!Wait, Q!GiveUp
<1>3. w \notin Held /\ Held' = Held \cup {w} /\ value'[w] = Head(queue)
  BY <1>1, <1>2 DEF Held, IInv, TypeOK, Q!TypeOK
<1>4. \A v \in Workers : v # w => value'[v] = value[v] /\ worker'[v] = worker[v]
  BY <1>1, <1>2 DEF IInv, TypeOK, Q!TypeOK
<1>5. worker'[w] = "check"
  BY <1>2 DEF IInv, TypeOK
<1>6. InHand' = {value'[v] : v \in Held \cup {w}}
  BY <1>3 DEF InHand
<1>7. \A v \in Held : v \in Workers /\ v # w
  BY <1>3 DEF Held
<1>8. InHand' = InHand \cup {Head(queue)}
  BY <1>3, <1>4, <1>6, <1>7 DEF InHand
<1> QED BY <1>3, <1>4, <1>5, <1>8

\* A finished update leaves the hands of its thread, and no other.
LEMMA HeldFinish ==
    ASSUME NEW w \in Workers, IInv, FinishUpdate(w)
    PROVE  /\ w \in Held
           /\ Held' = Held \ {w}
           /\ InHand' = InHand \ {value[w]}
           /\ UNCHANGED value
<1>1. w \in Held /\ Held' = Held \ {w} /\ UNCHANGED value
  BY DEF FinishUpdate, Held, queueVars, IInv, TypeOK, ThreadsOK
<1>2. \A u, v \in Held : u # v => value[u] # value[v]
  BY DEF IInv, ExclusiveUpdate
<1> QED BY <1>1, <1>2 DEF InHand

\* Nothing is in hand, queued or counted outside a map update.
LEMMA Quiet ==
    ASSUME IInv, ~InMapUpdate \/ ~activated
    PROVE  pending_requests = 0 /\ queue = <<>> /\ Held = {} /\ Queued = {} /\ InHand = {}
<1>1. pending_requests = 0 /\ Len(queue) + Cardinality(Held) = 0 /\ queue \in Seq(Maps)
  BY DEF IInv, CountOK, TypeOK, Q!TypeOK
<1>2. queue = <<>> /\ Held = {}
  BY <1>1, HeldFinite, FS_EmptySet
<1>3. Queued = {} /\ InHand = {}
  BY <1>2 DEF Queued, InHand
<1> QED BY <1>1, <1>2, <1>3

\* Every step keeps pending_requests equal to what is queued or in hand.
LEMMA CountStep == IInv /\ [Next]_vars => CountOK'
<1> SUFFICES ASSUME IInv, [Next]_vars PROVE CountOK'
  OBVIOUS
<1> USE DEF mapVars, workerVars, worldVars, queueVars
<1> TypeOK /\ CountOK
  BY DEF IInv
<1>1. ASSUME BeginTick \/ EndSchedule \/ WaitReturn \/ EndTick \/ UnloadAll \/ CreateBaseMap PROVE CountOK'
  <2>1. UNCHANGED <<worker, value, queue, pending_requests, activated>>
    BY <1>1 DEF BeginTick, EndSchedule, WaitReturn, EndTick, UnloadAll, CreateBaseMap
  <2> QED BY <1>1, <2>1, HeldFrame
          DEF BeginTick, EndSchedule, WaitReturn, EndTick, UnloadAll, CreateBaseMap, CountOK, InMapUpdate
<1>2. ASSUME NEW b \in BaseMaps, UpdateInline(b) \/ DelayedUpdate(b) PROVE CountOK'
  BY <1>2, HeldFrame DEF UpdateInline, DelayedUpdate, CountOK, InMapUpdate
<1>3. ASSUME NEW i \in Instances, CreateInstance(i) PROVE CountOK'
  BY <1>3, HeldFrame DEF CreateInstance, CountOK, InMapUpdate
<1>4. ASSUME WaitSleep \/ WaitSpurious PROVE CountOK'
  BY <1>4, HeldFrame DEF WaitSleep, WaitSpurious, WakeWorld, Asleep, CountOK, InMapUpdate
<1>5. ASSUME Deactivate \/ DrainReturn \/ Join PROVE CountOK'
  BY <1>5, HeldFrame DEF Deactivate, DrainReturn, Join, CountOK, InMapUpdate
<1>6. ASSUME NEW b \in BaseMaps, ScheduleMap(b) PROVE CountOK'
  <2>1. b \in Maps /\ Q!Push(b) /\ pending_requests' = pending_requests + 1
    BY <1>6 DEF ScheduleMap, schedule_update, Maps
  <2>2. Len(queue') = Len(queue) + 1 /\ UNCHANGED <<worker, value>>
    BY <1>6, <2>1, PushEffect DEF ScheduleMap
  <2> QED BY <1>6, <2>1, <2>2, HeldFrame, HeldFinite DEF ScheduleMap, CountOK, InMapUpdate, TypeOK, Q!TypeOK
<1>7. ASSUME CancelQueue PROVE CountOK'
  <2>1. ~InMapUpdate /\ ~InMapUpdate' /\ queue' = <<>> /\ UNCHANGED <<worker, value, pending_requests>>
    BY <1>7 DEF CancelQueue, Q!Cancel, InMapUpdate
  <2> QED BY <1>7, <2>1, HeldFrame, Quiet, FS_EmptySet DEF CancelQueue, CountOK
<1>8. ASSUME NEW w \in Workers, CallWaitAndPop(w) PROVE CountOK'
  <2>1. Held' = Held
    BY <1>8 DEF CallWaitAndPop, Q!Call, Held, TypeOK, Q!TypeOK
  <2> QED BY <1>8, <2>1 DEF CallWaitAndPop, Q!Call, CountOK, InMapUpdate
<1>9. ASSUME NEW w \in Workers, InWaitAndPop(w) PROVE CountOK'
  <2>1. CASE Q!Take(w)
    <3>1. Cardinality(Held') = Cardinality(Held) + 1
      BY <1>9, <2>1, HeldTake, HeldFinite, FS_AddElement
    <3>2. Len(queue') = Len(queue) - 1 /\ Len(queue) \in Nat
      BY <2>1, TakeEffect DEF IInv
    <3> QED BY <1>9, <3>1, <3>2, HeldFinite DEF InWaitAndPop, CountOK, InMapUpdate
  <2>2. CASE Q!Wait(w) \/ Q!GiveUp(w)
    <3>1. Held' = Held
      BY <1>9, <2>2 DEF InWaitAndPop, Q!Wait, Q!GiveUp, Q!Take, Held, IInv, TypeOK, ThreadsOK
    <3> QED BY <1>9, <2>2, <3>1 DEF InWaitAndPop, Q!Wait, Q!GiveUp, CountOK, InMapUpdate
  <2> QED BY <1>9, <2>1, <2>2 DEF InWaitAndPop
<1>10. ASSUME NEW w \in Workers, QueueSpurious(w) PROVE CountOK'
  BY <1>10, HeldFrame DEF QueueSpurious, Q!SpuriousWakeup, CountOK, InMapUpdate
<1>11. ASSUME NEW w \in Workers, Exit(w) PROVE CountOK'
  <2>1. ~InMapUpdate
    BY <1>11 DEF Exit, IInv, ThreadsOK, InMapUpdate
  <2>2. Held' = {}
    BY <1>11, <2>1, Quiet DEF Exit, Held, TypeOK
  <2> QED BY <1>11, <2>1, <2>2, Quiet, FS_EmptySet DEF Exit, CountOK, InMapUpdate
<1>12. ASSUME NEW w \in Workers, BeginUpdate(w) PROVE CountOK'
  <2>1. Held' = Held
    BY <1>12 DEF BeginUpdate, Held, TypeOK
  <2> QED BY <1>12, <2>1 DEF BeginUpdate, CountOK, InMapUpdate
<1>13. ASSUME NEW w \in Workers, NEW i \in Instances, VisitInstance(w, i) PROVE CountOK'
  <2>1. i \in Maps /\ Q!Push(i) /\ pending_requests' = pending_requests + 1
    BY <1>13 DEF VisitInstance, schedule_update, Maps
  <2>2. Len(queue') = Len(queue) + 1 /\ UNCHANGED <<worker, value>>
    BY <1>13, <2>1, PushEffect DEF VisitInstance
  <2>3. w \in Held
    BY <1>13 DEF VisitInstance, Held, IInv, ThreadsOK
  <2>4. InMapUpdate /\ activated
    BY <2>3, Quiet
  <2>5. InMapUpdate' /\ activated'
    BY <1>13, <2>4 DEF VisitInstance, InMapUpdate
  <2> QED BY <2>1, <2>2, <2>4, <2>5, HeldFrame, HeldFinite DEF CountOK, TypeOK, Q!TypeOK
<1>14. ASSUME NEW w \in Workers, NEW i \in Instances, UnloadInstance(w, i) PROVE CountOK'
  BY <1>14, HeldFrame DEF UnloadInstance, CountOK, InMapUpdate
<1>15. ASSUME NEW w \in Workers, FinishUpdate(w) PROVE CountOK'
  <2>1. Cardinality(Held') = Cardinality(Held) - 1
    BY <1>15, HeldFinish, HeldFinite, FS_RemoveElement
  <2>2. InMapUpdate /\ activated
    BY <1>15, HeldFinish, Quiet
  <2>3. InMapUpdate' /\ activated'
    BY <1>15, <2>2 DEF FinishUpdate, update_finished, WakeWorld, InMapUpdate
  <2> QED BY <1>15, <2>1, <2>3, HeldFinite DEF FinishUpdate, update_finished, CountOK, TypeOK, Q!TypeOK
<1>16. CASE UNCHANGED vars
  BY <1>16, HeldFrame DEF vars, CountOK, InMapUpdate
<1>17. ASSUME NEW w \in Workers, CreateInUpdate(w) PROVE CountOK'
  BY <1>17, HeldFrame DEF CreateInUpdate, CountOK, InMapUpdate
<1> QED BY <1>1, <1>2, <1>3, <1>4, <1>5, <1>6, <1>7, <1>8, <1>9, <1>10, <1>11, <1>12, <1>13, <1>14,
           <1>15, <1>16, <1>17
        DEF Next, WorldThread, WorkerThread, Spurious, Terminated

-----------------------------------------------------------------------------
(* The requests.                                                           *)

\* The sets of requests depend on the threads, their values and the queue alone.
LEMMA Frame ==
    ASSUME UNCHANGED <<worker, value, queue>>
    PROVE  /\ Held' = Held /\ Queued' = Queued /\ InHand' = InHand
           /\ ExclusiveUpdate => ExclusiveUpdate'
           /\ UNCHANGED served => Touched' = Touched
BY DEF Held, Queued, InHand, ExclusiveUpdate, Touched

\* A request joins the queue when its map is neither queued nor in hand.
LEMMA PushExclusive ==
    ASSUME NEW m \in Maps, IInv, Q!Push(m), m \notin Queued \cup InHand, UNCHANGED worker
    PROVE  ExclusiveUpdate' /\ Held' = Held /\ InHand' = InHand
<1>1. queue' = Append(queue, m) /\ queue \in Seq(Maps) /\ UNCHANGED value
  BY PushEffect DEF IInv, TypeOK, Q!TypeOK
<1>2. Held' = Held /\ InHand' = InHand
  BY <1>1 DEF Held, InHand
<1>3. DOMAIN queue' = DOMAIN queue \cup {Len(queue) + 1} /\ Len(queue) + 1 \notin DOMAIN queue
  BY <1>1
<1>4. queue'[Len(queue) + 1] = m /\ \A k \in DOMAIN queue : queue'[k] = queue[k]
  BY <1>1
<1>5. \A k \in DOMAIN queue : queue[k] # m
  BY DEF Queued
<1>6. \A j, k \in DOMAIN queue' : j # k => queue'[j] # queue'[k]
  BY <1>3, <1>4, <1>5 DEF IInv, ExclusiveUpdate
<1>7. \A w \in Held, k \in DOMAIN queue' : value[w] # queue'[k]
  BY <1>3, <1>4 DEF InHand, IInv, ExclusiveUpdate
<1> QED BY <1>1, <1>2, <1>6, <1>7 DEF ExclusiveUpdate, IInv

\* A take makes no map requested twice.
LEMMA TakeExclusive ==
    ASSUME NEW w \in Workers, IInv, InWaitAndPop(w), Q!Take(w)
    PROVE  ExclusiveUpdate'
<1>1. queue' = Tail(queue) /\ queue \in Seq(Maps) /\ queue # <<>>
  BY DEF Q!Take, IInv, TypeOK, Q!TypeOK
<1>2. \A k \in DOMAIN queue' : queue'[k] = queue[k + 1] /\ k + 1 \in DOMAIN queue /\ k + 1 # 1
  BY <1>1
<1>3. Head(queue) = queue[1] /\ 1 \in DOMAIN queue
  BY <1>1
<1>4. \A j, k \in DOMAIN queue' : j # k => queue'[j] # queue'[k]
  <2> SUFFICES ASSUME NEW j \in DOMAIN queue', NEW k \in DOMAIN queue', j # k
               PROVE  queue'[j] # queue'[k]
    OBVIOUS
  <2>1. j \in Nat /\ k \in Nat
    BY <1>1
  <2>2. j + 1 # k + 1
    BY <2>1
  <2> QED BY <1>2, <2>2 DEF IInv, ExclusiveUpdate
<1>5. \A v \in Held', k \in DOMAIN queue' : value'[v] # queue'[k]
  BY <1>2, <1>3, HeldTake DEF IInv, ExclusiveUpdate, Held
<1>6. \A u, v \in Held' : u # v => value'[u] # value'[v]
  BY <1>3, HeldTake DEF IInv, ExclusiveUpdate, Held
<1> QED BY <1>4, <1>5, <1>6 DEF ExclusiveUpdate

\* The maps the two loops still have to schedule are neither queued nor in hand.
LEMMA ScheduleFresh ==
    ASSUME NEW b \in BaseMaps, IInv, ScheduleMap(b)
    PROVE  /\ b \in Maps /\ b \in i_maps /\ b \notin Touched
           /\ Q!Push(b)
           /\ UNCHANGED <<worker, visit>>
BY DEF IInv, FreshOK, ScheduleMap, schedule_update, Maps, workerVars

\* An instance the update loop comes to has not been touched in this tick.
LEMMA VisitFresh ==
    ASSUME NEW w \in Workers, NEW i \in Instances, IInv, VisitInstance(w, i) \/ UnloadInstance(w, i)
    PROVE  /\ i \in Maps /\ i \in instanced \ Touched
           /\ w \in Held
           /\ Parent[i] = value[w]
           /\ value[w] \in served
           /\ InMapUpdate
           /\ \A v \in Workers : worker[v] = "running" /\ v # w => i \notin visit[v]
<1>1. worker[w] = "running" /\ i \in visit[w]
  BY DEF VisitInstance, UnloadInstance
<1>2. w \in Held
  BY <1>1 DEF Held, IInv, ThreadsOK
<1>3. i \in instanced \ Touched /\ Parent[i] = value[w] /\ value[w] \in served /\ i \in Maps
  BY <1>1, <1>2 DEF IInv, FreshOK, Maps
<1>4. InMapUpdate
  BY <1>2, Quiet
<1>5. ASSUME NEW v \in Workers, worker[v] = "running", v # w, i \in visit[v] PROVE FALSE
  <2>1. v \in Held /\ Parent[i] = value[v]
    BY <1>5 DEF Held, IInv, ThreadsOK, FreshOK
  <2> QED BY <1>2, <1>3, <1>5, <2>1 DEF IInv, ExclusiveUpdate
<1> QED BY <1>2, <1>3, <1>4, <1>5

\* Every step keeps each map requested at most once at a time.
LEMMA ExclusiveStep == IInv /\ [Next]_vars => ExclusiveUpdate'
<1> SUFFICES ASSUME IInv, [Next]_vars PROVE ExclusiveUpdate'
  OBVIOUS
<1> USE DEF mapVars, workerVars, worldVars, queueVars
<1> ExclusiveUpdate
  BY DEF IInv
<1>1. ASSUME BeginTick \/ EndSchedule \/ WaitReturn \/ EndTick \/ UnloadAll \/ CreateBaseMap PROVE ExclusiveUpdate'
  BY <1>1, Frame DEF BeginTick, EndSchedule, WaitReturn, EndTick, UnloadAll, CreateBaseMap
<1>2. ASSUME NEW b \in BaseMaps, UpdateInline(b) \/ DelayedUpdate(b) PROVE ExclusiveUpdate'
  BY <1>2, Frame DEF UpdateInline, DelayedUpdate
<1>3. ASSUME NEW i \in Instances, CreateInstance(i) PROVE ExclusiveUpdate'
  BY <1>3, Frame DEF CreateInstance
<1>4. ASSUME WaitSleep \/ WaitSpurious \/ Deactivate \/ DrainReturn \/ Join PROVE ExclusiveUpdate'
  BY <1>4, Frame DEF WaitSleep, WaitSpurious, Deactivate, DrainReturn, Join
<1>5. ASSUME NEW b \in BaseMaps, ScheduleMap(b) PROVE ExclusiveUpdate'
  BY <1>5, ScheduleFresh, PushExclusive DEF Touched
<1>6. ASSUME CancelQueue PROVE ExclusiveUpdate'
  <2>1. Held = {} /\ queue' = <<>> /\ UNCHANGED <<worker, value>>
    BY <1>6, Quiet DEF CancelQueue, InMapUpdate, Q!Cancel
  <2> QED BY <2>1, HeldFrame DEF ExclusiveUpdate
<1>7. ASSUME NEW w \in Workers, CallWaitAndPop(w) PROVE ExclusiveUpdate'
  BY <1>7 DEF CallWaitAndPop, Q!Call, ExclusiveUpdate, Held, IInv, TypeOK, Q!TypeOK
<1>8. ASSUME NEW w \in Workers, InWaitAndPop(w) PROVE ExclusiveUpdate'
  <2>1. CASE Q!Take(w)
    BY <1>8, <2>1, TakeExclusive
  <2>2. CASE Q!Wait(w) \/ Q!GiveUp(w)
    BY <1>8, <2>2 DEF InWaitAndPop, Q!Wait, Q!GiveUp, Q!Take, ExclusiveUpdate, Held, IInv, TypeOK, ThreadsOK
  <2> QED BY <1>8, <2>1, <2>2 DEF InWaitAndPop
<1>9. ASSUME NEW w \in Workers, QueueSpurious(w) PROVE ExclusiveUpdate'
  BY <1>9, Frame DEF QueueSpurious, Q!SpuriousWakeup
<1>10. ASSUME NEW w \in Workers, Exit(w) PROVE ExclusiveUpdate'
  BY <1>10 DEF Exit, ExclusiveUpdate, Held, IInv, TypeOK
<1>11. ASSUME NEW w \in Workers, BeginUpdate(w) PROVE ExclusiveUpdate'
  BY <1>11 DEF BeginUpdate, ExclusiveUpdate, Held, IInv, TypeOK
<1>12. ASSUME NEW w \in Workers, NEW i \in Instances, VisitInstance(w, i) PROVE ExclusiveUpdate'
  <2>1. Q!Push(i) /\ UNCHANGED worker
    BY <1>12 DEF VisitInstance, schedule_update
  <2> QED BY <1>12, <2>1, VisitFresh, PushExclusive DEF Touched
<1>13. ASSUME NEW w \in Workers, NEW i \in Instances, UnloadInstance(w, i) PROVE ExclusiveUpdate'
  BY <1>13, Frame DEF UnloadInstance
<1>14. ASSUME NEW w \in Workers, FinishUpdate(w) PROVE ExclusiveUpdate'
  BY <1>14, HeldFinish DEF FinishUpdate, ExclusiveUpdate
<1>15. CASE UNCHANGED vars
  BY <1>15, Frame DEF vars
<1>16. ASSUME NEW w \in Workers, CreateInUpdate(w) PROVE ExclusiveUpdate'
  BY <1>16, Frame DEF CreateInUpdate
<1> QED BY <1>1, <1>2, <1>3, <1>4, <1>5, <1>6, <1>7, <1>8, <1>9, <1>10, <1>11, <1>12, <1>13, <1>14,
           <1>15, <1>16
        DEF Next, WorldThread, WorkerThread, Spurious, Terminated

Requests == FreshOK /\ CoverOK /\ ExistOK

\* A tick begins with nothing requested, so its history may start empty.
LEMMA BeginTickRequests == IInv /\ BeginTick => Requests'
<1> SUFFICES ASSUME IInv, BeginTick PROVE Requests'
  OBVIOUS
<1>1. Held = {} /\ Queued = {} /\ InHand = {} /\ UNCHANGED <<worker, value, queue, visit, i_maps, instanced>>
  BY Quiet DEF BeginTick, InMapUpdate, mapVars, workerVars, queueVars
<1>2. Held' = {} /\ Queued' = {} /\ InHand' = {} /\ Touched' = {}
  BY <1>1, Frame DEF BeginTick, Touched
<1>3. \A w \in Workers : worker[w] # "running"
  BY <1>1 DEF Held, IInv, ThreadsOK
<1> QED BY <1>1, <1>2, <1>3, MapsAssumption
        DEF BeginTick, Requests, FreshOK, CoverOK, ExistOK, IInv, TypeOK

\* ScheduleMap keeps the invariant of the requests.
LEMMA ScheduleRequests ==
    ASSUME NEW b \in BaseMaps, IInv, ScheduleMap(b) PROVE Requests'
<1>1. b \in Maps /\ b \in i_maps /\ b \notin Touched /\ Q!Push(b)
  BY ScheduleFresh
<1>2. UNCHANGED <<worker, visit, value, i_maps, instanced, served, world>> /\ todo' = todo \ {b}
  BY <1>1, PushEffect DEF IInv, ScheduleMap, mapVars, workerVars
<1>3. Held' = Held /\ InHand' = InHand /\ Queued' = Queued \cup {b} /\ Touched' = Touched \cup {b}
  BY <1>1, <1>2, PushEffect, PushExclusive DEF IInv, Touched
<1>4. b \notin Instances
  BY MapsAssumption
<1>5. FreshOK'
  BY <1>1, <1>2, <1>3, <1>4 DEF FreshOK, IInv, TypeOK, Touched
<1>6. CoverOK'
  BY <1>1, <1>2, <1>3, <1>4 DEF CoverOK, IInv, InMapUpdate
<1> QED BY <1>1, <1>2, <1>3, <1>5, <1>6 DEF Requests, ExistOK, IInv

\* A base map that an update creates has not been requested in this tick.
LEMMA CreatedFresh ==
    ASSUME NEW new, NEW seen, IInv, InMapUpdate, CreatedInUpdate(new, seen)
    PROVE  /\ new \subseteq BaseMaps /\ seen \subseteq new
           /\ i_maps' = i_maps \cup new
           /\ new \cap i_maps = {} /\ new \cap Touched = {}
           /\ world # "schedule" => seen = {}
<1>1. new \subseteq BaseMaps \ i_maps /\ seen \subseteq new /\ i_maps' = i_maps \cup new
  BY DEF CreatedInUpdate
<1>2. world # "schedule" => seen = {}
  BY DEF CreatedInUpdate
<1>3. Touched \cap BaseMaps \subseteq i_maps
  BY DEF IInv, CoverOK
<1> QED BY <1>1, <1>2, <1>3

\* UpdateInline keeps the invariant of the requests.
LEMMA InlineRequests ==
    ASSUME NEW b \in BaseMaps, IInv, UpdateInline(b) PROVE Requests'
<1>1. Held = {} /\ Queued = {} /\ InHand = {} /\ UNCHANGED <<worker, value, queue, visit, world>>
  BY Quiet DEF UpdateInline, workerVars, queueVars
<1>2. Held' = {} /\ Queued' = {} /\ InHand' = {} /\ Touched = served /\ Touched' = served'
  BY <1>1, Frame DEF Touched
<1>3. \A w \in Workers : worker[w] # "running"
  BY <1>1 DEF Held, IInv, ThreadsOK
<1>4. PICK destroyed \in SUBSET InstancesOf(b), new \in SUBSET BaseMaps, seen \in SUBSET BaseMaps :
         /\ CreatedInUpdate(new, seen)
         /\ todo' = (todo \ {b}) \cup seen
         /\ instanced' = instanced \ destroyed
         /\ served' = served \cup {b} \cup (InstancesOf(b) \ destroyed) \cup (new \ seen)
  BY DEF UpdateInline
<1>5. b \in todo /\ world = "schedule" /\ InMapUpdate
  BY DEF UpdateInline, InMapUpdate
<1>6. /\ new \subseteq BaseMaps /\ seen \subseteq new /\ i_maps' = i_maps \cup new
      /\ new \cap i_maps = {} /\ new \cap served = {}
  BY <1>2, <1>4, <1>5, CreatedFresh
<1>7. todo \subseteq i_maps /\ todo \cap served = {} /\ b \in i_maps
  BY <1>2, <1>5 DEF IInv, FreshOK
<1>8. FreshOK'
  BY <1>1, <1>2, <1>3, <1>4, <1>5, <1>6, <1>7, MapsAssumption DEF FreshOK, IInv, TypeOK, InstancesOf
<1>9. CoverOK'
  <2>1. \A i \in instanced' : i \in instanced /\ Parent[i] \in i_maps
    BY <1>4 DEF IInv, CoverOK
  <2>2. \A i \in Instances : i \in served' => Parent[i] \in served'
    BY <1>2, <1>4, <1>5, <1>6, MapsAssumption DEF IInv, CoverOK, InstancesOf
  <2>3. i_maps' \subseteq todo' \cup served' /\ served' \cap BaseMaps \subseteq i_maps'
    BY <1>2, <1>4, <1>5, <1>6, <1>7, MapsAssumption DEF IInv, CoverOK, TypeOK, InstancesOf
  <2>4. ASSUME NEW i \in instanced' PROVE i \in served' \/ Parent[i] \notin served'
    <3>1. i \in served \/ Parent[i] \notin served
      BY <1>2, <1>3, <1>5, <2>1, <2>4 DEF IInv, CoverOK
    <3>2. CASE Parent[i] = b
      BY <1>4, <2>1, <2>4, <3>2 DEF InstancesOf
    <3>3. CASE Parent[i] # b
      BY <1>4, <1>6, <2>1, <2>4, <3>1, <3>3, MapsAssumption DEF InstancesOf, IInv, TypeOK
    <3> QED BY <3>2, <3>3
  <2> QED BY <1>2, <1>6, <2>1, <2>2, <2>3, <2>4 DEF CoverOK
<1> QED BY <1>1, <1>2, <1>8, <1>9 DEF Requests, ExistOK

\* CreateInUpdate keeps the invariant of the requests.
LEMMA CreateRequests ==
    ASSUME NEW w \in Workers, IInv, CreateInUpdate(w) PROVE Requests'
<1>1. UNCHANGED <<worker, value, queue, visit, world, instanced>> /\ worker[w] = "running"
  BY DEF CreateInUpdate, workerVars, queueVars
<1>2. InMapUpdate
  BY <1>1, Quiet DEF Held, IInv, ThreadsOK
<1>3. PICK new \in SUBSET BaseMaps, seen \in SUBSET BaseMaps :
         CreatedInUpdate(new, seen) /\ todo' = todo \cup seen /\ served' = served \cup (new \ seen)
  BY DEF CreateInUpdate
<1>4. /\ new \subseteq BaseMaps /\ seen \subseteq new /\ i_maps' = i_maps \cup new
      /\ new \cap i_maps = {} /\ new \cap Touched = {}
  BY <1>2, <1>3, CreatedFresh
<1>5. Held' = Held /\ Queued' = Queued /\ InHand' = InHand /\ Touched' = Touched \cup (new \ seen)
  BY <1>1, <1>3, Frame DEF Touched
<1>6. \A v \in Held : value[v] \in Touched /\ \A m \in Queued : m \in Touched
  BY DEF Touched, InHand
<1>7. new \cap Instances = {}
  BY <1>4, MapsAssumption
<1>8. FreshOK'
  <2>1. \A v \in Held' : worker'[v] = "running" <=> value'[v] \in served'
    BY <1>1, <1>3, <1>4, <1>5, <1>6 DEF IInv, FreshOK
  <2>2. Queued' \cap served' = {}
    BY <1>3, <1>4, <1>5 DEF IInv, FreshOK, Touched
  <2>3. world' = "schedule" => todo' \subseteq i_maps' /\ todo' \cap Touched' = {}
    BY <1>1, <1>3, <1>4, <1>5 DEF IInv, FreshOK
  <2>4. \A v \in Workers : worker'[v] = "running" =>
           \A i \in visit'[v] : i \in instanced' \ Touched' /\ Parent[i] = value'[v]
    BY <1>1, <1>5, <1>7 DEF IInv, FreshOK, TypeOK
  <2> QED BY <2>1, <2>2, <2>3, <2>4 DEF FreshOK
<1>9. CoverOK'
  <2>1. \A i \in instanced' : Parent[i] \in i_maps /\ Parent[i] \in i_maps'
    BY <1>1, <1>4 DEF IInv, CoverOK
  <2>2. \A i \in Instances : i \in Touched' => Parent[i] \in served'
    BY <1>2, <1>3, <1>5, <1>7 DEF IInv, CoverOK
  <2>3. i_maps' \subseteq todo' \cup Touched' /\ Touched' \cap BaseMaps \subseteq i_maps'
    BY <1>2, <1>3, <1>4, <1>5 DEF IInv, CoverOK
  <2>4. \A i \in instanced' :
           \/ i \in Touched'
           \/ Parent[i] \notin served'
           \/ \E v \in Workers : worker'[v] = "running" /\ i \in visit'[v]
    BY <1>1, <1>2, <1>3, <1>4, <1>5, <2>1 DEF IInv, CoverOK
  <2> QED BY <2>1, <2>2, <2>3, <2>4 DEF CoverOK
<1> QED BY <1>1, <1>4, <1>5, <1>8, <1>9 DEF Requests, ExistOK, IInv

\* A take keeps the invariant of the requests.
LEMMA TakeRequests ==
    ASSUME NEW w \in Workers, IInv, InWaitAndPop(w), Q!Take(w) PROVE Requests'
<1>1. /\ Held' = Held \cup {w} /\ w \notin Held
      /\ InHand' = InHand \cup {Head(queue)}
      /\ Queued' = Queued \ {Head(queue)} /\ Head(queue) \in Queued
      /\ value'[w] = Head(queue) /\ worker'[w] = "check"
      /\ \A v \in Workers : v # w => value'[v] = value[v] /\ worker'[v] = worker[v]
  BY HeldTake, TakeEffect DEF IInv
<1>2. UNCHANGED <<visit, i_maps, instanced, served, world, todo>>
  BY DEF InWaitAndPop, mapVars, worldVars
<1>3. Touched' = Touched
  BY <1>1, <1>2 DEF Touched
<1>4. worker[w] # "running" /\ Held \subseteq Workers
  BY DEF InWaitAndPop, Held
<1>5. FreshOK'
  BY <1>1, <1>2, <1>3, <1>4 DEF FreshOK, IInv
<1>6. CoverOK'
  BY <1>1, <1>2, <1>3, <1>4 DEF CoverOK, IInv, InMapUpdate
<1> QED BY <1>1, <1>2, <1>5, <1>6 DEF Requests, ExistOK, IInv

\* An update that begins finds none of its instances touched.
LEMMA BeginUpdateRequests ==
    ASSUME NEW w \in Workers, IInv, BeginUpdate(w) PROVE Requests'
<1> DEFINE m == value[w]
<1>1. /\ worker[w] = "check" /\ worker' = [worker EXCEPT ![w] = "running"]
      /\ visit' = [visit EXCEPT ![w] = InstancesOf(m)]
      /\ served' = served \cup {m}
      /\ UNCHANGED <<i_maps, instanced, world, todo, value, queue>>
  BY DEF BeginUpdate, worldVars, queueVars
<1>2. w \in Held /\ m \in InHand /\ m \notin served /\ m \notin Queued /\ m \in Maps
  BY <1>1, MapsAssumption DEF BeginUpdate, Held, InHand, Queued, IInv, FreshOK, ExclusiveUpdate, TypeOK, Q!TypeOK, Maps
<1>3. Held' = Held /\ InHand' = InHand /\ Queued' = Queued /\ Touched' = Touched
  BY <1>1, <1>2 DEF Held, InHand, Queued, Touched, IInv, TypeOK
<1>4. InMapUpdate
  BY <1>2, Quiet
<1>5. \A i \in InstancesOf(m) : i \in instanced \ Touched /\ Parent[i] = m
  BY <1>2, <1>4 DEF InstancesOf, IInv, CoverOK, TypeOK
<1>6. FreshOK'
  <2>1. \A v \in Held' : worker'[v] = "running" <=> value'[v] \in served'
    BY <1>1, <1>2, <1>3 DEF IInv, FreshOK, ExclusiveUpdate, TypeOK, Held
  <2>2. world' = "schedule" => todo' \subseteq i_maps' /\ todo' \cap Touched' = {}
    BY <1>1, <1>3 DEF IInv, FreshOK
  <2>3. \A v \in Workers : worker'[v] = "running" =>
           \A i \in visit'[v] : i \in instanced' \ Touched' /\ Parent[i] = value'[v]
    BY <1>1, <1>3, <1>5 DEF IInv, FreshOK, TypeOK
  <2> QED BY <1>1, <1>2, <1>3, <2>1, <2>2, <2>3 DEF FreshOK, IInv
<1>7. CoverOK'
  <2>1. \A i \in Instances : i \in Touched' => Parent[i] \in served'
    BY <1>1, <1>3, <1>4 DEF IInv, CoverOK
  <2>2. \A i \in instanced' :
           \/ i \in Touched'
           \/ Parent[i] \notin served'
           \/ \E v \in Workers : worker'[v] = "running" /\ i \in visit'[v]
    <3> SUFFICES ASSUME NEW i \in instanced, i \notin Touched, Parent[i] \in served \cup {m}
                 PROVE  \E v \in Workers : worker'[v] = "running" /\ i \in visit'[v]
      BY <1>1, <1>3
    <3>1. CASE Parent[i] = m
      BY <1>1, <3>1 DEF InstancesOf, IInv, TypeOK
    <3>2. CASE Parent[i] \in served
      <4>1. PICK v \in Workers : worker[v] = "running" /\ i \in visit[v]
        BY <1>4, <3>2 DEF IInv, CoverOK
      <4> QED BY <1>1, <4>1 DEF IInv, TypeOK
    <3> QED BY <3>1, <3>2
  <2> QED BY <1>1, <1>3, <1>4, <2>1, <2>2 DEF CoverOK, IInv
<1> QED BY <1>1, <1>3, <1>6, <1>7 DEF Requests, ExistOK, IInv

\* VisitInstance keeps the invariant of the requests.
LEMMA VisitRequests ==
    ASSUME NEW w \in Workers, NEW i \in Instances, IInv, VisitInstance(w, i) PROVE Requests'
<1>1. /\ worker[w] = "running" /\ i \in visit[w]
      /\ visit' = [visit EXCEPT ![w] = @ \ {i}]
      /\ Q!Push(i)
      /\ UNCHANGED <<worker, i_maps, instanced, served, world, todo>>
  BY DEF VisitInstance, schedule_update, worldVars, mapVars
<1>2. /\ i \in Maps /\ i \in instanced \ Touched /\ w \in Held
      /\ Parent[i] = value[w] /\ value[w] \in served /\ InMapUpdate
      /\ \A v \in Workers : worker[v] = "running" /\ v # w => i \notin visit[v]
  BY VisitFresh
<1>3. Queued' = Queued \cup {i} /\ UNCHANGED value
  BY <1>1, <1>2, PushEffect DEF IInv
<1>4. Held' = Held /\ InHand' = InHand /\ Touched' = Touched \cup {i}
  BY <1>1, <1>2, <1>3, PushExclusive DEF Touched
<1>5. i \notin todo
  BY MapsAssumption DEF IInv, TypeOK
<1>6. \A v \in Workers : worker[v] = "running" => visit'[v] \subseteq visit[v] \ {i}
  BY <1>1, <1>2 DEF IInv, TypeOK
<1>7. FreshOK'
  BY <1>1, <1>2, <1>3, <1>4, <1>5, <1>6 DEF FreshOK, IInv, Touched
<1>8. CoverOK'
  <2>1. \A j \in Instances : j \in Touched' => Parent[j] \in served'
    BY <1>1, <1>2, <1>4 DEF IInv, CoverOK
  <2>2. \A v \in Workers : \A j \in visit[v] : j # i => j \in visit'[v]
    BY <1>1 DEF IInv, TypeOK
  <2>3. Touched' \cap BaseMaps \subseteq i_maps'
    BY <1>1, <1>2, <1>4, MapsAssumption DEF IInv, CoverOK
  <2> QED BY <1>1, <1>2, <1>4, <2>1, <2>2, <2>3 DEF CoverOK, IInv
<1> QED BY <1>1, <1>2, <1>3, <1>4, <1>7, <1>8 DEF Requests, ExistOK, IInv

\* UnloadInstance keeps the invariant of the requests.
LEMMA UnloadRequests ==
    ASSUME NEW w \in Workers, NEW i \in Instances, IInv, UnloadInstance(w, i) PROVE Requests'
<1>1. /\ worker[w] = "running" /\ i \in visit[w]
      /\ visit' = [visit EXCEPT ![w] = @ \ {i}]
      /\ UNCHANGED <<worker, value, queue, i_maps, world, todo>>
      /\ \/ instanced' = instanced \ {i} /\ UNCHANGED served
         \/ served' = served \cup {i} /\ UNCHANGED instanced
  BY DEF UnloadInstance, worldVars, queueVars
<1>2. /\ i \in instanced \ Touched /\ w \in Held
      /\ Parent[i] = value[w] /\ value[w] \in served /\ InMapUpdate
      /\ \A v \in Workers : worker[v] = "running" /\ v # w => i \notin visit[v]
  BY VisitFresh
<1>3. Held' = Held /\ InHand' = InHand /\ Queued' = Queued
  BY <1>1, Frame
<1>4. i \notin todo /\ i \notin i_maps /\ i \notin Queued /\ \A v \in Held : value[v] # i
  BY <1>2, MapsAssumption DEF IInv, TypeOK, Touched, InHand
<1>5. \A v \in Workers : worker[v] = "running" => visit'[v] \subseteq visit[v] \ {i}
  BY <1>1, <1>2 DEF IInv, TypeOK
<1>6. \A v \in Workers : \A j \in visit[v] : j # i => j \in visit'[v]
  BY <1>1 DEF IInv, TypeOK
<1>7. FreshOK'
  BY <1>1, <1>3, <1>4, <1>5 DEF FreshOK, IInv, Touched
<1>8. CoverOK'
  <2>1. \A j \in instanced' : Parent[j] \in i_maps'
    BY <1>1 DEF CoverOK, IInv
  <2>2. \A j \in Instances : j \in Touched' => Parent[j] \in served'
    BY <1>1, <1>2, <1>3 DEF CoverOK, IInv, Touched
  <2>3. i_maps' \subseteq todo' \cup Touched'
    BY <1>1, <1>2, <1>3 DEF CoverOK, IInv, Touched
  <2>4. ASSUME NEW j \in instanced', j \notin Touched', Parent[j] \in served'
        PROVE  \E v \in Workers : worker'[v] = "running" /\ j \in visit'[v]
    <3>1. j \in instanced /\ j # i /\ j \notin Touched
      BY <1>1, <1>3, <2>4 DEF Touched
    <3>2. Parent[j] \in served
      BY <1>1, <1>4, <2>1, <2>4
    <3>3. PICK v \in Workers : worker[v] = "running" /\ j \in visit[v]
      BY <1>2, <3>1, <3>2 DEF CoverOK, IInv
    <3> QED BY <1>1, <1>6, <3>1, <3>3
  <2>5. Touched' \cap BaseMaps \subseteq i_maps'
    BY <1>1, <1>2, <1>3, MapsAssumption DEF IInv, CoverOK, Touched
  <2> QED BY <1>1, <2>1, <2>2, <2>3, <2>4, <2>5 DEF CoverOK
<1> QED BY <1>1, <1>3, <1>4, <1>7, <1>8 DEF Requests, ExistOK, IInv, InHand

\* FinishUpdate keeps the invariant of the requests.
LEMMA FinishRequests ==
    ASSUME NEW w \in Workers, IInv, FinishUpdate(w) PROVE Requests'
<1>1. /\ worker[w] = "running" /\ visit[w] = {}
      /\ worker' = [worker EXCEPT ![w] = "top"]
      /\ UNCHANGED <<visit, i_maps, instanced, served, todo, queue, value>>
  BY DEF FinishUpdate, mapVars, queueVars
<1>2. w \in Held /\ Held' = Held \ {w} /\ InHand' = InHand \ {value[w]} /\ Queued' = Queued
  BY <1>1, HeldFinish DEF Queued
<1>3. value[w] \in served
  BY <1>1, <1>2 DEF IInv, FreshOK
<1>4. Touched' = Touched
  BY <1>1, <1>2, <1>3 DEF Touched
<1>5. (world = "schedule" <=> world' = "schedule") /\ (InMapUpdate <=> InMapUpdate')
  BY DEF FinishUpdate, update_finished, WakeWorld, InMapUpdate
<1>6. \A v \in Workers : v # w => worker'[v] = worker[v]
  BY <1>1 DEF IInv, TypeOK
<1>7. worker'[w] = "top" /\ Held \subseteq Workers
  BY <1>1 DEF IInv, TypeOK, Held
<1>8. FreshOK'
  BY <1>1, <1>2, <1>4, <1>5, <1>6, <1>7 DEF FreshOK, IInv
<1>9. CoverOK'
  BY <1>1, <1>4, <1>5, <1>6, <1>7 DEF CoverOK, IInv
<1> QED BY <1>1, <1>2, <1>8, <1>9 DEF Requests, ExistOK, IInv

\* Every step keeps the invariant of the requests.
LEMMA RequestStep == IInv /\ [Next]_vars => Requests'
<1> SUFFICES ASSUME IInv, [Next]_vars PROVE Requests'
  OBVIOUS
<1> USE DEF mapVars, workerVars, worldVars, queueVars
<1>0. Requests
  BY DEF IInv, Requests
<1>1. ASSUME EndSchedule \/ WaitReturn \/ EndTick \/ WaitSleep \/ WaitSpurious \/ Deactivate
             \/ DrainReturn \/ Join PROVE Requests'
  <2>1. UNCHANGED <<worker, value, queue, served, visit, i_maps, instanced>>
    BY <1>1 DEF EndSchedule, WaitReturn, EndTick, WaitSleep, WaitSpurious, Deactivate, DrainReturn, Join
  <2>2. (InMapUpdate' => InMapUpdate /\ UNCHANGED todo) /\ world' # "schedule"
    BY <1>1 DEF EndSchedule, WaitReturn, EndTick, WaitSleep, WaitSpurious, WakeWorld, Asleep,
                Deactivate, DrainReturn, Join, InMapUpdate
  <2> QED BY <1>0, <2>1, <2>2, Frame DEF Requests, FreshOK, CoverOK, ExistOK
<1>2. ASSUME BeginTick PROVE Requests'
  BY <1>2, BeginTickRequests
<1>3. ASSUME UnloadAll \/ CreateBaseMap PROVE Requests'
  <2>1. ~InMapUpdate /\ ~InMapUpdate' /\ UNCHANGED <<worker, value, queue, served, visit>>
    BY <1>3 DEF UnloadAll, CreateBaseMap, InMapUpdate
  <2>2. Held = {} /\ Queued = {} /\ InHand = {}
    BY <2>1, Quiet
  <2>3. \A w \in Workers : worker[w] # "running"
    BY <2>2 DEF Held, IInv, ThreadsOK
  <2>4. \A i \in instanced' : Parent[i] \in i_maps'
    BY <1>0, <1>3 DEF UnloadAll, CreateBaseMap, Requests, CoverOK
  <2> QED BY <2>1, <2>2, <2>3, <2>4, Frame DEF Requests, FreshOK, CoverOK, ExistOK, InMapUpdate
<1>4. ASSUME NEW b \in BaseMaps, DelayedUpdate(b) PROVE Requests'
  <2>1. ~InMapUpdate /\ ~InMapUpdate' /\ UNCHANGED <<worker, value, queue, served, visit, instanced>>
    BY <1>4 DEF DelayedUpdate, InMapUpdate
  <2>2. i_maps \subseteq i_maps' /\ world' # "schedule"
    BY <1>4 DEF DelayedUpdate
  <2> QED BY <1>0, <2>1, <2>2, Frame DEF Requests, FreshOK, CoverOK, ExistOK
<1>5. ASSUME NEW i \in Instances, CreateInstance(i) PROVE Requests'
  <2>1. ~InMapUpdate /\ ~InMapUpdate' /\ UNCHANGED <<worker, value, queue, served, visit, i_maps>>
    BY <1>5 DEF CreateInstance, InMapUpdate
  <2>2. instanced \subseteq instanced' /\ world' # "schedule" /\ \A j \in instanced' : Parent[j] \in i_maps
    BY <1>0, <1>5 DEF CreateInstance, Requests, CoverOK
  <2> QED BY <1>0, <2>1, <2>2, Frame DEF Requests, FreshOK, CoverOK, ExistOK
<1>6. ASSUME NEW b \in BaseMaps, ScheduleMap(b) PROVE Requests'
  BY <1>6, ScheduleRequests
<1>7. ASSUME NEW b \in BaseMaps, UpdateInline(b) PROVE Requests'
  BY <1>7, InlineRequests
<1>8. ASSUME CancelQueue PROVE Requests'
  <2>1. ~InMapUpdate /\ ~InMapUpdate' /\ queue' = <<>> /\ world' # "schedule"
        /\ UNCHANGED <<worker, value, served, visit, i_maps, instanced>>
    BY <1>8 DEF CancelQueue, Q!Cancel, InMapUpdate
  <2>2. Held' = Held /\ InHand' = InHand /\ Queued' = {} /\ Queued = {}
    BY <2>1, HeldFrame, Quiet DEF Queued
  <2>3. Touched' = Touched
    BY <2>1, <2>2 DEF Touched
  <2> QED BY <1>0, <2>1, <2>2, <2>3 DEF Requests, FreshOK, CoverOK, ExistOK
<1>9. ASSUME NEW w \in Workers, CallWaitAndPop(w) \/ (InWaitAndPop(w) /\ (Q!Wait(w) \/ Q!GiveUp(w))) PROVE Requests'
  <2>1. UNCHANGED <<queue, served, visit, i_maps, instanced, world, todo>>
    BY <1>9 DEF CallWaitAndPop, Q!Call, InWaitAndPop, Q!Wait, Q!GiveUp, Q!Take
  <2>2. \A v \in Workers : worker[v] = "running" <=> worker'[v] = "running"
    BY <1>9 DEF CallWaitAndPop, Q!Call, InWaitAndPop, Q!Wait, Q!GiveUp, Q!Take, IInv, TypeOK
  <2>3. Held' = Held /\ \A v \in Held : v \in Workers /\ value'[v] = value[v]
    BY <1>9 DEF CallWaitAndPop, Q!Call, InWaitAndPop, Q!Wait, Q!GiveUp, Q!Take, Held, IInv, TypeOK, Q!TypeOK, ThreadsOK
  <2>4. InHand' = InHand /\ Queued' = Queued /\ Touched' = Touched
    BY <2>1, <2>3 DEF InHand, Queued, Touched
  <2>5. \A v \in Workers : worker[v] = "running" => v \in Held
    BY DEF Held, IInv, ThreadsOK
  <2> QED BY <1>0, <2>1, <2>2, <2>3, <2>4, <2>5 DEF Requests, FreshOK, CoverOK, ExistOK, InMapUpdate
<1>10. ASSUME NEW w \in Workers, InWaitAndPop(w), Q!Take(w) PROVE Requests'
  BY <1>10, TakeRequests
<1>11. ASSUME NEW w \in Workers, Exit(w) PROVE Requests'
  <2>1. ~InMapUpdate /\ ~InMapUpdate' /\ UNCHANGED <<queue, value, served, visit, i_maps, instanced, world>>
    BY <1>11 DEF Exit, IInv, ThreadsOK, InMapUpdate
  <2>2. Held = {} /\ Queued = {} /\ InHand = {}
    BY <2>1, Quiet
  <2>3. Held' = {} /\ \A v \in Workers : worker'[v] # "running"
    BY <1>11, <2>2 DEF Exit, Held, IInv, TypeOK, ThreadsOK
  <2>4. InHand' = {} /\ Queued' = {} /\ Touched' = Touched
    BY <2>1, <2>2, <2>3 DEF InHand, Queued, Touched
  <2> QED BY <1>0, <2>1, <2>2, <2>3, <2>4 DEF Requests, FreshOK, CoverOK, ExistOK, InMapUpdate
<1>12. ASSUME NEW w \in Workers, BeginUpdate(w) PROVE Requests'
  BY <1>12, BeginUpdateRequests
<1>13. ASSUME NEW w \in Workers, NEW i \in Instances, VisitInstance(w, i) PROVE Requests'
  BY <1>13, VisitRequests
<1>14. ASSUME NEW w \in Workers, NEW i \in Instances, UnloadInstance(w, i) PROVE Requests'
  BY <1>14, UnloadRequests
<1>15. ASSUME NEW w \in Workers, FinishUpdate(w) PROVE Requests'
  BY <1>15, FinishRequests
<1>16. ASSUME UNCHANGED vars \/ \E w \in Workers : QueueSpurious(w) PROVE Requests'
  <2>1. UNCHANGED <<worker, value, queue, served, visit, i_maps, instanced, world, todo>>
    BY <1>16 DEF vars, QueueSpurious, Q!SpuriousWakeup
  <2> QED BY <1>0, <2>1, Frame DEF Requests, FreshOK, CoverOK, ExistOK, InMapUpdate
<1>17. ASSUME NEW w \in Workers, CreateInUpdate(w) PROVE Requests'
  BY <1>17, CreateRequests
<1> QED BY <1>1, <1>2, <1>3, <1>4, <1>5, <1>6, <1>7, <1>8, <1>9, <1>10, <1>11, <1>12, <1>13, <1>14,
           <1>15, <1>16, <1>17
        DEF Next, WorldThread, WorkerThread, Spurious, Terminated, InWaitAndPop

\* The invariant holds before any map exists.
LEMMA InitIInv == Init => IInv
<1> SUFFICES ASSUME Init PROVE IInv
  OBVIOUS
<1>1. TypeOK
  <2>1. queue \in Seq(Maps)
    BY DEF Init, Q!Init
  <2>2. where \in [Workers -> Q!Places] /\ value \in [Workers -> Maps \cup {NoMap}]
    BY DEF Init, Q!Init, Q!Places
  <2>3. worker \in [Workers -> WorkerPlaces] /\ visit \in [Workers -> SUBSET Instances]
    BY DEF Init, WorkerPlaces
  <2> QED BY <2>1, <2>2, <2>3 DEF Init, Q!Init, TypeOK, Q!TypeOK, WorldPlaces
<1>2. ThreadsOK
  BY DEF Init, Q!Init, ThreadsOK
<1>3. Held = {} /\ queue = <<>> /\ served = {}
  BY DEF Init, Q!Init, Held
<1>4. Queued = {} /\ InHand = {} /\ Touched = {}
  BY <1>3 DEF Queued, InHand, Touched
<1>5. CountOK
  BY <1>3, FS_EmptySet DEF Init, CountOK
<1>6. ExclusiveUpdate
  BY <1>3 DEF ExclusiveUpdate
<1>7. FreshOK /\ CoverOK /\ ExistOK
  BY <1>3, <1>4 DEF Init, FreshOK, CoverOK, ExistOK, InMapUpdate
<1> QED BY <1>1, <1>2, <1>5, <1>6, <1>7 DEF IInv

\* The inductive invariant holds in every reachable state.
LEMMA Invariance == Spec => []IInv
<1>1. IInv /\ [Next]_vars => IInv'
  BY TypeStep, ThreadsStep, CountStep, ExclusiveStep, RequestStep DEF IInv, Requests
<1> QED BY InitIInv, <1>1, PTL DEF Spec

-----------------------------------------------------------------------------
\* The variables keep their types; pending_requests, a size_t in the code, never
\* wraps below zero.
THEOREM TypeCorrect == Spec => []TypeOK
<1>1. IInv => TypeOK
  BY DEF IInv
<1> QED BY Invariance, <1>1, PTL

\* The world thread never runs beside a map update, nested ones included, however
\* many threads, maps and instances there are.
THEOREM BarrierHolds == Spec => []Barrier
<1>1. IInv => Barrier
  BY Quiet DEF Barrier
<1> QED BY Invariance, <1>1, PTL

\* No two threads update one map, and none is requested twice at a time.
THEOREM UpdatesAreExclusive == Spec => []ExclusiveUpdate
<1>1. IInv => ExclusiveUpdate
  BY DEF IInv
<1> QED BY Invariance, <1>1, PTL

\* No request, and no iterator of MapInstanced::Update, refers to a deleted map.
THEOREM NothingDangles == Spec => []NoDanglingRequest
<1>1. IInv => NoDanglingRequest
  <2> SUFFICES ASSUME IInv PROVE NoDanglingRequest
    OBVIOUS
  <2>1. Requested = Queued \cup InHand
    BY DEF Requested, Queued, InHand
  <2> QED BY <2>1 DEF IInv, ExistOK, FreshOK, NoDanglingRequest
<1> QED BY Invariance, <1>1, PTL

\* No update thread dereferences a null request.
THEOREM NoNullRequest == Spec => []RequestInHand
<1>1. IInv => RequestInHand
  BY DEF IInv, ThreadsOK, RequestInHand
<1> QED BY Invariance, <1>1, PTL

\* An update thread never begins a map a second time in a tick.
THEOREM UpdatedOnce == Spec => OncePerTick
<1>1. IInv /\ [Next]_vars =>
        \A w \in Workers : worker[w] = "check" /\ worker'[w] = "running" => value[w] \notin served
  <2> SUFFICES ASSUME IInv, [Next]_vars, NEW w \in Workers, worker[w] = "check", worker'[w] = "running"
               PROVE  value[w] \notin served
    OBVIOUS
  <2>1. value[w] # NoMap
    <3>1. worker[w] # worker'[w]
      OBVIOUS
    <3>2. BeginUpdate(w)
      BY <3>1 DEF Next, WorldThread, WorkerThread, Spurious, Terminated, vars, workerVars, IInv, TypeOK,
                  BeginTick, EndSchedule, WaitReturn, EndTick, UnloadAll, CreateBaseMap, ScheduleMap,
                  UpdateInline, DelayedUpdate, CreateInstance, WaitSleep, WaitSpurious, Deactivate,
                  DrainReturn, CancelQueue, Join, CallWaitAndPop, InWaitAndPop, QueueSpurious, Exit,
                  BeginUpdate, CreateInUpdate, VisitInstance, UnloadInstance, FinishUpdate
    <3> QED BY <3>2 DEF BeginUpdate
  <2>2. w \in Held
    BY <2>1 DEF Held
  <2> QED BY <2>2 DEF IInv, FreshOK
<1> QED BY Invariance, <1>1, PTL DEF Spec, OncePerTick

\* MapUpdater::wait returns only when everything that exists has been served.
THEOREM NothingForgotten == Spec => EveryMapServed
<1>1. IInv /\ [Next]_vars =>
        (world = "wait" /\ world' = "delayed" => i_maps \cup instanced \subseteq served)
  <2> SUFFICES ASSUME IInv, [Next]_vars, world = "wait", world' = "delayed"
               PROVE  i_maps \cup instanced \subseteq served
    OBVIOUS
  <2>1. pending_requests = 0
    BY DEF Next, WorldThread, WorkerThread, Spurious, Terminated, vars, worldVars,
           BeginTick, EndSchedule, WaitReturn, EndTick, UnloadAll, CreateBaseMap, ScheduleMap,
           UpdateInline, DelayedUpdate, CreateInstance, WaitSleep, Asleep, WaitSpurious, Deactivate,
           DrainReturn, CancelQueue, Join, CallWaitAndPop, InWaitAndPop, QueueSpurious, Exit,
           BeginUpdate, CreateInUpdate, VisitInstance, UnloadInstance, FinishUpdate, update_finished,
           WakeWorld
  <2>2. Held = {} /\ queue = <<>>
    BY <2>1, HeldFinite, FS_EmptySet DEF IInv, CountOK, TypeOK, Q!TypeOK
  <2>3. Queued = {} /\ InHand = {} /\ Touched = served
    BY <2>2 DEF Queued, InHand, Touched
  <2>4. todo = {} /\ InMapUpdate /\ \A w \in Workers : worker[w] # "running"
    BY <2>2 DEF InMapUpdate, Held, IInv, ThreadsOK
  <2>5. i_maps \subseteq served
    BY <2>3, <2>4 DEF IInv, CoverOK
  <2>6. instanced \subseteq served
    BY <2>3, <2>4, <2>5 DEF IInv, CoverOK
  <2> QED BY <2>5, <2>6
<1> QED BY Invariance, <1>1, PTL DEF Spec, EveryMapServed

-----------------------------------------------------------------------------
(* MapUpdater keeps the contract of MapTick, step by step.                 *)

\* What MapTick calls updating is what is in hand and begun.
LEMMA RequestSets ==
    ASSUME IInv
    PROVE  /\ Requested = Queued \cup InHand
           /\ Updating \subseteq InHand
           /\ Queued \cap InHand = {}
           /\ Updating = InHand \cap served
BY DEF Requested, Queued, InHand, Updating, Held, IInv, ThreadsOK, FreshOK, ExclusiveUpdate

\* Outside the map phase, or without threads, nothing is requested.
LEMMA QuietTick ==
    ASSUME IInv, ~InMapUpdate \/ ~activated
    PROVE  Requested = {} /\ Updating = {} /\ Due = IF world = "schedule" THEN todo ELSE {}
BY Quiet, RequestSets DEF Due

\* MapTick's sets change only with the threads, their values or the queue.
LEMMA SameRequests ==
    ASSUME UNCHANGED <<worker, value, queue>>
    PROVE  Requested' = Requested /\ Updating' = Updating
BY DEF Requested, Updating, Held

\* The steps of the world thread.
LEMMA WorldRefinement ==
    ASSUME IInv, WorldThread PROVE Tick!Next \/ UNCHANGED Tick!vars
<1> USE DEF mapVars, workerVars, worldVars, queueVars, Tick!vars
<1>1. CASE BeginTick
  <2>1. Due' = i_maps /\ Updating = {} /\ Updating' = {} /\ Phase = "world" /\ Phase' = "maps"
    BY <1>1, QuietTick, SameRequests DEF BeginTick, InMapUpdate, Phase, Due
  <2>2. (i_maps \cup instanced) \cap BaseMaps = i_maps
    BY MapsAssumption DEF IInv, TypeOK
  <2>3. Tick!BeginTick
    BY <1>1, <2>1, <2>2 DEF BeginTick, Tick!BeginTick
  <2> QED BY <2>3 DEF Tick!Next
<1>2. CASE EndSchedule
  <2>1. Requested' = Requested /\ Updating' = Updating
    BY <1>2, SameRequests DEF EndSchedule
  <2>2. CASE activated
    BY <1>2, <2>1, <2>2 DEF EndSchedule, Due, Phase, InMapUpdate
  <2>3. CASE ~activated
    <3>1. Due = {} /\ Due' = {} /\ Updating = {} /\ Phase = "maps" /\ Phase' = "world"
      BY <1>2, <2>1, <2>3, QuietTick DEF EndSchedule, Due, Phase, InMapUpdate
    <3>2. InMapUpdate /\ todo = {} /\ Touched = served /\ \A w \in Workers : worker[w] # "running"
      BY <1>2, <2>3, Quiet DEF EndSchedule, InMapUpdate, Touched, Held, IInv, ThreadsOK
    <3>3. i_maps \cup instanced \subseteq served
      BY <3>2 DEF IInv, CoverOK
    <3>4. Tick!EndTick
      BY <1>2, <2>1, <3>1, <3>3 DEF EndSchedule, Tick!EndTick
    <3> QED BY <3>4 DEF Tick!Next, Tick!MapPhase
  <2> QED BY <2>2, <2>3
<1>3. CASE WaitReturn
  <2>1. Held = {} /\ queue = <<>>
    BY <1>3, HeldFinite, FS_EmptySet DEF WaitReturn, IInv, CountOK, TypeOK, Q!TypeOK
  <2>2. Queued = {} /\ InHand = {} /\ Touched = served /\ \A w \in Workers : worker[w] # "running"
    BY <2>1 DEF Queued, InHand, Touched, Held, IInv, ThreadsOK
  <2>3. Requested = {} /\ Updating = {} /\ Requested' = {} /\ Updating' = {}
    BY <1>3, <2>2, RequestSets, SameRequests DEF WaitReturn
  <2>4. Due = {} /\ Due' = {} /\ Phase = "maps" /\ Phase' = "world"
    BY <1>3, <2>3 DEF WaitReturn, Due, Phase, InMapUpdate
  <2>5. InMapUpdate /\ todo = {}
    BY <1>3 DEF WaitReturn, InMapUpdate, IInv, ThreadsOK
  <2>6. i_maps \cup instanced \subseteq served
    BY <2>2, <2>5 DEF IInv, CoverOK
  <2>7. Tick!EndTick
    BY <1>3, <2>3, <2>4, <2>6 DEF WaitReturn, Tick!EndTick
  <2> QED BY <2>7 DEF Tick!Next, Tick!MapPhase
<1>4. CASE EndTick \/ WaitSleep \/ Deactivate \/ DrainReturn \/ Join
  <2>1. Requested' = Requested /\ Updating' = Updating
    BY <1>4, SameRequests DEF EndTick, WaitSleep, Deactivate, DrainReturn, Join
  <2> QED BY <1>4, <2>1 DEF EndTick, WaitSleep, Asleep, Deactivate, DrainReturn, Join, Due, Phase, InMapUpdate
<1>5. CASE UnloadAll
  <2>1. Due = {} /\ Due' = {} /\ Updating' = Updating /\ Phase = "world" /\ Phase' = "closed"
    BY <1>5, QuietTick, SameRequests DEF UnloadAll, InMapUpdate, Phase, Due
  <2>2. Tick!Close
    BY <1>5, <2>1 DEF UnloadAll, Tick!Close
  <2> QED BY <2>2 DEF Tick!Next
<1>6. CASE CreateBaseMap \/ (\E b \in BaseMaps : DelayedUpdate(b)) \/ (\E i \in Instances : CreateInstance(i))
  <2>1. Requested' = Requested /\ Updating' = Updating /\ UNCHANGED <<world, served>>
    BY <1>6, SameRequests DEF CreateBaseMap, DelayedUpdate, CreateInstance
  <2>2. Phase = "world" /\ Phase' = Phase /\ Due' = Due
    BY <1>6, <2>1 DEF CreateBaseMap, DelayedUpdate, CreateInstance, Due, Phase, InMapUpdate
  <2>3. \E new \in SUBSET (Maps \ (i_maps \cup instanced)) :
           (i_maps \cup instanced)' = (i_maps \cup instanced) \cup new
    <3>1. (i_maps \cup instanced) \subseteq (i_maps \cup instanced)' /\ (i_maps \cup instanced)' \subseteq Maps
      BY <1>6 DEF CreateBaseMap, DelayedUpdate, CreateInstance, IInv, TypeOK, Maps
    <3> DEFINE new == (i_maps \cup instanced)' \ (i_maps \cup instanced)
    <3>2. new \in SUBSET (Maps \ (i_maps \cup instanced))
      BY <3>1
    <3>3. (i_maps \cup instanced)' = (i_maps \cup instanced) \cup new
      BY <3>1
    <3> QED BY <3>2, <3>3
  <2>4. Tick!Create
    BY <2>1, <2>2, <2>3 DEF Tick!Create, Tick!Maps, Maps
  <2> QED BY <2>4 DEF Tick!Next
<1>7. ASSUME NEW b \in BaseMaps, ScheduleMap(b) PROVE UNCHANGED Tick!vars
  <2>1. b \in Maps /\ b \notin Touched /\ Q!Push(b) /\ UNCHANGED <<worker, visit>>
    BY <1>7, ScheduleFresh
  <2>2. Queued' = Queued \cup {b} /\ InHand' = InHand /\ UNCHANGED value
    BY <2>1, PushEffect, PushExclusive DEF IInv, Touched
  <2>3. Requested' = Requested \cup {b} /\ Updating' = Updating /\ b \notin Updating
    <3>1. Requested' = Queued' \cup InHand'
      BY DEF Requested, Queued, InHand
    <3>2. Updating' = Updating
      BY <2>1, <2>2 DEF Updating
    <3> QED BY <2>1, <2>2, <3>1, <3>2, RequestSets DEF Touched
  <2>4. Due' = Due /\ Phase' = Phase
    BY <1>7, <2>3 DEF ScheduleMap, Due, Phase, InMapUpdate
  <2> QED BY <1>7, <2>3, <2>4 DEF ScheduleMap
<1>8. ASSUME NEW b \in BaseMaps, UpdateInline(b) PROVE Tick!UpdateWhole(b)
  <2>1. PICK destroyed \in SUBSET InstancesOf(b), new \in SUBSET BaseMaps, seen \in SUBSET BaseMaps :
           /\ CreatedInUpdate(new, seen)
           /\ todo' = (todo \ {b}) \cup seen
           /\ instanced' = instanced \ destroyed
           /\ served' = served \cup {b} \cup (InstancesOf(b) \ destroyed) \cup (new \ seen)
    BY <1>8 DEF UpdateInline
  <2>2. Due = todo /\ Due' = todo' /\ Updating' = Updating /\ Phase = "maps" /\ Phase' = Phase /\ b \in Due
    BY <1>8, QuietTick, SameRequests DEF UpdateInline, Due, Phase, InMapUpdate
  <2>3. new \subseteq BaseMaps /\ seen \subseteq new /\ i_maps' = i_maps \cup new /\ new \cap i_maps = {}
    BY <1>8, <2>1, CreatedFresh DEF UpdateInline, InMapUpdate
  <2>4. /\ {i \in (i_maps \cup instanced) \cap Instances : Parent[i] = b} = InstancesOf(b)
        /\ new \subseteq BaseMaps \ (i_maps \cup instanced)
        /\ i_maps \cap destroyed = {} /\ new \cap destroyed = {}
    BY <2>1, <2>3, MapsAssumption DEF InstancesOf, IInv, TypeOK
  <2>5. (i_maps \cup instanced)' = ((i_maps \cup instanced) \ destroyed) \cup new
    BY <2>1, <2>3, <2>4
  <2>6. {i \in (i_maps \cup instanced)' \cap Instances : Parent[i] = b} = InstancesOf(b) \ destroyed
    BY <2>1, <2>3, <2>4, <2>5, MapsAssumption DEF InstancesOf, IInv, TypeOK
  <2>7. Due' = (Due \ {b}) \cup seen
    BY <2>1, <2>2
  <2>8. served' = served \cup {b} \cup (new \ seen)
                   \cup {i \in (i_maps \cup instanced)' \cap Instances : Parent[i] = b}
    BY <2>1, <2>6
  <2>9. destroyed \in SUBSET {i \in (i_maps \cup instanced) \cap Instances : Parent[i] = b}
    BY <2>4
  <2> QED BY <2>2, <2>3, <2>4, <2>5, <2>7, <2>8, <2>9 DEF Tick!UpdateWhole
<1>9. CASE CancelQueue
  <2>1. Due = {} /\ Updating = {} /\ Held = {} /\ ~InMapUpdate
    BY <1>9, QuietTick, Quiet DEF CancelQueue, InMapUpdate
  <2>2. Held' = {} /\ Requested' = {} /\ Updating' = {}
    <3>1. queue' = <<>> /\ UNCHANGED <<worker, value>>
      BY <1>9 DEF CancelQueue, Q!Cancel
    <3>2. Held' = {}
      BY <2>1, <3>1, HeldFrame
    <3>3. Updating' = Updating
      BY <3>1 DEF Updating
    <3> QED BY <2>1, <3>1, <3>2, <3>3 DEF Requested
  <2> QED BY <1>9, <2>1, <2>2 DEF CancelQueue, Due, Phase, InMapUpdate
<1> QED BY <1>1, <1>2, <1>3, <1>4, <1>5, <1>6, <1>7, <1>8, <1>9
        DEF WorldThread, Tick!Next, Tick!MapPhase

\* The steps of an update thread.
LEMMA WorkerRefinement ==
    ASSUME IInv, NEW w \in Workers, WorkerThread(w) PROVE Tick!Next \/ UNCHANGED Tick!vars
<1> USE DEF mapVars, workerVars, worldVars, queueVars, Tick!vars
<1>1. CASE CallWaitAndPop(w) \/ (InWaitAndPop(w) /\ (Q!Wait(w) \/ Q!GiveUp(w)))
  <2>1. UNCHANGED <<queue, served, i_maps, instanced, world, todo>>
    BY <1>1 DEF CallWaitAndPop, Q!Call, InWaitAndPop, Q!Wait, Q!GiveUp, Q!Take
  <2>2. Held' = Held /\ \A v \in Held : v \in Workers /\ value'[v] = value[v]
    BY <1>1 DEF CallWaitAndPop, Q!Call, InWaitAndPop, Q!Wait, Q!GiveUp, Q!Take, Held, IInv, TypeOK, Q!TypeOK, ThreadsOK
  <2>3. \A v \in Workers : (worker[v] = "running" <=> worker'[v] = "running") /\ (worker[v] = "running" => v \in Held)
    BY <1>1 DEF CallWaitAndPop, Q!Call, InWaitAndPop, Q!Wait, Q!GiveUp, Q!Take, Held, IInv, TypeOK, ThreadsOK
  <2>4. Requested' = Requested /\ Updating' = Updating
    BY <2>1, <2>2, <2>3 DEF Requested, Updating
  <2> QED BY <2>1, <2>4 DEF Due, Phase, InMapUpdate
<1>2. CASE InWaitAndPop(w) /\ Q!Take(w)
  <2>1. UNCHANGED <<served, i_maps, instanced, world, todo>>
    BY <1>2 DEF InWaitAndPop
  <2>2. /\ InHand' = InHand \cup {Head(queue)} /\ Queued' = Queued \ {Head(queue)} /\ Head(queue) \in Queued
        /\ worker[w] # "running" /\ worker'[w] # "running"
        /\ \A v \in Workers : v # w => value'[v] = value[v] /\ worker'[v] = worker[v]
    BY <1>2, HeldTake, TakeEffect DEF IInv, InWaitAndPop
  <2>3. Requested' = Queued' \cup InHand' /\ Updating' = Updating
    BY <2>2 DEF Requested, Queued, InHand, Updating
  <2>4. Requested' = Requested
    BY <2>2, <2>3, RequestSets
  <2> QED BY <2>1, <2>3, <2>4 DEF Due, Phase, InMapUpdate
<1>3. CASE Exit(w)
  <2>1. ~InMapUpdate /\ UNCHANGED <<queue, value, served, i_maps, instanced, world, todo>>
    BY <1>3 DEF Exit, IInv, ThreadsOK, InMapUpdate
  <2>2. Held = {} /\ queue = <<>> /\ Requested = {} /\ Updating = {}
    BY <2>1, Quiet, QuietTick
  <2>3. Held' = {} /\ \A v \in Workers : worker'[v] # "running"
    BY <1>3, <2>2 DEF Exit, Held, IInv, TypeOK, ThreadsOK
  <2>4. Requested' = {} /\ Updating' = {}
    BY <2>1, <2>2, <2>3 DEF Requested, Updating
  <2> QED BY <2>1, <2>2, <2>4 DEF Due, Phase, InMapUpdate
<1>4. CASE BeginUpdate(w)
  <2> DEFINE m == value[w]
  <2>1. /\ worker[w] = "check" /\ worker' = [worker EXCEPT ![w] = "running"]
        /\ served' = served \cup {m}
        /\ UNCHANGED <<i_maps, instanced, world, todo, value, queue>>
    BY <1>4 DEF BeginUpdate
  <2>2. w \in Held /\ m \in InHand /\ m \notin served /\ m \in Maps
    BY <1>4, <2>1, MapsAssumption DEF BeginUpdate, Held, InHand, IInv, FreshOK, TypeOK, Q!TypeOK, Maps
  <2>3. Updating' = Updating \cup {m}
    BY <2>1 DEF Updating, IInv, TypeOK
  <2>4. Held' = Held
    BY <2>1, <2>2 DEF Held, IInv, TypeOK
  <2>5. Requested' = Requested /\ m \in Requested /\ m \notin Updating
    BY <2>1, <2>2, <2>4, RequestSets DEF Requested
  <2>6. InMapUpdate /\ (world = "schedule" => m \notin todo)
    BY <2>2, Quiet DEF IInv, FreshOK, Touched
  <2>7. m \in Due /\ Due' = Due \ {m} /\ Phase = "maps" /\ Phase' = Phase
    BY <2>1, <2>3, <2>5, <2>6 DEF Due, Phase, InMapUpdate
  <2>8. Tick!Begin(m) /\ m \in Tick!Maps
    BY <2>1, <2>2, <2>3, <2>7 DEF Tick!Begin, Tick!Maps, Maps
  <2> QED BY <2>8 DEF Tick!Next, Tick!MapPhase
<1>5. ASSUME NEW i \in Instances, VisitInstance(w, i) \/ UnloadInstance(w, i) PROVE Tick!Decide(i)
  <2>1. /\ i \in Maps /\ i \in instanced \ Touched /\ w \in Held /\ worker[w] = "running"
        /\ Parent[i] = value[w] /\ InMapUpdate /\ UNCHANGED <<worker, i_maps, world, todo>>
    BY <1>5, VisitFresh DEF VisitInstance, UnloadInstance
  <2>2. Parent[i] \in Updating /\ i \notin Requested /\ i \notin todo /\ i \notin i_maps /\ i \notin served
    BY <2>1, RequestSets, MapsAssumption DEF Updating, IInv, TypeOK, Touched
  <2>3. i \notin Due /\ i \in i_maps \cup instanced /\ Phase' = Phase
    BY <2>1, <2>2 DEF Due, Phase, InMapUpdate
  <2>4. CASE VisitInstance(w, i)
    <3>1. Q!Push(i) /\ UNCHANGED <<served, instanced>>
      BY <2>4 DEF VisitInstance, schedule_update
    <3>2. Queued' = Queued \cup {i} /\ InHand' = InHand /\ UNCHANGED value
      BY <2>1, <3>1, PushEffect, PushExclusive DEF IInv, Touched
    <3>3. Requested' = Queued' \cup InHand' /\ Updating' = Updating
      BY <2>1, <3>2 DEF Requested, Queued, InHand, Updating
    <3>4. Updating \subseteq Requested
      BY RequestSets
    <3>5. Due' = Due \cup {i}
      BY <2>1, <2>2, <3>2, <3>3, <3>4, RequestSets DEF Due
    <3> QED BY <2>1, <2>2, <2>3, <3>1, <3>3, <3>5 DEF Tick!Decide
  <2>5. CASE UnloadInstance(w, i)
    <3>1. /\ UNCHANGED <<queue, value>>
          /\ \/ instanced' = instanced \ {i} /\ UNCHANGED served
             \/ served' = served \cup {i} /\ UNCHANGED instanced
      BY <2>5 DEF UnloadInstance
    <3>2. Requested' = Requested /\ Updating' = Updating
      BY <2>1, <3>1, SameRequests
    <3>3. Due' = Due
      BY <2>1, <3>2 DEF Due
    <3> QED BY <2>1, <2>2, <2>3, <3>1, <3>2, <3>3 DEF Tick!Decide
  <2> QED BY <1>5, <2>4, <2>5
<1>6. CASE FinishUpdate(w)
  <2> DEFINE m == value[w]
  <2>1. /\ worker[w] = "running" /\ worker' = [worker EXCEPT ![w] = "top"]
        /\ UNCHANGED <<i_maps, instanced, served, todo, queue, value>>
    BY <1>6 DEF FinishUpdate
  <2>2. /\ w \in Held /\ Held' = Held \ {w} /\ InHand' = InHand \ {m} /\ Queued' = Queued
    BY <1>6, <2>1, HeldFinish DEF Queued
  <2>3. m \in Updating /\ m \in Maps
    BY <2>1, <2>2 DEF Updating, Held, IInv, TypeOK, Q!TypeOK
  <2>4. \A v \in Workers : v # w /\ worker[v] = "running" => value[v] # m
    BY <2>2 DEF Held, IInv, ThreadsOK, ExclusiveUpdate
  <2>5. Updating' = Updating \ {m}
    BY <2>1, <2>4 DEF Updating, IInv, TypeOK
  <2>6. Requested' = Queued' \cup InHand'
    BY DEF Requested, Queued, InHand
  <2>7. Requested' \ Updating' = Requested \ Updating
    BY <2>2, <2>3, <2>5, <2>6, RequestSets
  <2>8. (world = "schedule" <=> world' = "schedule") /\ InMapUpdate /\ InMapUpdate'
    BY <1>6, <2>2, Quiet DEF FinishUpdate, update_finished, WakeWorld, InMapUpdate
  <2>9. Due' = Due /\ Phase' = Phase
    BY <2>1, <2>7, <2>8 DEF Due, Phase
  <2>10. Tick!Finish(m) /\ m \in Tick!Maps
    BY <2>1, <2>3, <2>5, <2>9 DEF Tick!Finish, Tick!Maps, Maps
  <2> QED BY <2>10 DEF Tick!Next, Tick!MapPhase
<1>7. CASE CreateInUpdate(w)
  <2>1. UNCHANGED <<worker, value, queue, world, instanced>> /\ worker[w] = "running"
    BY <1>7 DEF CreateInUpdate
  <2>2. InMapUpdate
    BY <2>1, Quiet DEF Held, IInv, ThreadsOK
  <2>3. PICK new \in SUBSET BaseMaps, seen \in SUBSET BaseMaps :
           CreatedInUpdate(new, seen) /\ todo' = todo \cup seen /\ served' = served \cup (new \ seen)
    BY <1>7 DEF CreateInUpdate
  <2>4. /\ new \subseteq BaseMaps /\ seen \subseteq new /\ i_maps' = i_maps \cup new
        /\ new \cap i_maps = {} /\ (world # "schedule" => seen = {})
    BY <2>2, <2>3, CreatedFresh
  <2>5. Requested' = Requested /\ Updating' = Updating /\ Phase = "maps" /\ Phase' = Phase
    BY <2>1, <2>2, SameRequests DEF Phase, InMapUpdate
  <2>6. Due' = Due \cup seen
    BY <2>1, <2>3, <2>4, <2>5 DEF Due
  <2>7. new \in SUBSET (BaseMaps \ (i_maps \cup instanced))
    BY <2>4, MapsAssumption DEF IInv, TypeOK
  <2>8. (i_maps \cup instanced)' = (i_maps \cup instanced) \cup new
    BY <2>1, <2>4
  <2>9. Tick!CreateLate
    BY <2>3, <2>4, <2>5, <2>6, <2>7, <2>8 DEF Tick!CreateLate
  <2> QED BY <2>9 DEF Tick!Next
<1> QED BY <1>1, <1>2, <1>3, <1>4, <1>5, <1>6, <1>7
        DEF WorkerThread, InWaitAndPop, Tick!Next, Tick!MapPhase

\* The safety half of ImplementsMapTick: whatever the number of threads, every step
\* of the map updater is a step of MapTick or invisible to it.
THEOREM ImplementsMapTickSafety == Spec => Tick!Init /\ [][Tick!Next]_(Tick!vars)
<1>1. Init => Tick!Init
  <2> SUFFICES ASSUME Init PROVE Tick!Init
    OBVIOUS
  <2>1. Held = {} /\ queue = <<>> /\ \A w \in Workers : worker[w] # "running"
    BY DEF Init, Q!Init, Held
  <2> QED BY <2>1 DEF Init, Tick!Init, Phase, Due, Requested, Updating, InMapUpdate
<1>2. IInv /\ [Next]_vars => [Tick!Next]_(Tick!vars)
  <2> SUFFICES ASSUME IInv, [Next]_vars PROVE Tick!Next \/ UNCHANGED Tick!vars
    OBVIOUS
  <2>1. ASSUME Spurious \/ UNCHANGED vars PROVE UNCHANGED Tick!vars
    <3>1. /\ UNCHANGED <<worker, value, queue, served, i_maps, instanced, todo>>
          /\ (world = "schedule" <=> world' = "schedule")
          /\ UNCHANGED Phase
      BY <2>1 DEF Spurious, WaitSpurious, WakeWorld, QueueSpurious, Q!SpuriousWakeup, vars,
                  mapVars, workerVars, worldVars, queueVars, Phase, InMapUpdate
    <3> QED BY <3>1, SameRequests DEF Due, Tick!vars
  <2> QED BY <2>1, WorldRefinement, WorkerRefinement DEF Next, Terminated
<1> QED BY <1>1, <1>2, Invariance, PTL DEF Spec

=============================================================================

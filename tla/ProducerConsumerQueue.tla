------------------------ MODULE ProducerConsumerQueue ------------------------
(***************************************************************************)
(* common/Threading/ProducerConsumerQueue.h: the blocking queue behind the *)
(* map updater and behind every database worker pool.  _queueLock is held  *)
(* for the whole body of each member function except while a thread sleeps *)
(* in _condition.wait, so an action is one critical section: a function    *)
(* body, or the part of WaitAndPop on one side of the wait.                *)
(***************************************************************************)
EXTENDS Naturals, Sequences, FiniteSets

CONSTANTS
    Consumers,  \* threads that call WaitAndPop
    Items,      \* the pointers pushed
    NoItem      \* the nullptr every caller initialises its variable with

ASSUME ConsumersAssumption == IsFiniteSet(Consumers)
ASSUME NoItemAssumption == NoItem \notin Items

VARIABLES
    queue,      \* _queue
    shutdown,   \* _shutdown
    where,      \* where each consumer is in WaitAndPop
    value       \* the variable a consumer passed by reference

queueVars == <<queue, shutdown, where, value>>

\* "out": not in WaitAndPop.  "loop": about to take _queueLock and evaluate the
\* loop condition.  "wait": asleep in _condition.wait.
Places == {"out", "loop", "wait"}

At(place) == {c \in Consumers : where[c] = place}

TypeOK ==
    /\ queue \in Seq(Items)
    /\ shutdown \in BOOLEAN
    /\ where \in [Consumers -> Places]
    /\ value \in [Consumers -> Items \cup {NoItem}]

Init ==
    /\ queue = <<>>
    /\ shutdown = FALSE
    /\ where = [c \in Consumers |-> "out"]
    /\ value = [c \in Consumers |-> NoItem]

Wake(S) == where' = [c \in Consumers |-> IF c \in S THEN "loop" ELSE where[c]]

\* notify_one: some sleeper, or nobody when there is none.
NotifyOne ==
    \/ \E c \in At("wait") : Wake({c})
    \/ At("wait") = {} /\ UNCHANGED where

\* Mutant of Push: notifies only when the queue was empty.
PushNotifyIfEmpty(item) ==
    /\ queue' = Append(queue, item)
    /\ IF queue = <<>> THEN NotifyOne ELSE UNCHANGED where
    /\ UNCHANGED <<shutdown, value>>

Push(item) ==
    /\ queue' = Append(queue, item)
    /\ NotifyOne
    /\ UNCHANGED <<shutdown, value>>

\* Mutant of Call: `T* x;`, a variable that holds anything.
CallUninitialised(c) ==
    /\ where[c] = "out"
    /\ where' = [where EXCEPT ![c] = "loop"]
    /\ value' = [value EXCEPT ![c] = "garbage"]
    /\ UNCHANGED <<queue, shutdown>>

\* The caller's `T* x = nullptr;` and its call of WaitAndPop(x).
Call(c) ==
    /\ where[c] = "out"
    /\ where' = [where EXCEPT ![c] = "loop"]
    /\ value' = [value EXCEPT ![c] = NoItem]
    /\ UNCHANGED <<queue, shutdown>>

\* The loop condition holds: wait releases the lock and sleeps, atomically.
Wait(c) ==
    /\ where[c] = "loop"
    /\ queue = <<>>
    /\ ~shutdown
    /\ where' = [where EXCEPT ![c] = "wait"]
    /\ UNCHANGED <<queue, shutdown, value>>

\* Mutant of Take: the second test of _shutdown is missing.
TakeAfterShutdown(c) ==
    /\ where[c] = "loop"
    /\ queue # <<>>
    /\ value' = [value EXCEPT ![c] = Head(queue)]
    /\ queue' = Tail(queue)
    /\ where' = [where EXCEPT ![c] = "out"]
    /\ UNCHANGED shutdown

Take(c) ==
    /\ where[c] = "loop"
    /\ queue # <<>>
    /\ ~shutdown
    /\ value' = [value EXCEPT ![c] = Head(queue)]
    /\ queue' = Tail(queue)
    /\ where' = [where EXCEPT ![c] = "out"]
    /\ UNCHANGED shutdown

\* The early return after the loop: the caller's variable is left untouched.
GiveUp(c) ==
    /\ where[c] = "loop"
    /\ shutdown
    /\ where' = [where EXCEPT ![c] = "out"]
    /\ UNCHANGED <<queue, shutdown, value>>

\* What a thread does inside WaitAndPop whenever it gets _queueLock.
WaitAndPop(c) == Wait(c) \/ Take(c) \/ GiveUp(c)

\* Pop: the variant that never sleeps; it returns false where this is disabled.
Pop(c) ==
    /\ where[c] = "out"
    /\ queue # <<>>
    /\ ~shutdown
    /\ value' = [value EXCEPT ![c] = Head(queue)]
    /\ queue' = Tail(queue)
    /\ UNCHANGED <<shutdown, where>>

\* A condition variable may wake without a notification.
SpuriousWakeup(c) ==
    /\ where[c] = "wait"
    /\ Wake({c})
    /\ UNCHANGED <<queue, shutdown, value>>

\* Mutant of Cancel: notify_one for notify_all.
CancelNotifyOne ==
    /\ queue' = <<>>
    /\ shutdown' = TRUE
    /\ NotifyOne
    /\ UNCHANGED value

\* Every object still queued is deleted without being run.
Cancel ==
    /\ queue' = <<>>
    /\ shutdown' = TRUE
    /\ Wake(At("wait"))
    /\ UNCHANGED value

=============================================================================

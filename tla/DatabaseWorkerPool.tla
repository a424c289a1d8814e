-------------------------- MODULE DatabaseWorkerPool --------------------------
(***************************************************************************)
(* The asynchronous half of a database pool: callers that enqueue          *)
(* statements and queries (DatabaseWorkerPool), the worker threads that    *)
(* execute them (DatabaseWorker), and the callbacks that take the results, *)
(* possibly in chains of queries (QueryCallback, AsyncCallbackProcessor).  *)
(*                                                                         *)
(* The queue between callers and workers is WorkQueue, the contract that   *)
(* ProducerConsumerQueue is shown to implement.  What one operation does   *)
(* on its connection is the subject of SqlTransaction; here it is a step.  *)
(***************************************************************************)
EXTENDS Naturals, Sequences, FiniteSets

CONSTANTS
    Workers,     \* DatabaseWorkers, one per asynchronous connection
    Clients,     \* who saves and loads: a session, and the records it owns
    Stages,      \* callbacks chained to one query, at most
    MaxSaves,    \* bounds of the model, per client
    MaxQueries,
    NoOperation  \* the null operation

ASSUME WorkersAssumption == IsFiniteSet(Workers)
ASSUME BoundsAssumption ==
    /\ Stages \in Nat \ {0}
    /\ MaxSaves \in Nat
    /\ MaxQueries \in Nat

\* A save is the version-th one of its client.  A load follows `version` saves of its
\* client and answers the client's query number `query`.
Saves == [kind : {"save"}, client : Clients, version : 1 .. MaxSaves]
Loads == [kind : {"load"}, client : Clients, version : 0 .. MaxSaves, query : 1 .. MaxQueries]
Operations == Saves \cup Loads

ASSUME NoOperationAssumption == NoOperation \notin Operations

VARIABLES
    queue, closed, asking, answer,   \* the queue of SQLOperations
    worker,     \* where each worker thread is
    token,      \* _cancelationToken of each worker
    closer,     \* where the thread that closes the pool is
    victim,     \* the worker being destroyed
    remaining,  \* connections still to be destroyed
    saved,      \* saves enqueued, per client
    executed,   \* the versions of the saves executed, per client
    asked,      \* queries begun, per client
    future,     \* per client and query
    callbacks,  \* _callbacks, per client
    scan,       \* what remains of updateCallbacks
    kept,       \* what of updateCallbacks is not removed
    place       \* where each client is in ProcessReadyCallbacks

queueVars == <<queue, closed, asking, answer>>
workerVars == <<worker, token>>
closeVars == <<closer, victim, remaining>>
callbackVars == <<callbacks, scan, kept, place>>
vars == <<queueVars, workerVars, closeVars, callbackVars, saved, executed, asked, future>>

\* Every operation a client can enqueue fits in the queue: the bound is never met.
Capacity == Cardinality(Clients) * (MaxSaves + MaxQueries * Stages)

Q == INSTANCE WorkQueue WITH
    Consumers <- Workers, Items <- Operations, NoItem <- NoOperation

Callbacks == [query : 1 .. MaxQueries, stage : 1 .. Stages]

TypeOK ==
    /\ queue \in Seq(Operations)
    /\ closed \in BOOLEAN
    /\ asking \subseteq Workers
    /\ answer \in [Workers -> Operations \cup {NoOperation}]
    /\ worker \in [Workers -> {"top", "pop", "check", "call", "exited"}]
    /\ token \in [Workers -> BOOLEAN]
    /\ closer \in {"open", "next", "cancel", "join", "closed"}
    /\ victim \in Workers
    /\ remaining \subseteq Workers
    /\ saved \in [Clients -> 0 .. MaxSaves]
    /\ executed \in [Clients -> SUBSET (1 .. MaxSaves)]
    /\ asked \in [Clients -> 0 .. MaxQueries]
    /\ future \in [Clients -> [1 .. MaxQueries -> {"none", "pending", "ready"}]]
    /\ callbacks \in [Clients -> Seq(Callbacks)]
    /\ scan \in [Clients -> Seq(Callbacks)]
    /\ kept \in [Clients -> Seq(Callbacks)]
    /\ place \in [Clients -> {"idle", "scan", "callback"}]

Init ==
    /\ Q!Init
    /\ worker = [w \in Workers |-> "top"]
    /\ token = [w \in Workers |-> FALSE]
    /\ closer = "open"
    /\ victim \in Workers
    /\ remaining = Workers
    /\ saved = [c \in Clients |-> 0]
    /\ executed = [c \in Clients |-> {}]
    /\ asked = [c \in Clients |-> 0]
    /\ future = [c \in Clients |-> [q \in 1 .. MaxQueries |-> "none"]]
    /\ callbacks = [c \in Clients |-> <<>>]
    /\ scan = [c \in Clients |-> <<>>]
    /\ kept = [c \in Clients |-> <<>>]
    /\ place = [c \in Clients |-> "idle"]

-----------------------------------------------------------------------------
(* Callers: the world thread, or the map update thread that runs a session. *)

\* A client makes requests while it runs packets and timers, and inside a callback.
Requesting(c) == closer = "open" /\ place[c] \in {"idle", "callback"}

\* Execute, and CommitTransaction.
Save(c) ==
    /\ Requesting(c)
    /\ saved[c] < MaxSaves
    /\ saved' = [saved EXCEPT ![c] = @ + 1]
    /\ Q!Put([kind |-> "save", client |-> c, version |-> saved[c] + 1])
    /\ UNCHANGED <<workerVars, closeVars, callbackVars, executed, asked, future>>

\* Mutant of EnqueueLoad: somebody waits for a query, so it goes to the front.
EnqueueLoadFirst(c, q) ==
    /\ future' = [future EXCEPT ![c][q] = "pending"]
    /\ queue' = <<[kind |-> "load", client |-> c, version |-> saved[c], query |-> q]>> \o queue
    /\ UNCHANGED <<closed, asking, answer>>

\* The future is taken from the task before the task is enqueued.
EnqueueLoad(c, q) ==
    /\ future' = [future EXCEPT ![c][q] = "pending"]
    /\ Q!Put([kind |-> "load", client |-> c, version |-> saved[c], query |-> q])

\* AsyncQuery (or DelayQueryHolder) and AddCallback.
Query(c) ==
    /\ Requesting(c)
    /\ asked[c] < MaxQueries
    /\ asked' = [asked EXCEPT ![c] = @ + 1]
    /\ EnqueueLoad(c, asked[c] + 1)
    /\ callbacks' = [callbacks EXCEPT ![c] = Append(@, [query |-> asked[c] + 1, stage |-> 1])]
    /\ UNCHANGED <<workerVars, closeVars, scan, kept, place, saved, executed>>

\* The session is deleted, and its callbacks and their futures with it; its operations
\* stay queued, and a new session of the same player may follow.
Leave(c) ==
    /\ closer = "open"
    /\ place[c] = "idle"
    /\ callbacks[c] # <<>>
    /\ callbacks' = [callbacks EXCEPT ![c] = <<>>]
    /\ future' = [future EXCEPT ![c] = [q \in 1 .. MaxQueries |-> "none"]]
    /\ UNCHANGED <<queueVars, workerVars, closeVars, scan, kept, place, saved, executed, asked>>

-----------------------------------------------------------------------------
(* AsyncCallbackProcessor::ProcessReadyCallbacks, run by client c.         *)

ProcessReadyCallbacks(c) ==
    /\ closer = "open"
    /\ place[c] = "idle"
    /\ callbacks[c] # <<>>
    /\ place' = [place EXCEPT ![c] = "scan"]
    /\ scan' = [scan EXCEPT ![c] = callbacks[c]]
    /\ callbacks' = [callbacks EXCEPT ![c] = <<>>]
    /\ UNCHANGED <<queueVars, workerVars, closeVars, kept, saved, executed, asked, future>>

Current(c) == Head(scan[c])

\* InvokeIfReady returns false: wait_for(0) says the result is not there.
NotReady(c) ==
    /\ place[c] = "scan"
    /\ scan[c] # <<>>
    /\ future[c][Current(c).query] # "ready"
    /\ kept' = [kept EXCEPT ![c] = Append(@, Current(c))]
    /\ scan' = [scan EXCEPT ![c] = Tail(@)]
    /\ UNCHANGED <<queueVars, workerVars, closeVars, callbacks, place, saved, executed, asked, future>>

\* The future is moved out, and the callback called with its result.
Invoke(c) ==
    /\ place[c] = "scan"
    /\ scan[c] # <<>>
    /\ future[c][Current(c).query] = "ready"
    /\ future' = [future EXCEPT ![c][Current(c).query] = "none"]
    /\ place' = [place EXCEPT ![c] = "callback"]
    /\ UNCHANGED <<queueVars, workerVars, closeVars, callbacks, scan, kept, saved, executed, asked>>

\* The callback returns without a next query: the chain is complete, or abandoned.
EndChain(c) ==
    /\ place[c] = "callback"
    /\ place' = [place EXCEPT ![c] = "scan"]
    /\ scan' = [scan EXCEPT ![c] = Tail(@)]
    /\ UNCHANGED <<queueVars, workerVars, closeVars, callbacks, kept, saved, executed, asked, future>>

\* Mutant of NextQuery: a chain goes on past its last callback.
NextQueryUnbounded(c) ==
    /\ place[c] = "callback"
    /\ Current(c).stage <= Stages
    /\ EnqueueLoad(c, Current(c).query)
    /\ kept' = [kept EXCEPT ![c] = Append(@, [Current(c) EXCEPT !.stage = @ + 1])]
    /\ scan' = [scan EXCEPT ![c] = Tail(@)]
    /\ place' = [place EXCEPT ![c] = "scan"]
    /\ UNCHANGED <<workerVars, closeVars, callbacks, saved, executed, asked>>

\* The callback has called AsyncQuery and SetNextQuery for the callback after it.
NextQuery(c) ==
    /\ place[c] = "callback"
    /\ Current(c).stage < Stages
    /\ EnqueueLoad(c, Current(c).query)
    /\ kept' = [kept EXCEPT ![c] = Append(@, [Current(c) EXCEPT !.stage = @ + 1])]
    /\ scan' = [scan EXCEPT ![c] = Tail(@)]
    /\ place' = [place EXCEPT ![c] = "scan"]
    /\ UNCHANGED <<workerVars, closeVars, callbacks, saved, executed, asked>>

\* Mutant of EndProcessing: _callbacks is assigned what is left, not extended.
EndProcessingOverwriting(c) ==
    /\ place[c] = "scan"
    /\ scan[c] = <<>>
    /\ callbacks' = [callbacks EXCEPT ![c] = kept[c]]
    /\ kept' = [kept EXCEPT ![c] = <<>>]
    /\ place' = [place EXCEPT ![c] = "idle"]
    /\ UNCHANGED <<queueVars, workerVars, closeVars, scan, saved, executed, asked, future>>

\* What is left goes behind the callbacks that callbacks have added.
EndProcessing(c) ==
    /\ place[c] = "scan"
    /\ scan[c] = <<>>
    /\ callbacks' = [callbacks EXCEPT ![c] = @ \o kept[c]]
    /\ kept' = [kept EXCEPT ![c] = <<>>]
    /\ place' = [place EXCEPT ![c] = "idle"]
    /\ UNCHANGED <<queueVars, workerVars, closeVars, scan, saved, executed, asked, future>>

-----------------------------------------------------------------------------
(* DatabaseWorker::WorkerThread.                                           *)

CallWaitAndPop(w) ==
    /\ worker[w] = "top"
    /\ worker' = [worker EXCEPT ![w] = "pop"]
    /\ Q!Ask(w)
    /\ UNCHANGED <<token, closeVars, callbackVars, saved, executed, asked, future>>

ReturnFromWaitAndPop(w) ==
    /\ worker[w] = "pop"
    /\ worker' = [worker EXCEPT ![w] = "check"]
    /\ Q!Hand(w) \/ Q!TurnAway(w)
    /\ UNCHANGED <<token, closeVars, callbackVars, saved, executed, asked, future>>

\* `if (_cancelationToken || !operation) return;`: an operation in hand is neither
\* executed nor deleted.
Exit(w) ==
    /\ worker[w] = "check"
    /\ token[w] \/ answer[w] = NoOperation
    /\ worker' = [worker EXCEPT ![w] = "exited"]
    /\ UNCHANGED <<queueVars, token, closeVars, callbackVars, saved, executed, asked, future>>

BeginCall(w) ==
    /\ worker[w] = "check"
    /\ ~token[w]
    /\ answer[w] # NoOperation
    /\ worker' = [worker EXCEPT ![w] = "call"]
    /\ UNCHANGED <<queueVars, token, closeVars, callbackVars, saved, executed, asked, future>>

\* Mutant of Call: the promise of a query without rows is not set.
CallWithoutResult(w) ==
    /\ worker[w] = "call"
    /\ worker' = [worker EXCEPT ![w] = "top"]
    /\ IF answer[w].kind = "save"
         THEN executed' = [executed EXCEPT ![answer[w].client] = @ \cup {answer[w].version}]
         ELSE UNCHANGED executed
    /\ UNCHANGED <<queueVars, token, closeVars, callbackVars, saved, asked, future>>

\* operation->call(); delete operation.  A save is executed once, whether or not the
\* server accepts it; a load sets its promise, with rows or without, whether or not
\* anybody still holds the future.
Call(w) ==
    LET op == answer[w] IN
    /\ worker[w] = "call"
    /\ worker' = [worker EXCEPT ![w] = "top"]
    /\ \/ /\ op.kind = "save"
          /\ executed' = [executed EXCEPT ![op.client] = @ \cup {op.version}]
          /\ UNCHANGED future
       \/ /\ op.kind = "load"
          /\ future' = [future EXCEPT ![op.client][op.query] =
                            IF @ = "pending" THEN "ready" ELSE @]
          /\ UNCHANGED executed
    /\ UNCHANGED <<queueVars, token, closeVars, callbackVars, saved, asked>>

-----------------------------------------------------------------------------
(* DatabaseWorkerPool::Close: the connections are destroyed one by one, and *)
(* each destroys its worker first.                                         *)

\* StopDB, after the last session is gone.
Close ==
    /\ closer = "open"
    /\ \A c \in Clients : place[c] = "idle"
    /\ closer' = "next"
    /\ UNCHANGED <<queueVars, workerVars, victim, remaining, callbackVars, saved, executed, asked, future>>

\* ~DatabaseWorker: the token, the queue, the thread.
SetToken(w) ==
    /\ closer = "next"
    /\ w \in remaining
    /\ token' = [token EXCEPT ![w] = TRUE]
    /\ victim' = w
    /\ closer' = "cancel"
    /\ UNCHANGED <<queueVars, worker, remaining, callbackVars, saved, executed, asked, future>>

\* Mutant of CancelQueue: the queue is left to be emptied by the workers.
CancelNothing ==
    /\ closer = "cancel"
    /\ closer' = "join"
    /\ UNCHANGED <<queueVars, workerVars, victim, remaining, callbackVars, saved, executed, asked, future>>

CancelQueue ==
    /\ closer = "cancel"
    /\ Q!Close
    /\ closer' = "join"
    /\ UNCHANGED <<workerVars, victim, remaining, callbackVars, saved, executed, asked, future>>

Join ==
    /\ closer = "join"
    /\ worker[victim] = "exited"
    /\ remaining' = remaining \ {victim}
    /\ closer' = "next"
    /\ UNCHANGED <<queueVars, workerVars, victim, callbackVars, saved, executed, asked, future>>

EndClose ==
    /\ closer = "next"
    /\ remaining = {}
    /\ closer' = "closed"
    /\ UNCHANGED <<queueVars, workerVars, victim, remaining, callbackVars, saved, executed, asked, future>>

-----------------------------------------------------------------------------
ClientThread(c) ==
    \/ ProcessReadyCallbacks(c) \/ NotReady(c) \/ Invoke(c)
    \/ EndChain(c) \/ NextQuery(c) \/ EndProcessing(c)

WorkerThread(w) ==
    CallWaitAndPop(w) \/ ReturnFromWaitAndPop(w) \/ Exit(w) \/ BeginCall(w) \/ Call(w)

Closing == (\E w \in Workers : SetToken(w)) \/ CancelQueue \/ Join \/ EndClose

Terminated == closer = "closed" /\ UNCHANGED vars

Next ==
    \/ \E c \in Clients : Save(c) \/ Query(c) \/ Leave(c) \/ ClientThread(c)
    \/ \E w \in Workers : WorkerThread(w)
    \/ Close
    \/ Closing
    \/ Terminated

\* Sessions are updated, and threads take their steps.
Fairness ==
    /\ \A c \in Clients : WF_vars(ClientThread(c))
    /\ \A w \in Workers : WF_vars(WorkerThread(w))
    /\ WF_vars(Closing)

Spec == Init /\ [][Next]_vars /\ Fairness

-----------------------------------------------------------------------------
InHand(w) == worker[w] \in {"check", "call"} /\ answer[w] # NoOperation

SavesInHand(c) ==
    {answer[w].version : w \in {v \in Workers :
        InHand(v) /\ answer[v].kind = "save" /\ answer[v].client = c}}

\* A load misses no save its client enqueued before it but those that other workers
\* are executing at the moment.  With one worker, the default, it misses none: a player
\* who logs in again loads what the logout saved.
LoadsSeeSaves ==
    closer = "open" =>
        \A w \in Workers : InHand(w) /\ answer[w].kind = "load" =>
            1 .. answer[w].version \subseteq
                executed[answer[w].client] \cup SavesInHand(answer[w].client)

\* The callbacks a client has not been through.
Waiting(c) == callbacks[c] \o kept[c] \o scan[c]

Pipeline(c, q) ==
    {k \in DOMAIN queue : queue[k].kind = "load" /\ queue[k].client = c /\ queue[k].query = q}
      \cup {w \in Workers : InHand(w) /\ answer[w].kind = "load"
                              /\ answer[w].client = c /\ answer[w].query = q}

Awaited(c, q) ==
    /\ \E k \in DOMAIN Waiting(c) : Waiting(c)[k].query = q
    /\ ~(place[c] = "callback" /\ Current(c).query = q)

\* No callback is lost or doubled while callbacks ask more queries, sessions come and
\* go and results arrive in between (AddCallback, ProcessReadyCallbacks): every future
\* has exactly one callback that waits for it, and a future that is not ready has
\* exactly one load on the way to set it, a ready one none.
NoCallbackLost ==
    closer = "open" => \A c \in Clients :
        /\ \A j, k \in DOMAIN Waiting(c) : j # k => Waiting(c)[j].query # Waiting(c)[k].query
        /\ \A q \in 1 .. MaxQueries :
              /\ future[c][q] # "none" <=> Awaited(c, q)
              /\ future[c][q] = "pending" => Cardinality(Pipeline(c, q)) = 1
              /\ future[c][q] = "ready" => Pipeline(c, q) = {}

\* Every callback that waits is called with its result, unless its session is deleted
\* or the pool is closed: no result is forgotten, and no callback is passed over for
\* ever while others are added (InvokeIfReady, PreparedStatementTask::Execute).
CallbacksRun ==
    \A c \in Clients, q \in 1 .. MaxQueries :
        (\E k \in DOMAIN callbacks[c] : callbacks[c][k].query = q) ~>
            \/ place[c] = "callback" /\ Current(c).query = q
            \/ place[c] = "idle" /\ callbacks[c] = <<>>
            \/ closer # "open"

\* DatabaseWorkerPool::Close ends, whatever the workers are doing when it begins and
\* whatever is still queued: every ~DatabaseWorker joins its thread.
CloseEnds == closer = "next" ~> closer = "closed"

\* What was saved while players were kicked has reached the database when the pool is
\* closed (Main.cpp: "save and kick all players", then StopDB).
SavedBeforeClose ==
    closer = "closed" => \A c \in Clients : executed[c] = 1 .. saved[c]

=============================================================================

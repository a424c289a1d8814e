---------------------- MODULE DatabaseWorkerPoolProofs ----------------------
(***************************************************************************)
(* Proofs about DatabaseWorkerPool, for any workers, any clients and any   *)
(* bounds on what the clients save and ask.  The last part is about        *)
(* callbacks: none is lost, none is called twice, and each has exactly one *)
(* query on the way to it.                                                 *)
(***************************************************************************)
EXTENDS DatabaseWorkerPool, FiniteSetTheorems, TLAPS

-----------------------------------------------------------------------------
(* Types.                                                                  *)

\* A callback that runs is the first of those still to be looked at.
ScanOK == \A c \in Clients : place[c] = "callback" => scan[c] # <<>>

\* A worker that calls has an operation, and only a worker in WaitAndPop is asking.
HandOK ==
    /\ \A w \in Workers : worker[w] = "call" => answer[w] # NoOperation
    /\ \A w \in asking : worker[w] = "pop"

\* Nobody tells a worker to stop while the pool is open.
RunningOK == closer = "open" => ~closed /\ \A w \in Workers : ~token[w]

TInv == TypeOK /\ ScanOK /\ HandOK /\ RunningOK

\* The operations a client enqueues are operations.
LEMMA OperationTypes ==
    /\ \A c \in Clients, v \in 1 .. MaxSaves :
          [kind |-> "save", client |-> c, version |-> v] \in Operations
    /\ \A c \in Clients, v \in 0 .. MaxSaves, q \in 1 .. MaxQueries :
          [kind |-> "load", client |-> c, version |-> v, query |-> q] \in Operations
BY DEF Operations, Saves, Loads

\* What an operation in the queue or in hand can be.
LEMMA OperationKinds ==
    ASSUME NEW op \in Operations
    PROVE  /\ op.client \in Clients
           /\ op.kind = "save" => op.version \in 1 .. MaxSaves
           /\ op.kind = "load" => op.version \in 0 .. MaxSaves /\ op.query \in 1 .. MaxQueries
           /\ op.kind \in {"save", "load"}
BY DEF Operations, Saves, Loads

\* A load on its way.
LEMMA EnqueueType ==
    ASSUME TypeOK, NEW c \in Clients, NEW q \in 1 .. MaxQueries, EnqueueLoad(c, q)
    PROVE  /\ queue' \in Seq(Operations)
           /\ future' \in [Clients -> [1 .. MaxQueries -> {"none", "pending", "ready"}]]
           /\ UNCHANGED <<closed, asking, answer>>
<1>1. [kind |-> "load", client |-> c, version |-> saved[c], query |-> q] \in Operations
  BY OperationTypes DEF TypeOK
<1>2. queue' \in Seq(Operations)
  BY <1>1 DEF EnqueueLoad, Q!Put, TypeOK
<1>3. future' \in [Clients -> [1 .. MaxQueries -> {"none", "pending", "ready"}]]
  BY DEF EnqueueLoad, TypeOK
<1> QED BY <1>2, <1>3 DEF EnqueueLoad, Q!Put

\* The callback being looked at.
LEMMA CurrentType ==
    ASSUME TypeOK, NEW c \in Clients, scan[c] # <<>>
    PROVE  Current(c) \in Callbacks /\ Tail(scan[c]) \in Seq(Callbacks)
<1>1. scan[c] \in Seq(Callbacks)
  BY DEF TypeOK
<1> QED BY <1>1 DEF Current

-----------------------------------------------------------------------------
\* The initial states.
LEMMA TypeInit == Init => TInv
<1> SUFFICES ASSUME Init PROVE TInv
  OBVIOUS
<1>1. /\ queue \in Seq(Operations) /\ closed \in BOOLEAN /\ asking \subseteq Workers
      /\ answer \in [Workers -> Operations \cup {NoOperation}]
  <2>1. queue = <<>> /\ ~closed /\ closed = FALSE /\ asking = {}
    BY DEF Init, Q!Init
  <2>2. answer = [w \in Workers |-> NoOperation]
    BY DEF Init, Q!Init
  <2>3. <<>> \in Seq(Operations)
    OBVIOUS
  <2> QED BY <2>1, <2>2, <2>3
<1>2. /\ worker \in [Workers -> {"top", "pop", "check", "call", "exited"}]
      /\ token \in [Workers -> BOOLEAN]
      /\ closer \in {"open", "next", "cancel", "join", "closed"}
      /\ victim \in Workers /\ remaining \subseteq Workers
  BY DEF Init
<1>3. /\ saved \in [Clients -> 0 .. MaxSaves]
      /\ executed \in [Clients -> SUBSET (1 .. MaxSaves)]
      /\ asked \in [Clients -> 0 .. MaxQueries]
  BY BoundsAssumption DEF Init
<1>4. future \in [Clients -> [1 .. MaxQueries -> {"none", "pending", "ready"}]]
  BY DEF Init
<1>5. /\ callbacks \in [Clients -> Seq(Callbacks)]
      /\ scan \in [Clients -> Seq(Callbacks)]
      /\ kept \in [Clients -> Seq(Callbacks)]
      /\ place \in [Clients -> {"idle", "scan", "callback"}]
  BY DEF Init
<1>6. ScanOK /\ HandOK /\ RunningOK
  BY DEF Init, Q!Init, ScanOK, HandOK, RunningOK
<1> QED BY <1>1, <1>2, <1>3, <1>4, <1>5, <1>6 DEF TInv, TypeOK

\* The steps of the callers.
LEMMA ClientTypeStep ==
    ASSUME TInv, NEW c \in Clients, Save(c) \/ Query(c) \/ Leave(c) \/ ClientThread(c)
    PROVE  TInv'
<1> USE DEF TInv
<1>1. CASE Save(c)
  <2>1. saved[c] + 1 \in 1 .. MaxSaves /\ saved[c] \in Nat
    BY <1>1, BoundsAssumption DEF Save, TypeOK
  <2>2. queue' \in Seq(Operations)
    BY <1>1, <2>1, OperationTypes DEF Save, Q!Put, TypeOK
  <2>3. saved' \in [Clients -> 0 .. MaxSaves]
    BY <1>1, <2>1, BoundsAssumption DEF Save, TypeOK
  <2> QED BY <1>1, <2>2, <2>3 DEF Save, Q!Put, workerVars, closeVars, callbackVars,
            TypeOK, ScanOK, HandOK, RunningOK
<1>2. CASE Query(c)
  <2>1. asked[c] + 1 \in 1 .. MaxQueries /\ 1 \in 1 .. Stages
    BY <1>2, BoundsAssumption DEF Query, TypeOK
  <2>2. /\ queue' \in Seq(Operations)
        /\ future' \in [Clients -> [1 .. MaxQueries -> {"none", "pending", "ready"}]]
        /\ UNCHANGED <<closed, asking, answer>>
    BY <1>2, <2>1, EnqueueType DEF Query
  <2>3. asked' \in [Clients -> 0 .. MaxQueries]
    BY <1>2, <2>1 DEF Query, TypeOK
  <2>4. callbacks' \in [Clients -> Seq(Callbacks)]
    <3>1. [query |-> asked[c] + 1, stage |-> 1] \in Callbacks
      BY <2>1 DEF Callbacks
    <3> QED BY <1>2, <3>1 DEF Query, TypeOK
  <2> QED BY <1>2, <2>2, <2>3, <2>4 DEF Query, workerVars, closeVars,
            TypeOK, ScanOK, HandOK, RunningOK
<1>3. CASE Leave(c)
  <2>1. callbacks' \in [Clients -> Seq(Callbacks)]
    BY <1>3 DEF Leave, TypeOK
  <2>2. future' \in [Clients -> [1 .. MaxQueries -> {"none", "pending", "ready"}]]
    BY <1>3 DEF Leave, TypeOK
  <2> QED BY <1>3, <2>1, <2>2 DEF Leave, queueVars, workerVars, closeVars,
            TypeOK, ScanOK, HandOK, RunningOK
<1>4. CASE ProcessReadyCallbacks(c)
  <2>1. /\ callbacks' \in [Clients -> Seq(Callbacks)]
        /\ scan' \in [Clients -> Seq(Callbacks)]
        /\ place' \in [Clients -> {"idle", "scan", "callback"}]
    BY <1>4 DEF ProcessReadyCallbacks, TypeOK
  <2>2. ScanOK'
    BY <1>4 DEF ProcessReadyCallbacks, TypeOK, ScanOK
  <2> QED BY <1>4, <2>1, <2>2 DEF ProcessReadyCallbacks, queueVars, workerVars, closeVars,
            TypeOK, HandOK, RunningOK
<1>5. CASE NotReady(c)
  <2>1. Current(c) \in Callbacks /\ Tail(scan[c]) \in Seq(Callbacks)
    BY <1>5, CurrentType DEF NotReady
  <2>2. kept' \in [Clients -> Seq(Callbacks)] /\ scan' \in [Clients -> Seq(Callbacks)]
    BY <1>5, <2>1 DEF NotReady, TypeOK
  <2>3. ScanOK'
    BY <1>5 DEF NotReady, TypeOK, ScanOK
  <2> QED BY <1>5, <2>2, <2>3 DEF NotReady, queueVars, workerVars, closeVars,
            TypeOK, HandOK, RunningOK
<1>6. CASE Invoke(c)
  <2>1. Current(c) \in Callbacks
    BY <1>6, CurrentType DEF Invoke
  <2>2. /\ future' \in [Clients -> [1 .. MaxQueries -> {"none", "pending", "ready"}]]
        /\ place' \in [Clients -> {"idle", "scan", "callback"}]
    BY <1>6, <2>1 DEF Invoke, TypeOK, Callbacks
  <2>3. ScanOK'
    BY <1>6 DEF Invoke, TypeOK, ScanOK
  <2> QED BY <1>6, <2>2, <2>3 DEF Invoke, queueVars, workerVars, closeVars,
            TypeOK, HandOK, RunningOK
<1>7. CASE EndChain(c)
  <2>1. Tail(scan[c]) \in Seq(Callbacks)
    BY <1>7, CurrentType DEF EndChain, ScanOK
  <2>2. /\ scan' \in [Clients -> Seq(Callbacks)]
        /\ place' \in [Clients -> {"idle", "scan", "callback"}]
    BY <1>7, <2>1 DEF EndChain, TypeOK
  <2>3. ScanOK'
    BY <1>7 DEF EndChain, TypeOK, ScanOK
  <2> QED BY <1>7, <2>2, <2>3 DEF EndChain, queueVars, workerVars, closeVars,
            TypeOK, HandOK, RunningOK
<1>8. CASE NextQuery(c)
  <2>1. Current(c) \in Callbacks /\ Tail(scan[c]) \in Seq(Callbacks)
    BY <1>8, CurrentType DEF NextQuery, ScanOK
  <2>2. [Current(c) EXCEPT !.stage = @ + 1] \in Callbacks
    BY <1>8, <2>1, BoundsAssumption, SMTT(40) DEF NextQuery, Callbacks
  <2>3. /\ queue' \in Seq(Operations)
        /\ future' \in [Clients -> [1 .. MaxQueries -> {"none", "pending", "ready"}]]
        /\ UNCHANGED <<closed, asking, answer>>
    <3>1. Current(c).query \in 1 .. MaxQueries
      BY <2>1 DEF Callbacks
    <3> QED BY <1>8, <3>1, EnqueueType DEF NextQuery
  <2>4. /\ kept' \in [Clients -> Seq(Callbacks)]
        /\ scan' \in [Clients -> Seq(Callbacks)]
        /\ place' \in [Clients -> {"idle", "scan", "callback"}]
    BY <1>8, <2>1, <2>2 DEF NextQuery, TypeOK
  <2>5. ScanOK'
    BY <1>8 DEF NextQuery, TypeOK, ScanOK
  <2> QED BY <1>8, <2>3, <2>4, <2>5 DEF NextQuery, workerVars, closeVars,
            TypeOK, HandOK, RunningOK
<1>9. CASE EndProcessing(c)
  <2>1. /\ callbacks' \in [Clients -> Seq(Callbacks)]
        /\ kept' \in [Clients -> Seq(Callbacks)]
        /\ place' \in [Clients -> {"idle", "scan", "callback"}]
    BY <1>9 DEF EndProcessing, TypeOK
  <2>2. ScanOK'
    BY <1>9 DEF EndProcessing, TypeOK, ScanOK
  <2> QED BY <1>9, <2>1, <2>2 DEF EndProcessing, queueVars, workerVars, closeVars,
            TypeOK, HandOK, RunningOK
<1> QED BY <1>1, <1>2, <1>3, <1>4, <1>5, <1>6, <1>7, <1>8, <1>9 DEF ClientThread

\* The steps of the worker threads.
LEMMA WorkerTypeStep ==
    ASSUME TInv, NEW w \in Workers, WorkerThread(w)
    PROVE  TInv'
<1> USE DEF TInv, closeVars, callbackVars
<1>1. CASE CallWaitAndPop(w)
  BY <1>1 DEF CallWaitAndPop, Q!Ask, TypeOK, ScanOK, HandOK, RunningOK
<1>2. CASE ReturnFromWaitAndPop(w)
  <2>1. CASE Q!Hand(w)
    <3>1. Head(queue) \in Operations /\ queue' \in Seq(Operations)
      BY <2>1 DEF Q!Hand, TypeOK
    <3> QED BY <1>2, <2>1, <3>1 DEF ReturnFromWaitAndPop, Q!Hand, TypeOK, ScanOK, HandOK, RunningOK
  <2>2. CASE Q!TurnAway(w)
    BY <1>2, <2>2 DEF ReturnFromWaitAndPop, Q!TurnAway, TypeOK, ScanOK, HandOK, RunningOK
  <2> QED BY <1>2, <2>1, <2>2 DEF ReturnFromWaitAndPop
<1>3. CASE Exit(w)
  BY <1>3 DEF Exit, queueVars, TypeOK, ScanOK, HandOK, RunningOK
<1>4. CASE BeginCall(w)
  BY <1>4 DEF BeginCall, queueVars, TypeOK, ScanOK, HandOK, RunningOK
<1>5. CASE Call(w)
  <2>1. answer[w] \in Operations
    BY <1>5 DEF Call, TypeOK, HandOK
  <2>2. CASE answer[w].kind = "save"
    <3>1. answer[w].version \in 1 .. MaxSaves /\ answer[w].client \in Clients
      BY <2>1, <2>2, OperationKinds
    <3>2. /\ executed' = [executed EXCEPT ![answer[w].client] = @ \cup {answer[w].version}]
          /\ UNCHANGED future
      BY <1>5, <2>2 DEF Call
    <3>3. executed' \in [Clients -> SUBSET (1 .. MaxSaves)]
      BY <3>1, <3>2 DEF TypeOK
    <3> QED BY <1>5, <3>2, <3>3 DEF Call, queueVars, TypeOK, ScanOK, HandOK, RunningOK
  <2>3. CASE answer[w].kind = "load"
    <3>1. answer[w].query \in 1 .. MaxQueries /\ answer[w].client \in Clients
      BY <2>1, <2>3, OperationKinds
    <3>2. /\ future' = [future EXCEPT ![answer[w].client][answer[w].query] =
                            IF @ = "pending" THEN "ready" ELSE @]
          /\ UNCHANGED executed
      BY <1>5, <2>3 DEF Call
    <3>3. future' \in [Clients -> [1 .. MaxQueries -> {"none", "pending", "ready"}]]
      BY <3>1, <3>2 DEF TypeOK
    <3> QED BY <1>5, <3>2, <3>3 DEF Call, queueVars, TypeOK, ScanOK, HandOK, RunningOK
  <2> QED BY <1>5, <2>2, <2>3 DEF Call
<1> QED BY <1>1, <1>2, <1>3, <1>4, <1>5 DEF WorkerThread

\* The steps of the thread that closes the pool.
LEMMA CloserTypeStep ==
    ASSUME TInv, Close \/ Closing \/ UNCHANGED vars
    PROVE  TInv'
<1> USE DEF TInv, callbackVars, TypeOK, ScanOK, HandOK, RunningOK
<1>1. CASE Close
  BY <1>1 DEF Close, queueVars, workerVars
<1>2. ASSUME NEW w \in Workers, SetToken(w) PROVE TInv'
  BY <1>2 DEF SetToken, queueVars
<1>3. CASE CancelQueue
  BY <1>3 DEF CancelQueue, Q!Close, workerVars
<1>4. CASE Join
  BY <1>4 DEF Join, queueVars, workerVars
<1>5. CASE EndClose
  BY <1>5 DEF EndClose, queueVars, workerVars
<1>6. CASE UNCHANGED vars
  BY <1>6 DEF vars, queueVars, workerVars, closeVars
<1> QED BY <1>1, <1>2, <1>3, <1>4, <1>5, <1>6 DEF Closing

\* Every step keeps the types.
LEMMA TypeStep == TInv /\ [Next]_vars => TInv'
BY ClientTypeStep, WorkerTypeStep, CloserTypeStep DEF Next, Terminated

\* Type correctness: every variable of the pool keeps its type.
THEOREM TypeCorrect == Spec => []TypeOK
<1>1. TInv => TypeOK
  BY DEF TInv
<1> QED BY <1>1, TypeInit, TypeStep, PTL DEF Spec

-----------------------------------------------------------------------------
(* Loads see saves.                                                        *)

IsSave(op, c, v) == op.kind = "save" /\ op.client = c /\ op.version = v

\* Version v of client c is in the database, or a worker is about to put it there.
Done(c, v) ==
    \/ v \in executed[c]
    \/ \E w \in Workers : InHand(w) /\ IsSave(answer[w], c, v)

\* ... or it is queued before place k.
Ahead(k, c, v) == Done(c, v) \/ \E j \in 1 .. (k - 1) : IsSave(queue[j], c, v)

\* No save of an open pool is lost, and no load in the queue has overtaken one.
SavesKept ==
    \A c \in Clients, k \in Nat : \A v :
        v \in 1 .. saved[c] /\ k = Len(queue) + 1 => Ahead(k, c, v)
QueuedInOrder ==
    \A c \in Clients, k \in Nat : \A v :
        /\ k \in 1 .. Len(queue)
        /\ queue[k].kind = "load" /\ queue[k].client = c
        /\ v \in 1 .. queue[k].version
        => Ahead(k, c, v)
HandedInOrder ==
    \A c \in Clients, w \in Workers : \A v :
        /\ InHand(w)
        /\ answer[w].kind = "load" /\ answer[w].client = c
        /\ v \in 1 .. answer[w].version
        => Done(c, v)

OrderOK == closer = "open" => SavesKept /\ QueuedInOrder /\ HandedInOrder

OInv == TInv /\ OrderOK

\* A step that keeps the queue and the saves begun, and takes no operation in hand,
\* keeps the order if what was done stays done.
LEMMA OrderKept ==
    ASSUME OrderOK, closer = "open", UNCHANGED <<queue, saved>>,
           \A c \in Clients : \A v : Done(c, v) => Done(c, v)',
           \A w \in Workers : InHand(w)' => InHand(w) /\ answer'[w] = answer[w]
    PROVE  OrderOK'
<1>1. \A c \in Clients, k \in Nat : \A v : Ahead(k, c, v) => Ahead(k, c, v)'
  BY DEF Ahead
<1>2. SavesKept'
  BY <1>1 DEF OrderOK, SavesKept
<1>3. QueuedInOrder'
  BY <1>1 DEF OrderOK, QueuedInOrder
<1>4. HandedInOrder'
  BY DEF OrderOK, HandedInOrder
<1> QED BY <1>2, <1>3, <1>4 DEF OrderOK

\* What is in hand, and what was executed, do not change.
LEMMA SameHands ==
    ASSUME UNCHANGED <<worker, answer, executed>>
    PROVE  /\ \A c \in Clients : \A v : Done(c, v) => Done(c, v)'
           /\ \A w \in Workers : InHand(w)' => InHand(w) /\ answer'[w] = answer[w]
BY DEF Done, InHand, IsSave

\* An operation is appended to the queue.
LEMMA OrderPut ==
    ASSUME TInv, OrderOK, closer = "open", closer' = "open", NEW op \in Operations, Q!Put(op),
           UNCHANGED <<worker, executed>>,
           op.kind = "load" => UNCHANGED saved /\ op.version = saved[op.client],
           op.kind = "save" => /\ op.version = saved[op.client] + 1
                               /\ saved' = [saved EXCEPT ![op.client] = @ + 1]
    PROVE  OrderOK'
<1> USE DEF TInv
<1>1. /\ queue' = Append(queue, op) /\ queue \in Seq(Operations) /\ Len(queue) \in Nat
      /\ Len(queue') = Len(queue) + 1
      /\ \A j \in 1 .. Len(queue) : queue'[j] = queue[j]
      /\ queue'[Len(queue) + 1] = op
      /\ UNCHANGED answer
  BY DEF Q!Put, TypeOK
<1>2. \A c \in Clients : \A v : Done(c, v) => Done(c, v)'
  BY <1>1, SameHands
<1>3. \A c \in Clients, k \in Nat : \A v : k \in 1 .. Len(queue) + 1 /\ Ahead(k, c, v) => Ahead(k, c, v)'
  BY <1>1, <1>2 DEF Ahead
<1>4. \A c \in Clients, k \in Nat : \A v : k = Len(queue) + 1 /\ Ahead(k, c, v) => Ahead(k + 1, c, v)'
  BY <1>1, <1>2 DEF Ahead
<1>5. op.client \in Clients /\ op.kind \in {"save", "load"}
  BY OperationKinds
<1>6. SavesKept'
  <2> SUFFICES ASSUME NEW c \in Clients, NEW k \in Nat, NEW v,
                      v \in 1 .. saved'[c], k = Len(queue) + 1
               PROVE  Ahead(k + 1, c, v)'
    BY <1>1 DEF SavesKept
  <2>1. saved \in [Clients -> 0 .. MaxSaves]
    BY DEF TypeOK
  <2>2. CASE v \in 1 .. saved[c]
    BY <1>4, <2>2 DEF OrderOK, SavesKept
  <2>3. CASE v \notin 1 .. saved[c]
    <3>1. op.kind = "save"
      BY <1>5, <2>3
    <3>2. op.client = c /\ v = saved[c] + 1
      BY <1>5, <2>1, <2>3, <3>1, BoundsAssumption
    <3>3. IsSave(op, c, v)
      BY <2>1, <3>1, <3>2 DEF IsSave
    <3>4. k \in 1 .. (k + 1 - 1) /\ queue'[k] = op
      BY <1>1
    <3> QED BY <3>3, <3>4 DEF Ahead, IsSave
  <2> QED BY <2>2, <2>3
<1>7. QueuedInOrder'
  <2> SUFFICES ASSUME NEW c \in Clients, NEW k \in Nat, NEW v, k \in 1 .. Len(queue) + 1,
                      queue'[k].kind = "load", queue'[k].client = c,
                      v \in 1 .. queue'[k].version
               PROVE  Ahead(k, c, v)'
    BY <1>1 DEF QueuedInOrder
  <2>1. CASE k \in 1 .. Len(queue)
    <3>1. queue'[k] = queue[k]
      BY <1>1, <2>1
    <3>2. Ahead(k, c, v)
      BY <2>1, <3>1 DEF OrderOK, QueuedInOrder
    <3> QED BY <1>3, <3>2
  <2>2. CASE k = Len(queue) + 1
    <3>1. queue'[k] = op /\ op.kind = "load" /\ op.client = c
      BY <1>1, <2>2
    <3>2. v \in 1 .. saved[c]
      BY <3>1
    <3>3. Ahead(k, c, v)
      BY <2>2, <3>2 DEF OrderOK, SavesKept
    <3> QED BY <1>3, <3>3
  <2> QED BY <1>1, <2>1, <2>2
<1>8. HandedInOrder'
  BY <1>1, <1>2, SameHands DEF OrderOK, HandedInOrder
<1> QED BY <1>6, <1>7, <1>8 DEF OrderOK

\* What a client enqueues goes behind its saves.
LEMMA ClientOrderStep ==
    ASSUME TInv, OrderOK, closer = "open", NEW c \in Clients,
           Save(c) \/ Query(c) \/ Leave(c) \/ ClientThread(c)
    PROVE  OrderOK'
<1> USE DEF TInv
<1>1. CASE Save(c)
  <2> DEFINE op == [kind |-> "save", client |-> c, version |-> saved[c] + 1]
  <2>1. saved[c] + 1 \in 1 .. MaxSaves
    BY <1>1, BoundsAssumption DEF Save, TypeOK
  <2>2. op \in Operations
    BY <2>1, OperationTypes
  <2>3. op.kind = "save" /\ op.client = c /\ op.version = saved[c] + 1
    OBVIOUS
  <2>4. /\ Q!Put(op) /\ UNCHANGED <<worker, executed, closer>>
        /\ saved' = [saved EXCEPT ![c] = @ + 1]
    BY <1>1 DEF Save, workerVars, closeVars
  <2> HIDE DEF op
  <2> QED BY <2>2, <2>3, <2>4, OrderPut
<1>2. ASSUME NEW q \in 1 .. MaxQueries, EnqueueLoad(c, q), UNCHANGED <<worker, executed, closer, saved>>
      PROVE  OrderOK'
  <2> DEFINE op == [kind |-> "load", client |-> c, version |-> saved[c], query |-> q]
  <2>1. op \in Operations
    BY OperationTypes DEF TypeOK
  <2>2. op.kind = "load" /\ op.client = c /\ op.version = saved[c]
    OBVIOUS
  <2>3. Q!Put(op)
    BY <1>2 DEF EnqueueLoad
  <2> HIDE DEF op
  <2> QED BY <1>2, <2>1, <2>2, <2>3, OrderPut
<1>3. CASE Query(c)
  <2>1. asked[c] + 1 \in 1 .. MaxQueries
    BY <1>3, BoundsAssumption DEF Query, TypeOK
  <2> QED BY <1>2, <1>3, <2>1 DEF Query, workerVars, closeVars
<1>4. CASE NextQuery(c)
  <2>1. Current(c).query \in 1 .. MaxQueries
    BY <1>4, CurrentType DEF NextQuery, ScanOK, Callbacks
  <2> QED BY <1>2, <1>4, <2>1 DEF NextQuery, workerVars, closeVars
<1>5. CASE UNCHANGED <<queueVars, workerVars, closeVars, saved, executed>>
  BY <1>5, SameHands, OrderKept DEF queueVars, workerVars
<1> QED BY <1>1, <1>3, <1>4, <1>5 DEF Leave, ClientThread, ProcessReadyCallbacks, NotReady,
          Invoke, EndChain, EndProcessing

\* A worker takes operations in the order of the queue, and drops none.
LEMMA WorkerOrderStep ==
    ASSUME TInv, OrderOK, closer = "open", NEW w \in Workers, WorkerThread(w)
    PROVE  OrderOK'
<1> USE DEF TInv
<1>1. CASE CallWaitAndPop(w)
  <2>1. UNCHANGED <<queue, saved, executed, closer>>
    BY <1>1 DEF CallWaitAndPop, Q!Ask, closeVars
  <2>2. ~InHand(w) /\ ~InHand(w)'
    BY <1>1 DEF CallWaitAndPop, InHand, TypeOK
  <2>3. \A u \in Workers : u # w => worker'[u] = worker[u] /\ answer'[u] = answer[u]
    BY <1>1 DEF CallWaitAndPop, Q!Ask, TypeOK
  <2>4. \A u \in Workers : u # w => (InHand(u)' <=> InHand(u))
    BY <2>3 DEF InHand
  <2>5. \A c \in Clients : \A v : Done(c, v) => Done(c, v)'
    BY <2>1, <2>2, <2>3, <2>4 DEF Done, IsSave
  <2> QED BY <2>1, <2>2, <2>3, <2>4, <2>5, OrderKept
<1>2. CASE ReturnFromWaitAndPop(w)
  <2>1. Q!Hand(w)
    BY <1>2 DEF ReturnFromWaitAndPop, Q!TurnAway, RunningOK
  <2>2. /\ worker[w] = "pop" /\ queue # <<>> /\ answer'[w] = Head(queue) /\ queue' = Tail(queue)
        /\ UNCHANGED <<saved, executed, closer>>
        /\ \A u \in Workers : u # w => worker'[u] = worker[u] /\ answer'[u] = answer[u]
    BY <1>2, <2>1 DEF ReturnFromWaitAndPop, Q!Hand, TypeOK, closeVars
  <2>3. /\ queue \in Seq(Operations) /\ Len(queue) \in Nat /\ Len(queue) > 0
        /\ queue[1] = Head(queue) /\ queue[1] \in Operations
        /\ Len(queue') = Len(queue) - 1
        /\ \A j \in 1 .. Len(queue) - 1 : queue'[j] = queue[j + 1]
    BY <2>2 DEF TypeOK
  <2>4. InHand(w)' /\ ~InHand(w)
    BY <1>2, <2>2, <2>3, NoOperationAssumption DEF ReturnFromWaitAndPop, InHand, TypeOK
  <2>5. \A u \in Workers : u # w => (InHand(u)' <=> InHand(u))
    BY <2>2 DEF InHand
  <2>6. \A c \in Clients : \A v : Done(c, v) => Done(c, v)'
    BY <2>2, <2>4, <2>5 DEF Done, IsSave
  <2>7. \A c \in Clients : \A v : IsSave(queue[1], c, v) => Done(c, v)'
    BY <2>2, <2>3, <2>4 DEF Done, IsSave
  <2>8. \A c \in Clients, k \in Nat : \A v :
            k + 1 \in 1 .. Len(queue) + 1 /\ k > 0 /\ Ahead(k + 1, c, v) => Ahead(k, c, v)'
    <3> SUFFICES ASSUME NEW c \in Clients, NEW k \in Nat, NEW v,
                        k + 1 \in 1 .. Len(queue) + 1, k > 0, Ahead(k + 1, c, v)
                 PROVE  Ahead(k, c, v)'
      OBVIOUS
    <3>1. CASE Done(c, v)
      BY <2>6, <3>1 DEF Ahead
    <3>2. ASSUME NEW j \in 1 .. k, IsSave(queue[j], c, v) PROVE Ahead(k, c, v)'
      <4>1. CASE j = 1
        BY <2>7, <3>2, <4>1 DEF Ahead
      <4>2. CASE j # 1
        <5>1. j - 1 \in 1 .. (k - 1) /\ j - 1 \in 1 .. Len(queue) - 1
          BY <2>3, <3>2, <4>2
        <5>2. queue'[j - 1] = queue[j]
          BY <2>3, <5>1
        <5> QED BY <3>2, <5>1, <5>2 DEF Ahead, IsSave
      <4> QED BY <4>1, <4>2
    <3> QED BY <3>1, <3>2 DEF Ahead
  <2>9. SavesKept'
    BY <2>2, <2>3, <2>8 DEF OrderOK, SavesKept
  <2>10. QueuedInOrder'
    <3> SUFFICES ASSUME NEW c \in Clients, NEW k \in Nat, NEW v, k \in 1 .. Len(queue) - 1,
                        queue'[k].kind = "load", queue'[k].client = c,
                        v \in 1 .. queue'[k].version
                 PROVE  Ahead(k, c, v)'
      BY <2>3 DEF QueuedInOrder
    <3>1. queue'[k] = queue[k + 1] /\ k + 1 \in 1 .. Len(queue) /\ k + 1 \in Nat
      BY <2>3
    <3>2. Ahead(k + 1, c, v)
      BY <3>1 DEF OrderOK, QueuedInOrder
    <3> QED BY <2>3, <2>8, <3>2
  <2>11. HandedInOrder'
    <3> SUFFICES ASSUME NEW c \in Clients, NEW u \in Workers, NEW v, InHand(u)',
                        answer'[u].kind = "load", answer'[u].client = c,
                        v \in 1 .. answer'[u].version
                 PROVE  Done(c, v)'
      BY DEF HandedInOrder
    <3>1. CASE u # w
      BY <2>2, <2>5, <2>6, <3>1 DEF OrderOK, HandedInOrder
    <3>2. CASE u = w
      <4>1. queue[1].kind = "load" /\ queue[1].client = c /\ v \in 1 .. queue[1].version
        BY <2>2, <2>3, <3>2
      <4>2. Ahead(1, c, v)
        BY <2>3, <4>1 DEF OrderOK, QueuedInOrder
      <4>3. Done(c, v)
        BY <4>2 DEF Ahead
      <4> QED BY <2>6, <4>3
    <3> QED BY <3>1, <3>2
  <2> QED BY <2>9, <2>10, <2>11 DEF OrderOK
<1>3. CASE Exit(w)
  <2>1. answer[w] = NoOperation /\ UNCHANGED <<queue, answer, saved, executed>>
    BY <1>3 DEF Exit, RunningOK, queueVars
  <2>2. \A u \in Workers : u # w => worker'[u] = worker[u]
    BY <1>3 DEF Exit, TypeOK
  <2>3. \A u \in Workers : InHand(u)' <=> InHand(u)
    BY <2>1, <2>2 DEF InHand
  <2>4. \A c \in Clients : \A v : Done(c, v) => Done(c, v)'
    BY <2>1, <2>3 DEF Done
  <2> QED BY <2>1, <2>3, <2>4, OrderKept
<1>4. CASE BeginCall(w)
  <2>1. UNCHANGED <<queue, answer, saved, executed>>
    BY <1>4 DEF BeginCall, queueVars
  <2>2. \A u \in Workers : InHand(u)' <=> InHand(u)
    BY <1>4, <2>1 DEF BeginCall, InHand, TypeOK
  <2>3. \A c \in Clients : \A v : Done(c, v) => Done(c, v)'
    BY <2>1, <2>2 DEF Done
  <2> QED BY <2>1, <2>2, <2>3, OrderKept
<1>5. CASE Call(w)
  <2>1. UNCHANGED <<queue, answer, saved>> /\ worker' = [worker EXCEPT ![w] = "top"] /\ worker[w] = "call"
    BY <1>5 DEF Call, queueVars
  <2>2. ~InHand(w)' /\ \A u \in Workers : u # w => (InHand(u)' <=> InHand(u))
    BY <2>1 DEF InHand, TypeOK
  <2>3. answer[w] \in Operations
    BY <2>1 DEF TypeOK, HandOK
  <2>4. /\ answer[w].kind = "save" =>
             executed' = [executed EXCEPT ![answer[w].client] = @ \cup {answer[w].version}]
        /\ answer[w].kind # "save" => executed' = executed
    BY <1>5 DEF Call
  <2>5. \A c \in Clients : \A v : v \in executed[c] => v \in executed'[c]
    <3>1. executed \in [Clients -> SUBSET (1 .. MaxSaves)]
      BY DEF TypeOK
    <3>2. CASE answer[w].kind = "save"
      BY <2>3, <2>4, <3>1, <3>2
    <3>3. CASE answer[w].kind # "save"
      BY <2>4, <3>3
    <3> QED BY <3>2, <3>3
  <2>6. \A c \in Clients : \A v : IsSave(answer[w], c, v) => v \in executed'[c]
    BY <2>3, <2>4, OperationKinds DEF TypeOK, IsSave
  <2>7. \A c \in Clients : \A v : Done(c, v) => Done(c, v)'
    BY <2>1, <2>2, <2>5, <2>6 DEF Done, IsSave
  <2> QED BY <2>1, <2>2, <2>7, OrderKept
<1> QED BY <1>1, <1>2, <1>3, <1>4, <1>5 DEF WorkerThread

\* Every step keeps the order of saves and loads, as long as the pool is open.
LEMMA OrderStep == OInv /\ [Next]_vars => OrderOK'
<1> SUFFICES ASSUME OInv, [Next]_vars, closer' = "open" PROVE OrderOK'
  BY DEF OrderOK
<1> USE DEF OInv
<1>1. CASE Close \/ Closing \/ UNCHANGED vars
  <2>1. UNCHANGED vars
    BY <1>1 DEF Close, Closing, SetToken, CancelQueue, Join, EndClose, TInv, TypeOK
  <2> QED BY <2>1, SameHands, OrderKept DEF vars, queueVars, workerVars, closeVars
<1>2. ASSUME NEW c \in Clients, Save(c) \/ Query(c) \/ Leave(c) \/ ClientThread(c)
      PROVE  OrderOK'
  <2>1. closer = "open"
    BY <1>2 DEF closeVars, Save, Query, Leave, ClientThread, ProcessReadyCallbacks, NotReady,
         Invoke, EndChain, NextQuery, EndProcessing
  <2> QED BY <1>2, <2>1, ClientOrderStep
<1>3. ASSUME NEW w \in Workers, WorkerThread(w) PROVE OrderOK'
  <2>1. closer = "open"
    BY <1>3 DEF closeVars, WorkerThread, CallWaitAndPop, ReturnFromWaitAndPop, Exit, BeginCall, Call
  <2> QED BY <1>3, <2>1, WorkerOrderStep
<1> QED BY <1>1, <1>2, <1>3 DEF Next, Terminated

\* The order is there in the initial states.
LEMMA OrderInit == Init => OrderOK
BY DEF Init, Q!Init, OrderOK, SavesKept, QueuedInOrder, HandedInOrder, InHand

\* LoadsSeeSaves: a load in the hands of a worker of an open pool finds every save its
\* client enqueued before it executed, or in the hands of another worker.
THEOREM LoadsFollowSaves == Spec => []LoadsSeeSaves
<1>1. OInv => LoadsSeeSaves
  <2> SUFFICES ASSUME OInv, closer = "open", NEW w \in Workers, InHand(w), answer[w].kind = "load",
                      NEW v \in 1 .. answer[w].version
               PROVE  v \in executed[answer[w].client] \cup SavesInHand(answer[w].client)
    BY DEF LoadsSeeSaves
  <2>1. answer[w].client \in Clients
    BY OperationKinds DEF OInv, TInv, TypeOK, InHand
  <2>2. Done(answer[w].client, v)
    BY <2>1 DEF OInv, OrderOK, HandedInOrder
  <2> QED BY <2>2 DEF Done, IsSave, SavesInHand
<1>2. Init => OInv
  BY TypeInit, OrderInit DEF OInv
<1>3. OInv /\ [Next]_vars => OInv'
  BY TypeStep, OrderStep DEF OInv
<1> QED BY <1>1, <1>2, <1>3, PTL DEF Spec

-----------------------------------------------------------------------------
(* Lists of callbacks.                                                     *)

Occurs(list, q) == \E k \in 1 .. Len(list) : list[k].query = q
Distinct(list) == \A j, k \in 1 .. Len(list) : list[j].query = list[k].query => j = k
Apart(a, b) == \A q : ~(Occurs(a, q) /\ Occurs(b, q))

LEMMA EmptyList == ASSUME NEW q PROVE ~Occurs(<<>>, q) /\ Distinct(<<>>)
BY DEF Occurs, Distinct

LEMMA AppendList ==
    ASSUME NEW a \in Seq(Callbacks), NEW x \in Callbacks
    PROVE  /\ \A q : Occurs(Append(a, x), q) <=> Occurs(a, q) \/ x.query = q
           /\ Distinct(a) /\ ~Occurs(a, x.query) => Distinct(Append(a, x))
<1> DEFINE b == Append(a, x)
<1>1. /\ Len(a) \in Nat /\ Len(b) = Len(a) + 1 /\ b[Len(a) + 1] = x
      /\ \A k \in 1 .. Len(a) : b[k] = a[k]
  OBVIOUS
<1> HIDE DEF b
<1>2. \A q : Occurs(b, q) <=> Occurs(a, q) \/ x.query = q
  BY <1>1 DEF Occurs
<1>3. Distinct(a) /\ ~Occurs(a, x.query) => Distinct(b)
  BY <1>1 DEF Distinct, Occurs
<1> QED
  BY <1>2, <1>3 DEF b

LEMMA TailList ==
    ASSUME NEW a \in Seq(Callbacks), a # <<>>
    PROVE  /\ \A q : Occurs(a, q) <=> Head(a).query = q \/ Occurs(Tail(a), q)
           /\ Distinct(a) => Distinct(Tail(a)) /\ ~Occurs(Tail(a), Head(a).query)
<1> DEFINE b == Tail(a)
<1>1. /\ Len(a) \in Nat /\ Len(a) > 0 /\ Len(b) = Len(a) - 1 /\ Head(a) = a[1]
      /\ \A k \in 1 .. Len(a) - 1 : b[k] = a[k + 1]
  OBVIOUS
<1> HIDE DEF b
<1>2. ASSUME NEW q PROVE Occurs(a, q) <=> a[1].query = q \/ Occurs(b, q)
  <2>1. ASSUME NEW k \in 1 .. Len(a), a[k].query = q, k # 1 PROVE Occurs(b, q)
    <3>1. k - 1 \in 1 .. Len(b) /\ b[k - 1] = a[k]
      BY <1>1, <2>1
    <3> QED
      BY <2>1, <3>1 DEF Occurs
  <2>2. ASSUME NEW k \in 1 .. Len(b), b[k].query = q PROVE Occurs(a, q)
    <3>1. k + 1 \in 1 .. Len(a) /\ b[k] = a[k + 1]
      BY <1>1
    <3> QED
      BY <2>2, <3>1 DEF Occurs
  <2>3. 1 \in 1 .. Len(a)
    BY <1>1
  <2> QED
    BY <2>1, <2>2, <2>3 DEF Occurs
<1>3. ASSUME Distinct(a) PROVE Distinct(b) /\ ~Occurs(b, a[1].query)
  <2>1. \A k \in 1 .. Len(b) : k + 1 \in 1 .. Len(a) /\ b[k] = a[k + 1] /\ k \in Nat /\ 1 \in 1 .. Len(a)
    BY <1>1
  <2>2. Distinct(b)
    BY <1>3, <2>1 DEF Distinct
  <2>3. ~Occurs(b, a[1].query)
    BY <1>3, <2>1 DEF Distinct, Occurs
  <2> QED
    BY <2>2, <2>3
<1> QED
  BY <1>1, <1>2, <1>3 DEF b

LEMMA ConcatList ==
    ASSUME NEW a \in Seq(Callbacks), NEW b \in Seq(Callbacks)
    PROVE  /\ a \o b \in Seq(Callbacks)
           /\ \A q : Occurs(a \o b, q) <=> Occurs(a, q) \/ Occurs(b, q)
           /\ Distinct(a) /\ Distinct(b) /\ Apart(a, b) => Distinct(a \o b)
<1> DEFINE s == a \o b
<1>1. /\ Len(a) \in Nat /\ Len(b) \in Nat /\ s \in Seq(Callbacks) /\ Len(s) = Len(a) + Len(b)
      /\ \A k \in 1 .. Len(s) : s[k] = IF k <= Len(a) THEN a[k] ELSE b[k - Len(a)]
  OBVIOUS
<1> HIDE DEF s
<1>2. /\ \A k \in 1 .. Len(a) : k \in 1 .. Len(s) /\ s[k] = a[k]
      /\ \A k \in 1 .. Len(b) : k + Len(a) \in 1 .. Len(s) /\ s[k + Len(a)] = b[k]
  <2>1. ASSUME NEW k \in 1 .. Len(a) PROVE k \in 1 .. Len(s) /\ s[k] = a[k]
    BY <1>1
  <2>2. ASSUME NEW k \in 1 .. Len(b) PROVE k + Len(a) \in 1 .. Len(s) /\ s[k + Len(a)] = b[k]
    <3>1. k + Len(a) \in 1 .. Len(s) /\ ~(k + Len(a) <= Len(a)) /\ k + Len(a) - Len(a) = k
      BY <1>1
    <3>2. s[k + Len(a)] = b[k + Len(a) - Len(a)]
      BY <1>1, <3>1
    <3> QED
      BY <3>1, <3>2
  <2> QED
    BY <2>1, <2>2
<1>3. ASSUME NEW k \in 1 .. Len(s)
      PROVE  \/ k \in 1 .. Len(a) /\ s[k] = a[k]
             \/ k - Len(a) \in 1 .. Len(b) /\ s[k] = b[k - Len(a)]
  BY <1>1
<1>4. ASSUME NEW q PROVE Occurs(s, q) <=> Occurs(a, q) \/ Occurs(b, q)
  <2>1. Occurs(s, q) => Occurs(a, q) \/ Occurs(b, q)
    BY <1>3 DEF Occurs
  <2>2. Occurs(a, q) \/ Occurs(b, q) => Occurs(s, q)
    BY <1>2 DEF Occurs
  <2> QED
    BY <2>1, <2>2
<1>5. ASSUME Distinct(a), Distinct(b), Apart(a, b) PROVE Distinct(s)
  <2> SUFFICES ASSUME NEW j \in 1 .. Len(s), NEW k \in 1 .. Len(s), s[j].query = s[k].query
               PROVE  j = k
    BY DEF Distinct
  <2>1. CASE j \in 1 .. Len(a) /\ s[j] = a[j] /\ k \in 1 .. Len(a) /\ s[k] = a[k]
    BY <1>5, <2>1 DEF Distinct
  <2>2. CASE /\ j - Len(a) \in 1 .. Len(b) /\ s[j] = b[j - Len(a)]
             /\ k - Len(a) \in 1 .. Len(b) /\ s[k] = b[k - Len(a)]
    <3>1. j - Len(a) = k - Len(a)
      BY <1>5, <2>2 DEF Distinct
    <3> QED
      BY <1>1, <3>1
  <2>3. ASSUME NEW m \in 1 .. Len(a), NEW n \in 1 .. Len(b), a[m].query = b[n].query PROVE FALSE
    BY <1>5, <2>3 DEF Apart, Occurs
  <2>4. CASE j \in 1 .. Len(a) /\ s[j] = a[j] /\ k - Len(a) \in 1 .. Len(b) /\ s[k] = b[k - Len(a)]
    BY <2>3, <2>4
  <2>5. CASE k \in 1 .. Len(a) /\ s[k] = a[k] /\ j - Len(a) \in 1 .. Len(b) /\ s[j] = b[j - Len(a)]
    BY <2>3, <2>5
  <2> QED
    BY <1>3, <2>1, <2>2, <2>4, <2>5
<1> QED
  BY <1>1, <1>4, <1>5 DEF s

-----------------------------------------------------------------------------
(* The invariant.                                                          *)

IsLoad(op, c, q) == op.kind = "load" /\ op.client = c /\ op.query = q
Holds(w, c, q) == InHand(w) /\ IsLoad(answer[w], c, q)

\* A load of query q is on the way, and there is no second one.
OnItsWay(c, q) ==
    \/ \E k \in 1 .. Len(queue) : IsLoad(queue[k], c, q)
    \/ \E w \in Workers : Holds(w, c, q)
OnlyOne(c, q) ==
    /\ \A j, k \in 1 .. Len(queue) : IsLoad(queue[j], c, q) /\ IsLoad(queue[k], c, q) => j = k
    /\ \A v, w \in Workers : Holds(v, c, q) /\ Holds(w, c, q) => v = w
    /\ \A k \in 1 .. Len(queue), w \in Workers : ~(IsLoad(queue[k], c, q) /\ Holds(w, c, q))

IsWaiting(c, q) == Occurs(callbacks[c], q) \/ Occurs(kept[c], q) \/ Occurs(scan[c], q)
Running(c, q) == place[c] = "callback" /\ Current(c).query = q

\* No two callbacks wait for one query, whichever of the three lists they are in.
ListsOK(c) ==
    /\ Distinct(callbacks[c]) /\ Distinct(kept[c]) /\ Distinct(scan[c])
    /\ Apart(callbacks[c], kept[c]) /\ Apart(callbacks[c], scan[c]) /\ Apart(kept[c], scan[c])
    /\ place[c] = "idle" => kept[c] = <<>> /\ scan[c] = <<>>

\* A query that was begun once: its loads come one after the other.
QueryOK(c, q) ==
    /\ OnlyOne(c, q)
    /\ IsWaiting(c, q) \/ OnItsWay(c, q) => q <= asked[c]
    /\ future[c][q] # "none" <=> IsWaiting(c, q) /\ ~Running(c, q)
    /\ future[c][q] = "pending" => OnItsWay(c, q)
    /\ future[c][q] = "ready" => ~OnItsWay(c, q)
    /\ Running(c, q) => ~OnItsWay(c, q)

ClientOK(c) == ListsOK(c) /\ \A q \in 1 .. MaxQueries : QueryOK(c, q)

CallbackOK == closer = "open" => \A c \in Clients : ClientOK(c)

-----------------------------------------------------------------------------
(* The loads on their way.                                                 *)

\* Nothing changes in the queue or in the hands of workers.
LEMMA SameWay ==
    ASSUME UNCHANGED <<queue, worker, answer>>
    PROVE  \A c, q : /\ OnItsWay(c, q)' <=> OnItsWay(c, q)
                     /\ OnlyOne(c, q) => OnlyOne(c, q)'
BY DEF OnItsWay, OnlyOne, Holds, InHand

\* An operation is enqueued.
LEMMA PutWay ==
    ASSUME TypeOK, NEW op \in Operations, Q!Put(op), UNCHANGED worker
    PROVE  \A c, q : /\ OnItsWay(c, q)' <=> OnItsWay(c, q) \/ IsLoad(op, c, q)
                     /\ OnlyOne(c, q) /\ (IsLoad(op, c, q) => ~OnItsWay(c, q)) => OnlyOne(c, q)'
<1>1. /\ queue \in Seq(Operations) /\ queue' = Append(queue, op) /\ UNCHANGED answer
  BY DEF TypeOK, Q!Put
<1>2. /\ Len(queue) \in Nat /\ Len(queue') = Len(queue) + 1 /\ queue'[Len(queue) + 1] = op
      /\ \A k \in 1 .. Len(queue) : queue'[k] = queue[k]
  BY <1>1
<1>3. \A w, c, q : Holds(w, c, q)' <=> Holds(w, c, q)
  BY <1>1 DEF Holds, InHand
<1>4. \A k \in 1 .. Len(queue') : k \in 1 .. Len(queue) \/ k = Len(queue) + 1
  BY <1>2
<1>5. \A k \in 1 .. Len(queue) : k \in 1 .. Len(queue')
  BY <1>2
<1>6. Len(queue) + 1 \in 1 .. Len(queue')
  BY <1>2
<1> SUFFICES ASSUME NEW c, NEW q
             PROVE  /\ OnItsWay(c, q)' <=> OnItsWay(c, q) \/ IsLoad(op, c, q)
                    /\ OnlyOne(c, q) /\ (IsLoad(op, c, q) => ~OnItsWay(c, q)) => OnlyOne(c, q)'
  OBVIOUS
<1> DEFINE L(k) == IsLoad(queue[k], c, q)
           M(k) == IsLoad(queue'[k], c, q)
           H(w) == Holds(w, c, q)
<1>7. \A k \in 1 .. Len(queue) : M(k) <=> L(k)
  BY <1>2
<1>8. M(Len(queue) + 1) <=> IsLoad(op, c, q)
  BY <1>2
<1>9. /\ OnItsWay(c, q) <=> (\E k \in 1 .. Len(queue) : L(k)) \/ \E w \in Workers : H(w)
      /\ OnItsWay(c, q)' <=> (\E k \in 1 .. Len(queue') : M(k)) \/ \E w \in Workers : H(w)
  BY <1>3 DEF OnItsWay
<1>10. OnlyOne(c, q) <=> /\ \A j, k \in 1 .. Len(queue) : L(j) /\ L(k) => j = k
                         /\ \A v, w \in Workers : H(v) /\ H(w) => v = w
                         /\ \A k \in 1 .. Len(queue), w \in Workers : ~(L(k) /\ H(w))
  BY DEF OnlyOne
<1>11. OnlyOne(c, q)' <=> /\ \A j, k \in 1 .. Len(queue') : M(j) /\ M(k) => j = k
                          /\ \A v, w \in Workers : H(v) /\ H(w) => v = w
                          /\ \A k \in 1 .. Len(queue'), w \in Workers : ~(M(k) /\ H(w))
  BY <1>3 DEF OnlyOne
<1> HIDE DEF L, M, H
<1>12. OnItsWay(c, q)' <=> OnItsWay(c, q) \/ IsLoad(op, c, q)
  BY <1>4, <1>5, <1>6, <1>7, <1>8, <1>9
<1>13. ASSUME OnlyOne(c, q), IsLoad(op, c, q) => ~OnItsWay(c, q) PROVE OnlyOne(c, q)'
  BY <1>4, <1>7, <1>8, <1>9, <1>10, <1>11, <1>13
<1> QED
  BY <1>12, <1>13

\* A worker takes the first operation.
LEMMA HandWay ==
    ASSUME TypeOK, NEW w \in Workers, Q!Hand(w), worker[w] = "pop",
           worker' = [worker EXCEPT ![w] = "check"]
    PROVE  \A c, q : /\ OnItsWay(c, q)' <=> OnItsWay(c, q)
                     /\ OnlyOne(c, q) => OnlyOne(c, q)'
<1>1. /\ queue \in Seq(Operations) /\ queue # <<>> /\ queue' = Tail(queue)
      /\ answer'[w] = Head(queue)
      /\ \A u \in Workers : u # w => answer'[u] = answer[u] /\ worker'[u] = worker[u]
      /\ worker'[w] = "check"
  BY DEF TypeOK, Q!Hand
<1>2. /\ Len(queue) \in Nat /\ Len(queue) > 0 /\ Len(queue') = Len(queue) - 1
      /\ Head(queue) = queue[1] /\ queue[1] \in Operations
      /\ \A k \in 1 .. Len(queue') : queue'[k] = queue[k + 1]
  BY <1>1
<1>3. InHand(w)' /\ ~InHand(w)
  BY <1>1, <1>2, NoOperationAssumption DEF InHand
<1>4. \A k \in 1 .. Len(queue') : k + 1 \in 1 .. Len(queue) /\ k + 1 # 1
  BY <1>2
<1>5. \A k \in 1 .. Len(queue) : k # 1 => k - 1 \in 1 .. Len(queue') /\ k - 1 + 1 = k
  BY <1>2
<1>6. 1 \in 1 .. Len(queue)
  BY <1>2
<1> SUFFICES ASSUME NEW c, NEW q
             PROVE  /\ OnItsWay(c, q)' <=> OnItsWay(c, q)
                    /\ OnlyOne(c, q) => OnlyOne(c, q)'
  OBVIOUS
<1> DEFINE L(k) == IsLoad(queue[k], c, q)
           M(k) == IsLoad(queue'[k], c, q)
           H(u) == Holds(u, c, q)
           N(u) == Holds(u, c, q)'
<1>7. \A k \in 1 .. Len(queue') : M(k) <=> L(k + 1)
  BY <1>2
<1>8. (N(w) <=> L(1)) /\ ~H(w)
  BY <1>1, <1>2, <1>3 DEF Holds
<1>9. \A u \in Workers : u # w => (N(u) <=> H(u))
  BY <1>1 DEF Holds, InHand
<1>10. /\ OnItsWay(c, q) <=> (\E k \in 1 .. Len(queue) : L(k)) \/ \E u \in Workers : H(u)
       /\ OnItsWay(c, q)' <=> (\E k \in 1 .. Len(queue') : M(k)) \/ \E u \in Workers : N(u)
  BY DEF OnItsWay
<1>11. OnlyOne(c, q) <=> /\ \A j, k \in 1 .. Len(queue) : L(j) /\ L(k) => j = k
                         /\ \A v, u \in Workers : H(v) /\ H(u) => v = u
                         /\ \A k \in 1 .. Len(queue), u \in Workers : ~(L(k) /\ H(u))
  BY DEF OnlyOne
<1>12. OnlyOne(c, q)' <=> /\ \A j, k \in 1 .. Len(queue') : M(j) /\ M(k) => j = k
                          /\ \A v, u \in Workers : N(v) /\ N(u) => v = u
                          /\ \A k \in 1 .. Len(queue'), u \in Workers : ~(M(k) /\ N(u))
  BY DEF OnlyOne
<1> HIDE DEF L, M, H, N
<1>13. OnItsWay(c, q)' => OnItsWay(c, q)
  BY <1>4, <1>6, <1>7, <1>8, <1>9, <1>10
<1>14. OnItsWay(c, q) => OnItsWay(c, q)'
  <2>1. ASSUME NEW k \in 1 .. Len(queue), L(k), k # 1 PROVE M(k - 1) /\ k - 1 \in 1 .. Len(queue')
    BY <1>5, <1>7, <2>1
  <2>2. ASSUME NEW u \in Workers, H(u) PROVE N(u)
    BY <1>8, <1>9, <2>2
  <2> QED
    BY <1>8, <1>10, <2>1, <2>2
<1>15. ASSUME OnlyOne(c, q) PROVE OnlyOne(c, q)'
  <2>1. ASSUME NEW j \in 1 .. Len(queue'), NEW k \in 1 .. Len(queue'), M(j), M(k) PROVE j = k
    <3>1. L(j + 1) /\ L(k + 1)
      BY <1>7, <2>1
    <3>2. j + 1 = k + 1
      BY <1>4, <1>11, <1>15, <3>1
    <3> QED
      BY <1>2, <3>2
  <2>2. ASSUME NEW u \in Workers, NEW v \in Workers, N(u), N(v) PROVE u = v
    BY <1>6, <1>8, <1>9, <1>11, <1>15, <2>2
  <2>3. ASSUME NEW k \in 1 .. Len(queue'), NEW u \in Workers, M(k), N(u) PROVE FALSE
    <3>1. L(k + 1) /\ k + 1 \in 1 .. Len(queue) /\ k + 1 # 1
      BY <1>4, <1>7, <2>3
    <3> QED
      BY <1>6, <1>8, <1>9, <1>11, <1>15, <2>3, <3>1
  <2> QED
    BY <1>12, <2>1, <2>2, <2>3
<1> QED
  BY <1>13, <1>14, <1>15

\* No worker takes or finishes a load.
LEMMA HandsWay ==
    ASSUME queue' = queue, \A w \in Workers : \A c, q : Holds(w, c, q)' <=> Holds(w, c, q)
    PROVE  \A c, q : /\ OnItsWay(c, q)' <=> OnItsWay(c, q)
                     /\ OnlyOne(c, q) => OnlyOne(c, q)'
BY DEF OnItsWay, OnlyOne

\* A worker is through with an operation.
LEMMA CallWay ==
    ASSUME TypeOK, NEW w \in Workers, worker' = [worker EXCEPT ![w] = "top"],
           UNCHANGED <<queue, answer>>
    PROVE  \A c, q : /\ OnlyOne(c, q) => OnlyOne(c, q)'
                     /\ Holds(w, c, q) /\ OnlyOne(c, q) => ~OnItsWay(c, q)'
                     /\ ~Holds(w, c, q) => (OnItsWay(c, q)' <=> OnItsWay(c, q))
<1>1. worker'[w] = "top" /\ \A u \in Workers : u # w => worker'[u] = worker[u]
  BY DEF TypeOK
<1>2. \A c, q : ~Holds(w, c, q)'
  BY <1>1 DEF Holds, InHand
<1>3. \A u \in Workers : u # w => \A c, q : Holds(u, c, q)' <=> Holds(u, c, q)
  BY <1>1 DEF Holds, InHand
<1> QED
  BY <1>2, <1>3 DEF OnItsWay, OnlyOne

\* What ListsOK says of the next state, with the prime at the lists.
LEMMA ListsMeaning ==
    ASSUME NEW c,
           Distinct(callbacks'[c]), Distinct(kept'[c]), Distinct(scan'[c]),
           Apart(callbacks'[c], kept'[c]), Apart(callbacks'[c], scan'[c]),
           Apart(kept'[c], scan'[c]),
           place'[c] = "idle" => kept'[c] = <<>> /\ scan'[c] = <<>>
    PROVE  ListsOK(c)'
<1>1. Distinct(callbacks[c])' /\ Distinct(kept[c])' /\ Distinct(scan[c])'
  BY DEF Distinct
<1>2. Apart(callbacks[c], kept[c])' /\ Apart(callbacks[c], scan[c])' /\ Apart(kept[c], scan[c])'
  BY DEF Apart, Occurs
<1> QED
  BY <1>1, <1>2 DEF ListsOK

-----------------------------------------------------------------------------
(* What a step leaves alone.                                               *)

\* One query for which nothing changes.
LEMMA QueryFrame ==
    ASSUME NEW c, NEW q \in Nat, QueryOK(c, q), OnlyOne(c, q)',
           asked[c] \in Nat, asked'[c] \in Nat, asked[c] <= asked'[c],
           future'[c][q] = future[c][q],
           IsWaiting(c, q)' <=> IsWaiting(c, q), Running(c, q)' <=> Running(c, q),
           OnItsWay(c, q)' <=> OnItsWay(c, q)
    PROVE  QueryOK(c, q)'
<1>1. IsWaiting(c, q)' \/ OnItsWay(c, q)' => q <= asked'[c]
  BY DEF QueryOK
<1> QED
  BY <1>1 DEF QueryOK

\* One client for whom nothing changes.
LEMMA ClientFrame ==
    ASSUME NEW c \in Clients, ClientOK(c), asked[c] \in Nat,
           callbacks'[c] = callbacks[c], kept'[c] = kept[c], scan'[c] = scan[c],
           place'[c] = place[c], asked'[c] = asked[c], future'[c] = future[c],
           \A q \in 1 .. MaxQueries : /\ OnItsWay(c, q)' <=> OnItsWay(c, q)
                                      /\ OnlyOne(c, q) => OnlyOne(c, q)'
    PROVE  ClientOK(c)'
<1>1. ListsOK(c)'
  <2>1. ListsOK(c)
    BY DEF ClientOK
  <2>2. /\ Distinct(callbacks'[c]) /\ Distinct(kept'[c]) /\ Distinct(scan'[c])
        /\ Apart(callbacks'[c], kept'[c]) /\ Apart(callbacks'[c], scan'[c])
        /\ Apart(kept'[c], scan'[c])
        /\ place'[c] = "idle" => kept'[c] = <<>> /\ scan'[c] = <<>>
    BY <2>1 DEF ListsOK
  <2> QED
    BY <2>2, ListsMeaning
<1>2. ASSUME NEW q \in 1 .. MaxQueries PROVE QueryOK(c, q)'
  <2>1. QueryOK(c, q) /\ q \in Nat
    BY DEF ClientOK
  <2>2. OnlyOne(c, q)'
    BY <2>1 DEF QueryOK
  <2>3. (IsWaiting(c, q)' <=> IsWaiting(c, q)) /\ (Running(c, q)' <=> Running(c, q))
    BY DEF IsWaiting, Running, Occurs, Current
  <2> QED
    BY <2>1, <2>2, <2>3, QueryFrame
<1> QED
  BY <1>1, <1>2 DEF ClientOK

Untouched(d) ==
    /\ callbacks'[d] = callbacks[d] /\ kept'[d] = kept[d] /\ scan'[d] = scan[d]
    /\ place'[d] = place[d] /\ asked'[d] = asked[d] /\ future'[d] = future[d]

\* The others, when one client acts.
LEMMA OthersFrame ==
    ASSUME TypeOK, CallbackOK, closer = "open", NEW c \in Clients, ClientOK(c)',
           \A d \in Clients : d # c => Untouched(d),
           \A d \in Clients, q \in 1 .. MaxQueries : d # c =>
                /\ OnItsWay(d, q)' <=> OnItsWay(d, q)
                /\ OnlyOne(d, q) => OnlyOne(d, q)'
    PROVE  CallbackOK'
<1> SUFFICES ASSUME NEW d \in Clients PROVE ClientOK(d)'
  BY DEF CallbackOK
<1>1. CASE d = c
  BY <1>1
<1>2. CASE d # c
  <2>1. ClientOK(d) /\ asked[d] \in Nat /\ Untouched(d)
    BY <1>2, BoundsAssumption DEF CallbackOK, TypeOK
  <2> QED
    BY <1>2, <2>1, ClientFrame DEF Untouched
<1> QED
  BY <1>1, <1>2

\* Nothing changes for anybody.
LEMMA AllFrame ==
    ASSUME TypeOK, CallbackOK, closer = "open",
           UNCHANGED <<callbacks, kept, scan, place, asked, future>>,
           \A c, q : /\ OnItsWay(c, q)' <=> OnItsWay(c, q)
                     /\ OnlyOne(c, q) => OnlyOne(c, q)'
    PROVE  CallbackOK'
<1> SUFFICES ASSUME NEW d \in Clients PROVE ClientOK(d)'
  BY DEF CallbackOK
<1>1. ClientOK(d) /\ asked[d] \in Nat
  BY BoundsAssumption DEF CallbackOK, TypeOK
<1> QED
  BY <1>1, ClientFrame

\* What the types say of one client.
LEMMA ClientTypes ==
    ASSUME TInv, NEW c \in Clients
    PROVE  /\ callbacks[c] \in Seq(Callbacks) /\ kept[c] \in Seq(Callbacks)
           /\ scan[c] \in Seq(Callbacks) /\ asked[c] \in Nat
           /\ scan[c] # <<>> => /\ Current(c) = Head(scan[c]) /\ Current(c) \in Callbacks
                                /\ Current(c).query \in 1 .. MaxQueries
                                /\ Occurs(scan[c], Current(c).query)
           /\ place[c] = "callback" => scan[c] # <<>>
<1>1. /\ callbacks[c] \in Seq(Callbacks) /\ kept[c] \in Seq(Callbacks)
      /\ scan[c] \in Seq(Callbacks) /\ asked[c] \in Nat /\ TypeOK
  BY BoundsAssumption DEF TInv, TypeOK
<1>2. ASSUME scan[c] # <<>>
      PROVE  /\ Current(c) = Head(scan[c]) /\ Current(c) \in Callbacks
             /\ Current(c).query \in 1 .. MaxQueries
             /\ Occurs(scan[c], Current(c).query)
  <2>1. Current(c) = Head(scan[c]) /\ Current(c) \in Callbacks
    BY <1>1, <1>2, CurrentType DEF Current
  <2>2. Current(c).query \in 1 .. MaxQueries
    BY <2>1 DEF Callbacks
  <2> QED
    BY <1>1, <1>2, <2>1, <2>2, TailList
<1> QED
  BY <1>1, <1>2 DEF TInv, ScanOK

\* The lists in the next state, with the prime at them.
LEMMA WaitingMeaning ==
    \A c, q : /\ IsWaiting(c, q)' <=> \/ Occurs(callbacks'[c], q) \/ Occurs(kept'[c], q)
                                      \/ Occurs(scan'[c], q)
              /\ Running(c, q)' <=> place'[c] = "callback" /\ Head(scan'[c]).query = q
BY DEF IsWaiting, Occurs, Running, Current

-----------------------------------------------------------------------------
(* The steps of a client.                                                  *)

LEMMA SaveStep ==
    ASSUME TInv, CallbackOK, closer = "open", NEW c \in Clients, Save(c)
    PROVE  CallbackOK'
<1> DEFINE op == [kind |-> "save", client |-> c, version |-> saved[c] + 1]
<1>1. TypeOK /\ saved[c] + 1 \in 1 .. MaxSaves
  BY BoundsAssumption DEF TInv, TypeOK, Save
<1>2. op \in Operations /\ \A d, q : ~IsLoad(op, d, q)
  BY <1>1, OperationTypes DEF IsLoad
<1>3. Q!Put(op) /\ UNCHANGED <<worker, callbacks, kept, scan, place, asked, future>>
  BY DEF Save, workerVars, callbackVars
<1> HIDE DEF op
<1>4. \A d, q : /\ OnItsWay(d, q)' <=> OnItsWay(d, q)
                /\ OnlyOne(d, q) => OnlyOne(d, q)'
  BY <1>1, <1>2, <1>3, PutWay
<1> QED
  BY <1>1, <1>3, <1>4, AllFrame

LEMMA QueryStep ==
    ASSUME TInv, CallbackOK, closer = "open", NEW c \in Clients, Query(c)
    PROVE  CallbackOK'
<1> PICK n \in Nat : n = asked[c] + 1
  BY BoundsAssumption DEF TInv, TypeOK
<1> DEFINE op == [kind |-> "load", client |-> c, version |-> saved[c], query |-> n]
           x == [query |-> n, stage |-> 1]
<1>1. /\ TypeOK /\ ClientOK(c) /\ asked[c] \in Nat /\ n \in 1 .. MaxQueries /\ n \in Nat
      /\ saved[c] \in 0 .. MaxSaves /\ 1 \in 1 .. Stages /\ n > asked[c]
  BY BoundsAssumption DEF TInv, TypeOK, Query, CallbackOK
<1>2. /\ op \in Operations /\ x \in Callbacks /\ x.query = n
      /\ \A d, q : IsLoad(op, d, q) <=> d = c /\ q = n
  BY <1>1, OperationTypes DEF IsLoad, Callbacks
<1>3. /\ Q!Put(op) /\ UNCHANGED <<worker, kept, scan, place>>
      /\ callbacks'[c] = Append(callbacks[c], x) /\ asked'[c] = n
      /\ future'[c][n] = "pending"
      /\ \A q \in 1 .. MaxQueries : q # n => future'[c][q] = future[c][q]
      /\ \A d \in Clients : d # c => Untouched(d)
  BY <1>1 DEF Query, EnqueueLoad, TypeOK, workerVars, Untouched
<1> HIDE DEF op, x
<1>4. \A d, q : /\ OnItsWay(d, q)' <=> OnItsWay(d, q) \/ (d = c /\ q = n)
                /\ OnlyOne(d, q) /\ (d = c /\ q = n => ~OnItsWay(d, q)) => OnlyOne(d, q)'
  BY <1>1, <1>2, <1>3, PutWay
<1>5. ListsOK(c) /\ \A q \in 1 .. MaxQueries : QueryOK(c, q)
  BY <1>1 DEF ClientOK
<1>6. ~IsWaiting(c, n) /\ ~OnItsWay(c, n) /\ OnlyOne(c, n)
  BY <1>1, <1>5 DEF QueryOK
<1>7. ~Running(c, n)
  BY <1>6, ClientTypes DEF Running, IsWaiting
<1>8. /\ \A q : Occurs(callbacks'[c], q) <=> Occurs(callbacks[c], q) \/ q = n
      /\ Distinct(callbacks[c]) => Distinct(callbacks'[c])
  BY <1>2, <1>3, <1>6, ClientTypes, AppendList DEF IsWaiting
<1>9. ListsOK(c)'
  <2>1. Apart(callbacks'[c], kept[c]) /\ Apart(callbacks'[c], scan[c])
    BY <1>5, <1>6, <1>8 DEF ListsOK, Apart, IsWaiting
  <2> QED
    BY <1>3, <1>5, <1>8, <2>1, ListsMeaning DEF ListsOK
<1>10. \A q : /\ IsWaiting(c, q)' <=> IsWaiting(c, q) \/ q = n
              /\ Running(c, q)' <=> Running(c, q)
  BY <1>3, <1>8, WaitingMeaning DEF IsWaiting, Running, Current
<1>11. ASSUME NEW q \in 1 .. MaxQueries PROVE QueryOK(c, q)'
  <2>1. CASE q = n
    <3>1. /\ IsWaiting(c, n)' /\ ~Running(c, n)' /\ OnItsWay(c, n)' /\ OnlyOne(c, n)'
      BY <1>4, <1>6, <1>7, <1>10
    <3>2. n <= asked'[c] /\ future'[c][n] = "pending"
      BY <1>1, <1>3
    <3> QED
      BY <2>1, <3>1, <3>2 DEF QueryOK
  <2>2. CASE q # n
    <3>1. q \in Nat /\ QueryOK(c, q) /\ asked'[c] \in Nat /\ asked[c] <= asked'[c]
      BY <1>1, <1>3, <1>5
    <3>2. OnlyOne(c, q)'
      BY <1>4, <2>2, <3>1 DEF QueryOK
    <3> QED
      BY <1>1, <1>3, <1>4, <1>10, <2>2, <3>1, <3>2, QueryFrame
  <2> QED
    BY <2>1, <2>2
<1>12. ClientOK(c)'
  BY <1>9, <1>11 DEF ClientOK
<1> QED
  BY <1>1, <1>3, <1>4, <1>12, OthersFrame

LEMMA LeaveStep ==
    ASSUME TInv, CallbackOK, closer = "open", NEW c \in Clients, Leave(c)
    PROVE  CallbackOK'
<1>1. /\ TypeOK /\ ClientOK(c) /\ place[c] = "idle" /\ place'[c] = "idle"
      /\ UNCHANGED <<queue, worker, answer, asked>>
      /\ callbacks'[c] = <<>> /\ kept'[c] = kept[c] /\ scan'[c] = scan[c]
      /\ \A q \in 1 .. MaxQueries : future'[c][q] = "none"
      /\ \A d \in Clients : d # c => Untouched(d)
  BY DEF TInv, TypeOK, CallbackOK, Leave, queueVars, workerVars, Untouched
<1>2. kept'[c] = <<>> /\ scan'[c] = <<>>
  BY <1>1 DEF ClientOK, ListsOK
<1>3. \A d, q : /\ OnItsWay(d, q)' <=> OnItsWay(d, q)
                /\ OnlyOne(d, q) => OnlyOne(d, q)'
  BY <1>1, SameWay
<1>4. ListsOK(c)'
  BY <1>1, <1>2, EmptyList, ListsMeaning DEF Apart
<1>5. ASSUME NEW q \in 1 .. MaxQueries PROVE QueryOK(c, q)'
  <2>1. ~IsWaiting(c, q)' /\ ~Running(c, q)'
    BY <1>1, <1>2, EmptyList, WaitingMeaning
  <2>2. QueryOK(c, q)
    BY <1>1 DEF ClientOK
  <2> QED
    BY <1>1, <1>3, <2>1, <2>2 DEF QueryOK
<1>6. ClientOK(c)'
  BY <1>4, <1>5 DEF ClientOK
<1> QED
  BY <1>1, <1>3, <1>6, OthersFrame


\* A client begins to look at its callbacks.
LEMMA ProcessReadyCallbacksStep ==
    ASSUME TInv, CallbackOK, closer = "open", NEW c \in Clients, ProcessReadyCallbacks(c)
    PROVE  CallbackOK'
<1>1. /\ TypeOK /\ ClientOK(c) /\ ListsOK(c) /\ asked[c] \in Nat
      /\ place[c] = "idle" /\ place'[c] = "scan"
      /\ UNCHANGED <<queue, worker, answer, asked, future>>
      /\ callbacks'[c] = <<>> /\ kept'[c] = kept[c] /\ scan'[c] = callbacks[c]
      /\ \A d \in Clients : d # c => Untouched(d)
  BY BoundsAssumption
  DEF TInv, TypeOK, CallbackOK, ClientOK, ProcessReadyCallbacks, queueVars, workerVars, Untouched
<1>2. kept[c] = <<>> /\ scan[c] = <<>>
  BY <1>1 DEF ListsOK
<1>3. \A d, q : /\ OnItsWay(d, q)' <=> OnItsWay(d, q)
                /\ OnlyOne(d, q) => OnlyOne(d, q)'
  BY <1>1, SameWay
<1>4. ListsOK(c)'
  BY <1>1, <1>2, EmptyList, ListsMeaning DEF Apart, ListsOK
<1>5. \A q : /\ IsWaiting(c, q)' <=> IsWaiting(c, q)
             /\ Running(c, q)' <=> Running(c, q)
  BY <1>1, <1>2, EmptyList, WaitingMeaning DEF IsWaiting, Running
<1>6. ASSUME NEW q \in 1 .. MaxQueries PROVE QueryOK(c, q)'
  <2>1. q \in Nat /\ QueryOK(c, q)
    BY <1>1 DEF ClientOK
  <2>2. OnlyOne(c, q)'
    BY <1>3, <2>1 DEF QueryOK
  <2> QED
    BY <1>1, <1>3, <1>5, <2>1, <2>2, QueryFrame
<1>7. ClientOK(c)'
  BY <1>4, <1>6 DEF ClientOK
<1> QED
  BY <1>1, <1>3, <1>7, OthersFrame

\* A callback is put aside.
LEMMA NotReadyStep ==
    ASSUME TInv, CallbackOK, closer = "open", NEW c \in Clients, NotReady(c)
    PROVE  CallbackOK'
<1> DEFINE x == Current(c)
<1>1. /\ TypeOK /\ ClientOK(c) /\ ListsOK(c) /\ asked[c] \in Nat
      /\ place[c] = "scan" /\ place'[c] = "scan" /\ scan[c] # <<>>
      /\ UNCHANGED <<queue, worker, answer, asked, future>>
      /\ callbacks'[c] = callbacks[c] /\ kept'[c] = Append(kept[c], x)
      /\ scan'[c] = Tail(scan[c])
      /\ \A d \in Clients : d # c => Untouched(d)
  BY BoundsAssumption
  DEF TInv, TypeOK, CallbackOK, ClientOK, NotReady, queueVars, workerVars, Untouched
<1>2. x \in Callbacks /\ x = Head(scan[c]) /\ Occurs(scan[c], x.query)
  BY <1>1, ClientTypes
<1>3. ~Occurs(kept[c], x.query) /\ ~Occurs(callbacks[c], x.query)
  BY <1>1, <1>2 DEF ListsOK, Apart
<1> HIDE DEF x
<1>4. /\ \A q : Occurs(kept'[c], q) <=> Occurs(kept[c], q) \/ x.query = q
      /\ Distinct(kept'[c])
  BY <1>1, <1>2, <1>3, ClientTypes, AppendList DEF ListsOK
<1>5. /\ \A q : Occurs(scan[c], q) <=> x.query = q \/ Occurs(scan'[c], q)
      /\ Distinct(scan'[c]) /\ ~Occurs(scan'[c], x.query)
  BY <1>1, <1>2, ClientTypes, TailList DEF ListsOK
<1>6. ListsOK(c)'
  <2>1. /\ Apart(callbacks'[c], kept'[c]) /\ Apart(callbacks'[c], scan'[c])
        /\ Apart(kept'[c], scan'[c])
    BY <1>1, <1>3, <1>4, <1>5 DEF ListsOK, Apart
  <2> QED
    BY <1>1, <1>4, <1>5, <2>1, ListsMeaning DEF ListsOK
<1>7. \A d, q : /\ OnItsWay(d, q)' <=> OnItsWay(d, q)
                /\ OnlyOne(d, q) => OnlyOne(d, q)'
  BY <1>1, SameWay
<1>8. \A q : /\ IsWaiting(c, q)' <=> IsWaiting(c, q)
             /\ Running(c, q)' <=> Running(c, q)
  BY <1>1, <1>4, <1>5, WaitingMeaning DEF IsWaiting, Running
<1>9. ASSUME NEW q \in 1 .. MaxQueries PROVE QueryOK(c, q)'
  <2>1. q \in Nat /\ QueryOK(c, q)
    BY <1>1 DEF ClientOK
  <2>2. OnlyOne(c, q)'
    BY <1>7, <2>1 DEF QueryOK
  <2> QED
    BY <1>1, <1>7, <1>8, <2>1, <2>2, QueryFrame
<1>10. ClientOK(c)'
  BY <1>6, <1>9 DEF ClientOK
<1> QED
  BY <1>1, <1>7, <1>10, OthersFrame

\* A callback is called.
LEMMA InvokeStep ==
    ASSUME TInv, CallbackOK, closer = "open", NEW c \in Clients, Invoke(c)
    PROVE  CallbackOK'
<1>1. /\ TypeOK /\ ClientOK(c) /\ ListsOK(c) /\ asked[c] \in Nat
      /\ place[c] = "scan" /\ place'[c] = "callback" /\ scan[c] # <<>>
      /\ UNCHANGED <<queue, worker, answer, asked>>
      /\ callbacks'[c] = callbacks[c] /\ kept'[c] = kept[c] /\ scan'[c] = scan[c]
      /\ \A d \in Clients : d # c => Untouched(d)
  BY BoundsAssumption
  DEF TInv, TypeOK, CallbackOK, ClientOK, Invoke, queueVars, workerVars, Untouched
<1> PICK n \in 1 .. MaxQueries : n = Head(scan[c]).query /\ n = Current(c).query
  BY <1>1, ClientTypes
<1>2. /\ future[c][n] = "ready" /\ future'[c][n] = "none"
      /\ \A q \in 1 .. MaxQueries : q # n => future'[c][q] = future[c][q]
  BY <1>1 DEF Invoke, TypeOK
<1>3. IsWaiting(c, n) /\ QueryOK(c, n)
  BY <1>1, ClientTypes DEF IsWaiting, ClientOK
<1>4. \A d, q : /\ OnItsWay(d, q)' <=> OnItsWay(d, q)
                /\ OnlyOne(d, q) => OnlyOne(d, q)'
  BY <1>1, SameWay
<1>5. ListsOK(c)'
  BY <1>1, ListsMeaning DEF ListsOK
<1>6. \A q : /\ IsWaiting(c, q)' <=> IsWaiting(c, q)
             /\ Running(c, q)' <=> q = n
             /\ ~Running(c, q)
  BY <1>1, WaitingMeaning DEF IsWaiting, Running
<1>7. ASSUME NEW q \in 1 .. MaxQueries PROVE QueryOK(c, q)'
  <2>1. q \in Nat /\ QueryOK(c, q) /\ OnlyOne(c, q)
    BY <1>1 DEF ClientOK, QueryOK
  <2>2. CASE q = n
    <3>1. /\ IsWaiting(c, q)' /\ Running(c, q)' /\ ~OnItsWay(c, q)' /\ OnlyOne(c, q)'
          /\ q <= asked'[c]
      BY <1>1, <1>2, <1>3, <1>4, <1>6, <2>1, <2>2 DEF QueryOK
    <3> QED
      BY <1>2, <2>2, <3>1 DEF QueryOK
  <2>3. CASE q # n
    <3>1. OnlyOne(c, q)' /\ (Running(c, q)' <=> Running(c, q))
      BY <1>4, <1>6, <2>1, <2>3
    <3> QED
      BY <1>1, <1>2, <1>4, <1>6, <2>1, <2>3, <3>1, QueryFrame
  <2> QED
    BY <2>2, <2>3
<1>8. ClientOK(c)'
  BY <1>5, <1>7 DEF ClientOK
<1> QED
  BY <1>1, <1>4, <1>8, OthersFrame

\* A callback returns without a next query.
LEMMA EndChainStep ==
    ASSUME TInv, CallbackOK, closer = "open", NEW c \in Clients, EndChain(c)
    PROVE  CallbackOK'
<1>1. /\ TypeOK /\ ClientOK(c) /\ ListsOK(c) /\ asked[c] \in Nat
      /\ place[c] = "callback" /\ place'[c] = "scan" /\ scan[c] # <<>>
      /\ UNCHANGED <<queue, worker, answer, asked, future>>
      /\ callbacks'[c] = callbacks[c] /\ kept'[c] = kept[c] /\ scan'[c] = Tail(scan[c])
      /\ \A d \in Clients : d # c => Untouched(d)
  BY BoundsAssumption
  DEF TInv, TypeOK, ScanOK, CallbackOK, ClientOK, EndChain, queueVars, workerVars, Untouched
<1> PICK n \in 1 .. MaxQueries : n = Head(scan[c]).query /\ n = Current(c).query
  BY <1>1, ClientTypes
<1>2. /\ \A q : Occurs(scan[c], q) <=> n = q \/ Occurs(scan'[c], q)
      /\ Distinct(scan'[c]) /\ ~Occurs(scan'[c], n)
  BY <1>1, ClientTypes, TailList DEF ListsOK
<1>3. ~Occurs(kept[c], n) /\ ~Occurs(callbacks[c], n)
  BY <1>1, <1>2 DEF ListsOK, Apart
<1>4. \A d, q : /\ OnItsWay(d, q)' <=> OnItsWay(d, q)
                /\ OnlyOne(d, q) => OnlyOne(d, q)'
  BY <1>1, SameWay
<1>5. ListsOK(c)'
  <2>1. /\ Apart(callbacks'[c], kept'[c]) /\ Apart(callbacks'[c], scan'[c])
        /\ Apart(kept'[c], scan'[c])
    BY <1>1, <1>2 DEF ListsOK, Apart
  <2> QED
    BY <1>1, <1>2, <2>1, ListsMeaning DEF ListsOK
<1>6. \A q : /\ IsWaiting(c, q)' <=> IsWaiting(c, q) /\ q # n
             /\ ~Running(c, q)'
             /\ Running(c, q) <=> q = n
  BY <1>1, <1>2, <1>3, WaitingMeaning DEF IsWaiting, Running
<1>7. ASSUME NEW q \in 1 .. MaxQueries PROVE QueryOK(c, q)'
  <2>1. q \in Nat /\ QueryOK(c, q) /\ OnlyOne(c, q)
    BY <1>1 DEF ClientOK, QueryOK
  <2>2. CASE q = n
    <3>1. /\ ~IsWaiting(c, q)' /\ ~Running(c, q)' /\ ~OnItsWay(c, q)' /\ OnlyOne(c, q)'
          /\ future'[c][q] = "none"
      BY <1>1, <1>4, <1>6, <2>1, <2>2 DEF QueryOK, TypeOK
    <3> QED
      BY <3>1 DEF QueryOK
  <2>3. CASE q # n
    <3>1. /\ OnlyOne(c, q)' /\ (Running(c, q)' <=> Running(c, q))
          /\ IsWaiting(c, q)' <=> IsWaiting(c, q)
      BY <1>4, <1>6, <2>1, <2>3
    <3> QED
      BY <1>1, <1>4, <2>1, <3>1, QueryFrame
  <2> QED
    BY <2>2, <2>3
<1>8. ClientOK(c)'
  BY <1>5, <1>7 DEF ClientOK
<1> QED
  BY <1>1, <1>4, <1>8, OthersFrame


\* A callback asks the next query of its chain.
LEMMA NextQueryStep ==
    ASSUME TInv, CallbackOK, closer = "open", NEW c \in Clients, NextQuery(c)
    PROVE  CallbackOK'
<1>1. /\ TypeOK /\ ClientOK(c) /\ ListsOK(c) /\ asked[c] \in Nat /\ saved[c] \in 0 .. MaxSaves
      /\ place[c] = "callback" /\ place'[c] = "scan" /\ scan[c] # <<>>
      /\ UNCHANGED <<worker, asked>>
      /\ callbacks'[c] = callbacks[c] /\ scan'[c] = Tail(scan[c])
      /\ kept'[c] = Append(kept[c], [Current(c) EXCEPT !.stage = @ + 1])
      /\ EnqueueLoad(c, Current(c).query)
  BY BoundsAssumption
  DEF TInv, TypeOK, ScanOK, CallbackOK, ClientOK, NextQuery, workerVars
<1> PICK n \in 1 .. MaxQueries : n = Head(scan[c]).query /\ n = Current(c).query
  BY <1>1, ClientTypes
<1> DEFINE x == [Current(c) EXCEPT !.stage = @ + 1]
           op == [kind |-> "load", client |-> c, version |-> saved[c], query |-> n]
<1>2. x \in Callbacks /\ x.query = n /\ kept'[c] = Append(kept[c], x)
  <2>1. Current(c) \in Callbacks
    BY <1>1, ClientTypes
  <2>2. x \in Callbacks
    BY <2>1, BoundsAssumption, SMTT(40) DEF NextQuery, Callbacks
  <2> QED
    BY <1>1, <2>1, <2>2 DEF Callbacks
<1>3. /\ Q!Put(op) /\ future'[c][n] = "pending"
      /\ \A q \in 1 .. MaxQueries : q # n => future'[c][q] = future[c][q]
      /\ \A d \in Clients : d # c => future'[d] = future[d]
  BY <1>1 DEF EnqueueLoad, TypeOK
<1>4. \A d \in Clients : d # c => Untouched(d)
  BY <1>1, <1>3 DEF NextQuery, TypeOK, Untouched
<1>5. /\ op \in Operations
      /\ \A d, q : IsLoad(op, d, q) <=> d = c /\ q = n
  BY <1>1, OperationTypes DEF IsLoad
<1> HIDE DEF x, op
<1>6. \A d, q : /\ OnItsWay(d, q)' <=> OnItsWay(d, q) \/ (d = c /\ q = n)
                /\ OnlyOne(d, q) /\ (d = c /\ q = n => ~OnItsWay(d, q)) => OnlyOne(d, q)'
  BY <1>1, <1>3, <1>5, PutWay
<1>7. /\ \A q : Occurs(scan[c], q) <=> n = q \/ Occurs(scan'[c], q)
      /\ Distinct(scan'[c]) /\ ~Occurs(scan'[c], n)
  BY <1>1, ClientTypes, TailList DEF ListsOK
<1>8. ~Occurs(kept[c], n) /\ ~Occurs(callbacks[c], n)
  BY <1>1, <1>7 DEF ListsOK, Apart
<1>9. /\ \A q : Occurs(kept'[c], q) <=> Occurs(kept[c], q) \/ q = n
      /\ Distinct(kept'[c])
  BY <1>1, <1>2, <1>8, ClientTypes, AppendList DEF ListsOK
<1>10. ListsOK(c)'
  <2>1. /\ Apart(callbacks'[c], kept'[c]) /\ Apart(callbacks'[c], scan'[c])
        /\ Apart(kept'[c], scan'[c])
    BY <1>1, <1>7, <1>8, <1>9 DEF ListsOK, Apart
  <2> QED
    BY <1>1, <1>7, <1>9, <2>1, ListsMeaning DEF ListsOK
<1>11. \A q : /\ IsWaiting(c, q)' <=> IsWaiting(c, q)
              /\ ~Running(c, q)'
              /\ Running(c, q) <=> q = n
  BY <1>1, <1>7, <1>9, WaitingMeaning DEF IsWaiting, Running
<1>12. IsWaiting(c, n)
  BY <1>7 DEF IsWaiting
<1>13. ASSUME NEW q \in 1 .. MaxQueries PROVE QueryOK(c, q)'
  <2>1. q \in Nat /\ QueryOK(c, q) /\ OnlyOne(c, q)
    BY <1>1 DEF ClientOK, QueryOK
  <2>2. CASE q = n
    <3>1. ~OnItsWay(c, n) /\ n <= asked[c]
      BY <1>11, <1>12, <2>1, <2>2 DEF QueryOK
    <3>2. /\ IsWaiting(c, q)' /\ ~Running(c, q)' /\ OnItsWay(c, q)' /\ OnlyOne(c, q)'
          /\ future'[c][q] = "pending" /\ q <= asked'[c]
      BY <1>1, <1>3, <1>6, <1>11, <1>12, <2>1, <2>2, <3>1
    <3> QED
      BY <3>2 DEF QueryOK
  <2>3. CASE q # n
    <3>1. /\ OnlyOne(c, q)' /\ (Running(c, q)' <=> Running(c, q))
          /\ OnItsWay(c, q)' <=> OnItsWay(c, q)
      BY <1>6, <1>11, <2>1, <2>3
    <3> QED
      BY <1>1, <1>3, <1>11, <2>1, <2>3, <3>1, QueryFrame
  <2> QED
    BY <2>2, <2>3
<1>14. ClientOK(c)'
  BY <1>10, <1>13 DEF ClientOK
<1> QED
  BY <1>1, <1>4, <1>6, <1>14, OthersFrame

\* What is left is put behind the new callbacks.
LEMMA EndProcessingStep ==
    ASSUME TInv, CallbackOK, closer = "open", NEW c \in Clients, EndProcessing(c)
    PROVE  CallbackOK'
<1>1. /\ TypeOK /\ ClientOK(c) /\ ListsOK(c) /\ asked[c] \in Nat
      /\ place[c] = "scan" /\ place'[c] = "idle" /\ scan[c] = <<>>
      /\ UNCHANGED <<queue, worker, answer, asked, future>>
      /\ callbacks'[c] = callbacks[c] \o kept[c] /\ kept'[c] = <<>> /\ scan'[c] = <<>>
      /\ \A d \in Clients : d # c => Untouched(d)
  BY BoundsAssumption
  DEF TInv, TypeOK, CallbackOK, ClientOK, EndProcessing, queueVars, workerVars, Untouched
<1>2. /\ \A q : Occurs(callbacks'[c], q) <=> Occurs(callbacks[c], q) \/ Occurs(kept[c], q)
      /\ Distinct(callbacks'[c])
  BY <1>1, ClientTypes, ConcatList DEF ListsOK
<1>3. ListsOK(c)'
  BY <1>1, <1>2, EmptyList, ListsMeaning DEF Apart
<1>4. \A d, q : /\ OnItsWay(d, q)' <=> OnItsWay(d, q)
                /\ OnlyOne(d, q) => OnlyOne(d, q)'
  BY <1>1, SameWay
<1>5. \A q : /\ IsWaiting(c, q)' <=> IsWaiting(c, q)
             /\ Running(c, q)' <=> Running(c, q)
  BY <1>1, <1>2, EmptyList, WaitingMeaning DEF IsWaiting, Running
<1>6. ASSUME NEW q \in 1 .. MaxQueries PROVE QueryOK(c, q)'
  <2>1. q \in Nat /\ QueryOK(c, q)
    BY <1>1 DEF ClientOK
  <2>2. OnlyOne(c, q)'
    BY <1>4, <2>1 DEF QueryOK
  <2> QED
    BY <1>1, <1>4, <1>5, <2>1, <2>2, QueryFrame
<1>7. ClientOK(c)'
  BY <1>3, <1>6 DEF ClientOK
<1> QED
  BY <1>1, <1>4, <1>7, OthersFrame

-----------------------------------------------------------------------------
(* The steps of a worker.                                                  *)

LEMMA WorkerStep ==
    ASSUME TInv, CallbackOK, closer = "open", NEW w \in Workers, WorkerThread(w)
    PROVE  CallbackOK'
<1>1. TypeOK /\ ~closed
  BY DEF TInv, RunningOK
<1>2. CASE CallWaitAndPop(w)
  <2>1. /\ queue' = queue /\ UNCHANGED <<callbacks, kept, scan, place, asked, future>>
        /\ worker[w] = "top" /\ worker'[w] = "pop"
        /\ \A v \in Workers : v # w => worker'[v] = worker[v] /\ answer'[v] = answer[v]
    BY <1>1, <1>2 DEF CallWaitAndPop, Q!Ask, TypeOK, callbackVars
  <2>2. \A v \in Workers : \A c, q : Holds(v, c, q)' <=> Holds(v, c, q)
    BY <2>1 DEF Holds, InHand
  <2> QED
    BY <1>1, <2>1, <2>2, HandsWay, AllFrame
<1>3. CASE ReturnFromWaitAndPop(w)
  <2>1. /\ Q!Hand(w) /\ worker[w] = "pop" /\ worker' = [worker EXCEPT ![w] = "check"]
        /\ UNCHANGED <<callbacks, kept, scan, place, asked, future>>
    BY <1>1, <1>3 DEF ReturnFromWaitAndPop, Q!TurnAway, callbackVars
  <2> QED
    BY <1>1, <2>1, HandWay, AllFrame
<1>4. CASE Exit(w)
  <2>1. /\ queue' = queue /\ UNCHANGED <<answer, callbacks, kept, scan, place, asked, future>>
        /\ answer[w] = NoOperation
        /\ \A v \in Workers : v # w => worker'[v] = worker[v]
    BY <1>1, <1>4 DEF Exit, TInv, RunningOK, TypeOK, callbackVars, queueVars
  <2>2. \A v \in Workers : \A c, q : Holds(v, c, q)' <=> Holds(v, c, q)
    BY <2>1 DEF Holds, InHand
  <2> QED
    BY <1>1, <2>1, <2>2, HandsWay, AllFrame
<1>5. CASE BeginCall(w)
  <2>1. /\ queue' = queue /\ UNCHANGED <<answer, callbacks, kept, scan, place, asked, future>>
        /\ worker[w] = "check" /\ worker'[w] = "call"
        /\ \A v \in Workers : v # w => worker'[v] = worker[v]
    BY <1>1, <1>5 DEF BeginCall, TypeOK, callbackVars, queueVars
  <2>2. \A v \in Workers : \A c, q : Holds(v, c, q)' <=> Holds(v, c, q)
    BY <2>1 DEF Holds, InHand
  <2> QED
    BY <1>1, <2>1, <2>2, HandsWay, AllFrame
<1>6. CASE Call(w)
  <2>1. /\ worker' = [worker EXCEPT ![w] = "top"] /\ UNCHANGED <<queue, answer, asked>>
        /\ UNCHANGED <<callbacks, kept, scan, place>>
        /\ answer[w] \in Operations /\ InHand(w)
    BY <1>1, <1>6 DEF Call, TInv, TypeOK, HandOK, InHand, callbackVars, queueVars
  <2>2. \A c, q : /\ OnlyOne(c, q) => OnlyOne(c, q)'
                  /\ Holds(w, c, q) /\ OnlyOne(c, q) => ~OnItsWay(c, q)'
                  /\ ~Holds(w, c, q) => (OnItsWay(c, q)' <=> OnItsWay(c, q))
    BY <1>1, <2>1, CallWay
  <2>3. CASE answer[w].kind = "save"
    <3>1. UNCHANGED future
      BY <1>6, <2>3 DEF Call
    <3>2. \A c, q : ~Holds(w, c, q)
      BY <2>3 DEF Holds, IsLoad
    <3> QED
      BY <1>1, <2>1, <2>2, <3>1, <3>2, AllFrame
  <2>4. CASE answer[w].kind = "load"
    <3> PICK c \in Clients, n \in 1 .. MaxQueries : c = answer[w].client /\ n = answer[w].query
      BY <2>1, <2>4, OperationKinds
    <3>1. /\ future'[c][n] = IF future[c][n] = "pending" THEN "ready" ELSE future[c][n]
          /\ \A q \in 1 .. MaxQueries : q # n => future'[c][q] = future[c][q]
          /\ \A d \in Clients : d # c => future'[d] = future[d]
          /\ future[c][n] \in {"none", "pending", "ready"}
      <4>1. future' = [future EXCEPT ![c][n] = IF @ = "pending" THEN "ready" ELSE @]
        BY <1>6, <2>4 DEF Call
      <4>2. future \in [Clients -> [1 .. MaxQueries -> {"none", "pending", "ready"}]]
        BY <1>1 DEF TypeOK
      <4> QED
        BY <4>1, <4>2
    <3>2. \A d, q : Holds(w, d, q) <=> d = c /\ q = n
      BY <2>1, <2>4 DEF Holds, IsLoad
    <3>3. ClientOK(c) /\ ListsOK(c) /\ asked[c] \in Nat
      BY <1>1, BoundsAssumption DEF CallbackOK, ClientOK, TypeOK
    <3>4. ListsOK(c)'
      BY <2>1, <3>3, ListsMeaning DEF ListsOK
    <3>5. \A q : /\ IsWaiting(c, q)' <=> IsWaiting(c, q)
                 /\ Running(c, q)' <=> Running(c, q)
      BY <2>1, WaitingMeaning DEF IsWaiting, Running, Current
    <3>6. ASSUME NEW q \in 1 .. MaxQueries PROVE QueryOK(c, q)'
      <4>1. q \in Nat /\ QueryOK(c, q) /\ OnlyOne(c, q) /\ OnlyOne(c, q)'
        BY <2>2, <3>3 DEF ClientOK, QueryOK
      <4>2. CASE q = n
        <5>1. ~OnItsWay(c, q)' /\ OnItsWay(c, q)
          BY <2>2, <3>2, <4>1, <4>2 DEF OnItsWay
        <5>2. IsWaiting(c, q)' => q <= asked'[c]
          BY <2>1, <3>5, <4>1 DEF QueryOK
        <5>3. /\ future'[c][q] # "none" <=> IsWaiting(c, q)' /\ ~Running(c, q)'
              /\ future'[c][q] # "pending"
          BY <3>1, <3>5, <4>1, <4>2 DEF QueryOK
        <5> QED
          BY <4>1, <5>1, <5>2, <5>3 DEF QueryOK
      <4>3. CASE q # n
        <5>1. OnItsWay(c, q)' <=> OnItsWay(c, q)
          BY <2>2, <3>2, <4>3
        <5> QED
          BY <2>1, <3>1, <3>3, <3>5, <4>1, <4>3, <5>1, QueryFrame
      <4> QED
        BY <4>2, <4>3
    <3>7. ClientOK(c)'
      BY <3>4, <3>6 DEF ClientOK
    <3>8. \A d \in Clients : d # c => Untouched(d)
      BY <2>1, <3>1 DEF Untouched
    <3>9. \A d \in Clients, q \in 1 .. MaxQueries : d # c =>
              /\ OnItsWay(d, q)' <=> OnItsWay(d, q)
              /\ OnlyOne(d, q) => OnlyOne(d, q)'
      BY <2>2, <3>2
    <3> QED
      BY <1>1, <3>7, <3>8, <3>9, OthersFrame
  <2> QED
    BY <2>1, <2>3, <2>4, OperationKinds
<1> QED
  BY <1>2, <1>3, <1>4, <1>5, <1>6 DEF WorkerThread


-----------------------------------------------------------------------------
(* No callback is lost.                                                    *)

LEMMA CallbackInit == Init => CallbackOK
<1> SUFFICES ASSUME Init, NEW c \in Clients PROVE ClientOK(c)
  BY DEF CallbackOK
<1>1. /\ callbacks[c] = <<>> /\ kept[c] = <<>> /\ scan[c] = <<>> /\ place[c] = "idle"
      /\ queue = <<>> /\ \A w \in Workers : worker[w] = "top"
      /\ \A q \in 1 .. MaxQueries : future[c][q] = "none"
  BY DEF Init, Q!Init
<1>2. ListsOK(c)
  BY <1>1, EmptyList DEF ListsOK, Apart
<1>3. \A q : ~IsWaiting(c, q) /\ ~Running(c, q)
  BY <1>1, EmptyList DEF IsWaiting, Running
<1>4. \A q : ~OnItsWay(c, q) /\ OnlyOne(c, q)
  <2>1. \A k : k \notin 1 .. Len(queue)
    BY <1>1
  <2>2. \A w \in Workers : ~InHand(w)
    BY <1>1 DEF InHand
  <2> QED
    BY <2>1, <2>2 DEF OnItsWay, OnlyOne, Holds
<1> QED
  BY <1>1, <1>2, <1>3, <1>4 DEF ClientOK, QueryOK

LEMMA CallbackStep == TInv /\ CallbackOK /\ [Next]_vars => CallbackOK'
<1> SUFFICES ASSUME TInv, CallbackOK, [Next]_vars, closer' = "open" PROVE CallbackOK'
  BY DEF CallbackOK
<1>1. ASSUME NEW c \in Clients, Save(c) \/ Query(c) \/ Leave(c) \/ ClientThread(c)
      PROVE  CallbackOK'
  <2>1. closer = "open"
    BY <1>1 DEF Save, Query, Leave, ClientThread, ProcessReadyCallbacks, NotReady, Invoke,
                EndChain, NextQuery, EndProcessing, closeVars
  <2> QED
    BY <1>1, <2>1, SaveStep, QueryStep, LeaveStep, ProcessReadyCallbacksStep, NotReadyStep,
       InvokeStep, EndChainStep, NextQueryStep, EndProcessingStep DEF ClientThread
<1>2. ASSUME NEW w \in Workers, WorkerThread(w) PROVE CallbackOK'
  <2>1. closer = "open"
    BY <1>2 DEF WorkerThread, CallWaitAndPop, ReturnFromWaitAndPop, Exit, BeginCall, Call,
                closeVars
  <2> QED
    BY <1>2, <2>1, WorkerStep
<1>3. ~Close /\ ~Closing
  BY DEF Close, Closing, SetToken, CancelQueue, Join, EndClose
<1>4. CASE UNCHANGED vars
  <2>1. /\ UNCHANGED <<queue, worker, answer, callbacks, kept, scan, place, asked, future>>
        /\ closer = "open" /\ TypeOK
    BY <1>4 DEF vars, queueVars, workerVars, closeVars, callbackVars, TInv
  <2>2. \A c, q : /\ OnItsWay(c, q)' <=> OnItsWay(c, q)
                  /\ OnlyOne(c, q) => OnlyOne(c, q)'
    BY <2>1, SameWay
  <2> QED
    BY <2>1, <2>2, AllFrame
<1> QED
  BY <1>1, <1>2, <1>3, <1>4 DEF Next, Terminated

\* The callbacks of the three lists, as one list.
LEMMA WaitingIsOneList ==
    ASSUME TInv, NEW c \in Clients, ListsOK(c)
    PROVE  /\ DOMAIN Waiting(c) = 1 .. Len(Waiting(c))
           /\ Distinct(Waiting(c))
           /\ \A q : Occurs(Waiting(c), q) <=> IsWaiting(c, q)
<1> DEFINE a == callbacks[c] \o kept[c]
           b == a \o scan[c]
<1>1. /\ callbacks[c] \in Seq(Callbacks) /\ kept[c] \in Seq(Callbacks)
      /\ scan[c] \in Seq(Callbacks)
  BY ClientTypes
<1>2. /\ a \in Seq(Callbacks)
      /\ \A q : Occurs(a, q) <=> Occurs(callbacks[c], q) \/ Occurs(kept[c], q)
      /\ Distinct(a)
  BY <1>1, ConcatList DEF ListsOK
<1> HIDE DEF a
<1>3. Apart(a, scan[c])
  BY <1>2 DEF ListsOK, Apart
<1>4. /\ b \in Seq(Callbacks)
      /\ \A q : Occurs(b, q) <=> Occurs(a, q) \/ Occurs(scan[c], q)
      /\ Distinct(b)
  BY <1>1, <1>2, <1>3, ConcatList DEF ListsOK
<1>5. Waiting(c) = b
  BY <1>1 DEF Waiting, a
<1> HIDE DEF b
<1>6. DOMAIN b = 1 .. Len(b)
  BY <1>4
<1> QED
  BY <1>2, <1>4, <1>5, <1>6 DEF IsWaiting

\* The loads on their way, as a set.
LEMMA PipelineIsTheWay ==
    ASSUME TypeOK, NEW c, NEW q
    PROVE  /\ ~OnItsWay(c, q) => Pipeline(c, q) = {}
           /\ OnItsWay(c, q) /\ OnlyOne(c, q) => Cardinality(Pipeline(c, q)) = 1
<1> DEFINE P == Pipeline(c, q)
<1>1. DOMAIN queue = 1 .. Len(queue)
  BY DEF TypeOK
<1>2. \A x : x \in P <=> \/ x \in 1 .. Len(queue) /\ IsLoad(queue[x], c, q)
                         \/ x \in Workers /\ Holds(x, c, q)
  BY <1>1 DEF Pipeline, IsLoad, Holds
<1> HIDE DEF P
<1>3. ~OnItsWay(c, q) => P = {}
  BY <1>2 DEF OnItsWay
<1>4. ASSUME OnItsWay(c, q), OnlyOne(c, q) PROVE Cardinality(P) = 1
  <2>1. PICK x : x \in P
    BY <1>2, <1>4 DEF OnItsWay
  <2>2. \A y \in P : y = x
    BY <1>2, <1>4, <2>1 DEF OnlyOne
  <2>3. P = {x}
    BY <2>1, <2>2
  <2> QED
    BY <2>3, FS_Singleton
<1> QED
  BY <1>3, <1>4 DEF P

LEMMA NoneIsLost == TInv /\ CallbackOK => NoCallbackLost
<1> SUFFICES ASSUME TInv, CallbackOK, closer = "open", NEW c \in Clients
             PROVE  /\ \A j, k \in DOMAIN Waiting(c) :
                            j # k => Waiting(c)[j].query # Waiting(c)[k].query
                    /\ \A q \in 1 .. MaxQueries :
                          /\ future[c][q] # "none" <=> Awaited(c, q)
                          /\ future[c][q] = "pending" => Cardinality(Pipeline(c, q)) = 1
                          /\ future[c][q] = "ready" => Pipeline(c, q) = {}
  BY DEF NoCallbackLost
<1>1. TypeOK /\ ListsOK(c) /\ \A q \in 1 .. MaxQueries : QueryOK(c, q)
  BY DEF TInv, CallbackOK, ClientOK
<1>2. /\ DOMAIN Waiting(c) = 1 .. Len(Waiting(c))
      /\ Distinct(Waiting(c))
      /\ \A q : Occurs(Waiting(c), q) <=> IsWaiting(c, q)
  BY <1>1, WaitingIsOneList
<1>3. \A j, k \in DOMAIN Waiting(c) : j # k => Waiting(c)[j].query # Waiting(c)[k].query
  BY <1>2 DEF Distinct
<1>4. ASSUME NEW q \in 1 .. MaxQueries
      PROVE  /\ future[c][q] # "none" <=> Awaited(c, q)
             /\ future[c][q] = "pending" => Cardinality(Pipeline(c, q)) = 1
             /\ future[c][q] = "ready" => Pipeline(c, q) = {}
  <2>1. Awaited(c, q) <=> IsWaiting(c, q) /\ ~Running(c, q)
    BY <1>2 DEF Awaited, Occurs, Running
  <2> QED
    BY <1>1, <2>1, PipelineIsTheWay DEF QueryOK
<1> QED
  BY <1>3, <1>4

\* No callback is lost or called twice while the pool is open: every future has exactly
\* one callback that waits for it, a future that is not ready has exactly one load on
\* the way to set it, and a ready one none (AsyncCallbackProcessor, DatabaseWorker).
THEOREM NoCallbackIsLost == Spec => []NoCallbackLost
<1>1. Init => TInv /\ CallbackOK
  BY TypeInit, CallbackInit
<1>2. (TInv /\ CallbackOK) /\ [Next]_vars => (TInv /\ CallbackOK)'
  BY TypeStep, CallbackStep
<1> QED
  BY <1>1, <1>2, NoneIsLost, PTL DEF Spec

=============================================================================

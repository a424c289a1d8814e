---------------------------- MODULE SqlTransaction ----------------------------
(***************************************************************************)
(* How a transaction is executed on a MySQL connection                     *)
(* (MySQLConnection::ExecuteTransaction and the error handling below it),  *)
(* retried after a deadlock and reported (TransactionTask,                 *)
(* TransactionWithResultTask, DatabaseWorkerPool::DirectCommitTransaction).*)
(*                                                                         *)
(* A step is one request to the server with what the code does with the    *)
(* reply; a request that waits for a row lock takes two.                   *)
(***************************************************************************)
EXTENDS MySQLServer

CONSTANTS
    Async,         \* connections of the worker threads; the others are shared by callers
    Queued,        \* transactions of CommitTransaction and AsyncCommitTransaction;
                   \* the others are executed by DirectCommitTransaction
    Rejected,      \* pairs <<t, k>>: statements the server refuses (a duplicate key)
    LoopBreaker,   \* loopBreaker
    CanReconnect,  \* whether _HandleMySQLErrno may find the server again
    MaxLosses,     \* bound of the model on lost connections
    NoTransaction

ASSUME LoopBreakerAssumption == LoopBreaker \in Nat \ {0}
ASSUME AsyncAssumption == Async \subseteq Connections
ASSUME QueuedAssumption == Queued \subseteq Transactions /\ NoTransaction \notin Transactions
ASSUME FaultAssumption == CanReconnect \in BOOLEAN /\ MaxLosses \in Nat

VARIABLES
    pc,            \* the request a connection sends next
    task,          \* the transaction it executes
    at,            \* the next statement of m_queries
    tries,         \* retries begun
    errno,         \* the error code ExecuteTransaction returns, or is about to
    link,          \* the connection: "up", "lost" (being reopened), "dead" (m_Mysql is null)
    deadlockLock,  \* who holds TransactionTask::_deadlockLock
    outcome,       \* what the caller of a transaction learns
    alive,         \* the process has not aborted
    losses         \* history: connections lost

connVars == <<pc, task, at, tries, errno>>
vars == <<serverVars, connVars, link, deadlockLock, outcome, alive, losses>>

Places == {"idle", "begin", "run", "commit", "rollback", "returned"}
Errors == {"none", "deadlock", "other"}

TypeOK ==
    /\ ServerTypeOK
    /\ pc \in [Connections -> Places]
    /\ task \in [Connections -> Transactions \cup {NoTransaction}]
    /\ at \in [Connections -> Nat]
    /\ tries \in [Connections -> 0 .. LoopBreaker]
    /\ errno \in [Connections -> Errors]
    /\ link \in [Connections -> {"up", "lost", "dead"}]
    /\ deadlockLock \in Connections \cup {NoConnection}
    /\ outcome \in [Transactions -> {"pending", "running", "ok", "failed"}]
    /\ alive \in BOOLEAN
    /\ losses \in Nat

Init ==
    /\ ServerInit
    /\ pc = [c \in Connections |-> "idle"]
    /\ task = [c \in Connections |-> NoTransaction]
    /\ at = [c \in Connections |-> 0]
    /\ tries = [c \in Connections |-> 0]
    /\ errno = [c \in Connections |-> "none"]
    /\ link = [c \in Connections |-> "up"]
    /\ deadlockLock = NoConnection
    /\ outcome = [t \in Transactions |-> "pending"]
    /\ alive = TRUE
    /\ losses = 0

Length(c) == Len(Statements[task[c]])

Doing(c, place) == alive /\ pc[c] = place

Goto(c, place) == pc' = [pc EXCEPT ![c] = place]

-----------------------------------------------------------------------------
(* MySQLConnection::ExecuteTransaction on connection c.                    *)

\* Its first lines: an empty transaction returns -1 and never reaches the server.
Enter(c, t) ==
    /\ Goto(c, IF Statements[t] = <<>> THEN "returned" ELSE "begin")
    /\ errno' = [errno EXCEPT ![c] = IF Statements[t] = <<>> THEN "other" ELSE "none"]

\* Mutant of BeginTransaction: no START TRANSACTION is sent.
BeginNothing(c) ==
    /\ Doing(c, "begin")
    /\ link[c] # "lost"
    /\ UNCHANGED serverVars
    /\ Goto(c, "run")
    /\ at' = [at EXCEPT ![c] = 1]
    /\ UNCHANGED <<task, tries, errno, link, deadlockLock, outcome, alive, losses>>

\* START TRANSACTION; its result is not looked at.
BeginTransaction(c) ==
    /\ Doing(c, "begin")
    /\ \/ link[c] = "up" /\ ServerStart(c)
       \/ link[c] = "dead" /\ UNCHANGED serverVars
    /\ Goto(c, "run")
    /\ at' = [at EXCEPT ![c] = 1]
    /\ UNCHANGED <<task, tries, errno, link, deadlockLock, outcome, alive, losses>>

\* A statement waits for its row.
StatementWaits(c) ==
    /\ Doing(c, "run")
    /\ link[c] = "up"
    /\ ServerWait(c, Statements[task[c]][at[c]])
    /\ UNCHANGED <<connVars, link, deadlockLock, outcome, alive, losses>>

\* A statement succeeds; after the last one comes the COMMIT.
ExecuteStatement(c) ==
    /\ Doing(c, "run")
    /\ link[c] = "up"
    /\ <<task[c], at[c]>> \notin Rejected
    /\ ServerWrite(c, task[c], at[c])
    /\ IF at[c] = Length(c)
         THEN Goto(c, "commit") /\ UNCHANGED at
         ELSE at' = [at EXCEPT ![c] = @ + 1] /\ UNCHANGED pc
    /\ UNCHANGED <<task, tries, errno, link, deadlockLock, outcome, alive, losses>>

\* Execute returns false with error e; the error code is read before the ROLLBACK.
Abandon(c, e) ==
    /\ Goto(c, "rollback")
    /\ errno' = [errno EXCEPT ![c] = e]
    /\ UNCHANGED <<task, at, tries, link, deadlockLock, outcome, alive, losses>>

\* The server refuses the statement; the transaction stays open.
StatementRejected(c) ==
    /\ Doing(c, "run")
    /\ link[c] = "up"
    /\ <<task[c], at[c]>> \in Rejected
    /\ Available(c, Statements[task[c]][at[c]])
    /\ Abandon(c, "other")
    /\ UNCHANGED serverVars

\* m_Mysql is null: Execute returns false at once.  What mysql_errno says of a null
\* handle differs between the client libraries.
StatementUnsent(c) ==
    /\ Doing(c, "run")
    /\ link[c] = "dead"
    /\ \E e \in {"none", "other"} : Abandon(c, e)
    /\ UNCHANGED serverVars

\* ER_LOCK_DEADLOCK: the server has rolled the whole transaction back.
DeadlockVictim(c) ==
    /\ Doing(c, "run")
    /\ Deadlocked(c)
    /\ ServerRollback(c)
    /\ Abandon(c, "deadlock")

\* Mutant of RollbackTransaction: the ROLLBACK is left out.
RollbackNothing(c) ==
    /\ Doing(c, "rollback")
    /\ link[c] # "lost"
    /\ UNCHANGED serverVars
    /\ Goto(c, "returned")
    /\ UNCHANGED <<task, at, tries, errno, link, deadlockLock, outcome, alive, losses>>

\* Mutant of RollbackTransaction: GetLastError is called after the ROLLBACK and
\* finds no error.
RollbackBeforeErrno(c) ==
    /\ Doing(c, "rollback")
    /\ link[c] # "lost"
    /\ ServerRollback(c)
    /\ Goto(c, "returned")
    /\ errno' = [errno EXCEPT ![c] = "none"]
    /\ UNCHANGED <<task, at, tries, link, deadlockLock, outcome, alive, losses>>

RollbackTransaction(c) ==
    /\ Doing(c, "rollback")
    /\ \/ link[c] = "up" /\ ServerRollback(c)
       \/ link[c] = "dead" /\ UNCHANGED serverVars
    /\ Goto(c, "returned")
    /\ UNCHANGED <<task, at, tries, errno, link, deadlockLock, outcome, alive, losses>>

\* COMMIT; its result is not looked at, the transaction returns 0.
CommitTransaction(c) ==
    /\ Doing(c, "commit")
    /\ \/ link[c] = "up" /\ ServerCommit(c)
       \/ link[c] = "dead" /\ UNCHANGED serverVars
    /\ Goto(c, "returned")
    /\ errno' = [errno EXCEPT ![c] = "none"]
    /\ UNCHANGED <<task, at, tries, link, deadlockLock, outcome, alive, losses>>

-----------------------------------------------------------------------------
(* MySQLConnection::_HandleMySQLErrno.                                     *)

Lost(c) ==
    /\ losses < MaxLosses
    /\ losses' = losses + 1
    /\ link' = [link EXCEPT ![c] = "lost"]
    /\ UNCHANGED <<connVars, deadlockLock, outcome, alive>>

\* The request finds that the connection is gone; the server ends the session.
LoseRequest(c) ==
    /\ alive /\ link[c] = "up"
    /\ pc[c] \in {"begin", "run", "commit", "rollback"}
    /\ ServerRollback(c)
    /\ Lost(c)

\* The server has executed the request and only the reply is lost: a COMMIT, or a
\* statement outside a transaction.
LoseReply(c) ==
    /\ alive /\ link[c] = "up"
    /\ \/ pc[c] = "commit" /\ ServerCommit(c)
       \/ /\ pc[c] = "run" /\ ~open[c]
          /\ <<task[c], at[c]>> \notin Rejected
          /\ ServerWrite(c, task[c], at[c])
    /\ Lost(c)

\* A new session, in autocommit mode; the same request is sent again on it.
Reconnect(c) ==
    /\ alive /\ link[c] = "lost"
    /\ CanReconnect
    /\ link' = [link EXCEPT ![c] = "up"]
    /\ UNCHANGED <<serverVars, connVars, deadlockLock, outcome, alive, losses>>

\* Open fails with an error that ends the attempts: Execute returns false and the
\* connection stays without a session.
ReconnectRefused(c) ==
    /\ alive /\ link[c] = "lost"
    /\ link' = [link EXCEPT ![c] = "dead"]
    /\ UNCHANGED <<serverVars, connVars, deadlockLock, outcome, alive, losses>>

\* std::abort after five attempts, or any other death of the process.
Abort ==
    /\ alive
    /\ alive' = FALSE
    /\ ServerDropAll
    /\ UNCHANGED <<connVars, link, deadlockLock, outcome, losses>>

-----------------------------------------------------------------------------
(* TransactionTask::Execute, TransactionWithResultTask::Execute and        *)
(* DirectCommitTransaction: the callers of ExecuteTransaction.             *)

\* A worker thread has popped the task, or a caller has found a free connection.
Start(c, t) ==
    /\ Doing(c, "idle")
    /\ outcome[t] = "pending"
    /\ t \in Queued <=> c \in Async
    /\ task' = [task EXCEPT ![c] = t]
    /\ outcome' = [outcome EXCEPT ![t] = "running"]
    /\ Enter(c, t)
    /\ UNCHANGED <<serverVars, at, tries, link, deadlockLock, alive, losses>>

Release(c) == deadlockLock' = IF deadlockLock = c THEN NoConnection ELSE deadlockLock

\* The caller returns, and the connection is free for the next transaction.
Return(c, result) ==
    /\ outcome' = [outcome EXCEPT ![task[c]] = result]
    /\ task' = [task EXCEPT ![c] = NoTransaction]
    /\ at' = [at EXCEPT ![c] = 0]
    /\ tries' = [tries EXCEPT ![c] = 0]
    /\ errno' = [errno EXCEPT ![c] = "none"]
    /\ Goto(c, "idle")
    /\ UNCHANGED <<serverVars, link, alive, losses>>

Succeed(c) ==
    /\ Doing(c, "returned")
    /\ errno[c] = "none"
    /\ Return(c, "ok")
    /\ Release(c)

\* Mutant of Retry: the loop is not counted.
RetryForever(c) ==
    /\ Doing(c, "returned")
    /\ tries[c] <= LoopBreaker
    /\ \/ tries[c] = 0 /\ errno[c] = "deadlock"
       \/ tries[c] > 0 /\ errno[c] # "none"
    /\ tries' = [tries EXCEPT ![c] = @ + 1]
    /\ Enter(c, task[c])
    /\ UNCHANGED <<serverVars, task, at, link, deadlockLock, outcome, alive, losses>>

\* Mutant of Retry: no lock is taken.
RetryUnlocked(c) ==
    /\ Doing(c, "returned")
    /\ \/ tries[c] = 0 /\ errno[c] = "deadlock"
       \/ tries[c] \in 1 .. LoopBreaker - 1 /\ errno[c] # "none"
    /\ tries' = [tries EXCEPT ![c] = @ + 1]
    /\ Enter(c, task[c])
    /\ UNCHANGED <<serverVars, task, at, link, deadlockLock, outcome, alive, losses>>

\* A deadlock opens the retry loop, in which every error is retried; a worker
\* thread first takes _deadlockLock and keeps it for the whole loop.
Retry(c) ==
    /\ Doing(c, "returned")
    /\ \/ /\ tries[c] = 0
          /\ errno[c] = "deadlock"
          /\ IF c \in Async
               THEN deadlockLock = NoConnection /\ deadlockLock' = c
               ELSE UNCHANGED deadlockLock
       \/ /\ tries[c] \in 1 .. LoopBreaker - 1
          /\ errno[c] # "none"
          /\ UNCHANGED deadlockLock
    /\ tries' = [tries EXCEPT ![c] = @ + 1]
    /\ Enter(c, task[c])
    /\ UNCHANGED <<serverVars, task, at, link, outcome, alive, losses>>

\* Mutant of GiveUp: the lock_guard's scope is not left.
GiveUpKeepingLock(c) ==
    /\ Doing(c, "returned")
    /\ \/ tries[c] = 0 /\ errno[c] = "other"
       \/ tries[c] = LoopBreaker /\ errno[c] # "none"
    /\ Return(c, "failed")
    /\ UNCHANGED deadlockLock

GiveUp(c) ==
    /\ Doing(c, "returned")
    /\ \/ tries[c] = 0 /\ errno[c] = "other"
       \/ tries[c] = LoopBreaker /\ errno[c] # "none"
    /\ Return(c, "failed")
    /\ Release(c)

-----------------------------------------------------------------------------
Work(c) ==
    \/ BeginTransaction(c) \/ StatementWaits(c) \/ ExecuteStatement(c)
    \/ StatementRejected(c) \/ StatementUnsent(c)
    \/ RollbackTransaction(c) \/ CommitTransaction(c)
    \/ Succeed(c) \/ Retry(c) \/ GiveUp(c)
    \/ Reconnect(c) \/ ReconnectRefused(c)

Terminated ==
    /\ \/ ~alive
       \/ \A t \in Transactions : outcome[t] \in {"ok", "failed"}
    /\ UNCHANGED vars

Next ==
    \/ \E c \in Connections :
          \/ \E t \in Transactions : Start(c, t)
          \/ Work(c)
          \/ DeadlockVictim(c)
          \/ LoseRequest(c) \/ LoseReply(c)
    \/ Abort
    \/ Terminated

\* Threads and server answer in the end, and the server breaks every deadlock; which
\* transaction it chooses is its own affair.
Fairness ==
    /\ \A c \in Connections : WF_vars(Work(c))
    /\ WF_vars(\E c \in Connections : DeadlockVictim(c))

Spec == Init /\ [][Next]_vars /\ Fairness

-----------------------------------------------------------------------------
Whole == [t \in Transactions |-> [k \in 1 .. Len(Statements[t]) |-> k]]

\* Whatever the order of requests, deadlocks, retries, rejected statements and
\* crashes, a transaction's statements take effect all together, once and in the
\* order in which they were appended, or not at all.
AllOrNothing == \A t \in Transactions : durable[t] \in {<<>>, Whole[t]}

\* A transaction that is given up leaves nothing behind: it is rolled back if it is
\* not committed.  A process that finds the server again after losing a connection
\* violates it.
RolledBackIfNotCommitted ==
    \A t \in Transactions : outcome[t] = "failed" => durable[t] = <<>>

\* A transaction reported as done is durable, as a whole.
DoneMeansDurable ==
    \A t \in Transactions : outcome[t] = "ok" => durable[t] = Whole[t]

\* A connection that nobody uses holds neither row locks nor _deadlockLock.
IdleHoldsNothing ==
    \A c \in Connections : pc[c] = "idle" =>
        /\ ~open[c]
        /\ \A r \in Rows : owner[r] # c
        /\ deadlockLock # c

\* Every transaction that is begun ends, unless the process dies: row locks, the
\* server's deadlocks and _deadlockLock never hold each other up.
EveryTransactionEnds ==
    \A t \in Transactions : outcome[t] = "running" ~> outcome[t] # "running" \/ ~alive

Atomic == INSTANCE AtomicTransactions

\* ExecuteTransaction with its callers implements atomic transactions.
ImplementsAtomicTransactions == Atomic!Spec

=============================================================================

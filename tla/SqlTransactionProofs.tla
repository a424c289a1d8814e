------------------------- MODULE SqlTransactionProofs -------------------------
(***************************************************************************)
(* Theorems of SqlTransaction: with any number of connections,             *)
(* transactions, statements, rows and retries, and any server that grants  *)
(* locks and chooses deadlock victims as it likes.                         *)
(*                                                                         *)
(* Types and locks are proved of any process.  Atomicity is proved of one  *)
(* that never finds the server again after losing a connection             *)
(* (CanReconnect is false); what a caller is told, and why a transaction   *)
(* is dropped, of one that loses none (MaxLosses is zero).                 *)
(***************************************************************************)
EXTENDS SqlContention, SequenceTheorems, FiniteSetTheorems, TLAPS

Sending == {"run", "commit", "rollback"}

FirstEffects(c) == [k \in 1 .. at[c] - 1 |-> k]

Only(t, s) == [u \in Transactions |-> IF u = t THEN s ELSE <<>>]

\* Who executes what.
TaskOK ==
    /\ \A c \in Connections :
          /\ pc[c] = "idle" <=> task[c] = NoTransaction
          /\ pc[c] # "idle" => outcome[task[c]] = "running"
          /\ pc[c] \in Sending \cup {"begin"} => Len(Statements[task[c]]) > 0
          /\ pc[c] = "run" => at[c] \in 1 .. Len(Statements[task[c]])
          /\ deadlockLock = c => pc[c] # "idle"
    /\ \A c, d \in Connections : c # d /\ pc[c] # "idle" => task[c] # task[d]

\* A connection has an open transaction only while it executes one, on a link that is up.
OpenOK ==
    \A c \in Connections :
        /\ pc[c] \notin Sending => ~open[c]
        /\ link[c] # "up" => ~open[c]

\* The session of a connection mirrors how far its transaction has come.
SessionOK ==
    \A c \in Connections :
        /\ ~open[c] => written[c] = Nothing
        /\ alive /\ pc[c] = "run" /\ link[c] = "up" =>
              open[c] /\ written[c] = Only(task[c], FirstEffects(c))
        /\ alive /\ pc[c] = "commit" /\ link[c] = "up" =>
              open[c] /\ written[c] = Only(task[c], Whole[task[c]])

\* Who holds row locks, and who waits for which.
LockOK ==
    /\ \A c \in Connections, r \in Rows : owner[r] = c => pc[c] \in Sending /\ link[c] = "up"
    /\ \A c \in Connections : wants[c] # NoRow =>
          /\ pc[c] = "run" /\ link[c] = "up"
          /\ wants[c] = Statements[task[c]][at[c]]
          /\ owner[wants[c]] \notin {c, NoConnection}

\* What is durable of a transaction, seen from the progress of its connection.
DurableOK ==
    /\ \A t \in Transactions : outcome[t] \in {"pending", "failed"} => durable[t] = <<>>
    /\ \A c \in Connections :
          \/ pc[c] \in {"begin", "run", "rollback"}
          \/ pc[c] = "commit" /\ link[c] = "up"
          \/ pc[c] = "returned" /\ errno[c] # "none"
          => durable[task[c]] = <<>>

\* What holds whatever connections are lost and found again.
HoldInv == TypeOK /\ TaskOK /\ OpenOK /\ LockOK

IInv == HoldInv /\ SessionOK /\ DurableOK /\ AllOrNothing

\* What holds in addition while no connection is lost.
ReportOK ==
    /\ \A c \in Connections :
          /\ link[c] = "up"
          /\ pc[c] = "rollback" => errno[c] # "none"
          /\ pc[c] = "returned" /\ errno[c] = "none" => durable[task[c]] = Whole[task[c]]
    /\ DoneMeansDurable

-----------------------------------------------------------------------------
(* The operators of the server.                                            *)

\* Nothing is an empty transaction buffer, and appending one changes nothing.
LEMMA NothingIsEmpty ==
    /\ Nothing \in [Transactions -> Seq(Nat)]
    /\ \A s \in Seq(Nat) : s \o <<>> = s /\ <<>> \o s = s
  <1>1. Nothing \in [Transactions -> Seq(Nat)]
    BY DEF Nothing
  <1>2. \A s \in Seq(Nat) : s \o <<>> = s /\ <<>> \o s = s
    BY ConcatEmptySeq
  <1> QED BY <1>1, <1>2

\* The numbers up to n, one longer.
LEMMA NextNumber ==
    ASSUME NEW n \in Nat \ {0}
    PROVE  Append([k \in 1 .. n - 1 |-> k], n) = [k \in 1 .. n |-> k]
  OBVIOUS

\* The whole effect of a transaction is a sequence of numbers.
LEMMA WholeType == Whole \in [Transactions -> Seq(Nat)]
  <1> SUFFICES ASSUME NEW t \in Transactions
               PROVE  [k \in 1 .. Len(Statements[t]) |-> k] \in Seq(Nat)
    BY DEF Whole
  <1>1. Statements[t] \in Seq(Rows)
    BY StatementsAssumption
  <1>2. Len(Statements[t]) \in Nat
    BY <1>1, LenProperties
  <1> QED BY <1>2, SeqDef

\* Releasing the locks of c keeps the types, leaves c without locks and requests, and
\* gives locks only to connections that wait for them.
LEMMA UnlockFacts ==
    ASSUME ServerTypeOK, NEW c \in Connections, Unlock(c)
    PROVE  /\ owner' \in [Rows -> Connections \cup {NoConnection}]
           /\ wants' \in [Connections -> Rows \cup {NoRow}]
           /\ wants'[c] = NoRow
           /\ \A r \in Rows : owner'[r] # c
           /\ \A d \in Connections, r \in Rows :
                 owner'[r] = d => owner[r] = d \/ wants[d] = r
           /\ \A d \in Connections : wants'[d] # NoRow =>
                 /\ d # c
                 /\ wants'[d] = wants[d]
                 /\ owner[wants[d]] \notin {d, NoConnection} =>
                       owner'[wants[d]] \notin {d, NoConnection}
  <1>1. PICK next \in [Rows -> Connections \cup {NoConnection}] :
          /\ \A r \in Rows :
                IF owner[r] # c THEN next[r] = owner[r]
                ELSE \/ next[r] \in Waiters(r) \ {c}
                     \/ Waiters(r) \ {c} = {} /\ next[r] = NoConnection
          /\ owner' = next
          /\ wants' = [d \in Connections |->
                          IF d = c \/ \E r \in Rows : wants[d] = r /\ next[r] = d
                            THEN NoRow ELSE wants[d]]
    BY DEF Unlock
  <1> USE ConnectionsAssumption, StatementsAssumption DEF ServerTypeOK, Waiters
  <1>2. /\ owner' \in [Rows -> Connections \cup {NoConnection}]
        /\ wants' \in [Connections -> Rows \cup {NoRow}]
        /\ wants'[c] = NoRow
    BY <1>1
  <1>3. \A r \in Rows : owner'[r] # c
    BY <1>1
  <1>4. ASSUME NEW d \in Connections, NEW r \in Rows, owner'[r] = d
        PROVE  owner[r] = d \/ wants[d] = r
    BY <1>1, <1>4
  <1>5. ASSUME NEW d \in Connections, wants'[d] # NoRow
        PROVE  /\ d # c
               /\ wants'[d] = wants[d]
               /\ owner[wants[d]] \notin {d, NoConnection} =>
                     owner'[wants[d]] \notin {d, NoConnection}
    <2>1. d # c /\ wants'[d] = wants[d]
      BY <1>1, <1>5
    <2>2. wants[d] \in Rows /\ d \in Waiters(wants[d]) \ {c}
      BY <2>1, <1>5
    <2>3. next[wants[d]] # d
      BY <1>1, <1>5, <2>1, <2>2
    <2>4. CASE owner[wants[d]] = c
      BY <1>1, <2>1, <2>2, <2>3, <2>4
    <2>5. CASE owner[wants[d]] # c
      BY <1>1, <2>1, <2>2, <2>3, <2>5
    <2> QED BY <2>1, <2>4, <2>5
  <1> QED BY <1>2, <1>3, <1>4, <1>5

-----------------------------------------------------------------------------
(* Types.                                                                  *)

\* Every request leaves the server's state well typed.
LEMMA ServerTypes ==
    ASSUME ServerTypeOK, NEW c \in Connections, NEW t \in Transactions, NEW k \in Nat
    PROVE  /\ Unlock(c) => owner' \in [Rows -> Connections \cup {NoConnection}]
                           /\ wants' \in [Connections -> Rows \cup {NoRow}]
           /\ ServerRollback(c) => ServerTypeOK'
           /\ ServerCommit(c) => ServerTypeOK'
           /\ ServerStart(c) => ServerTypeOK'
           /\ k \in DOMAIN Statements[t] /\ ServerWait(c, Statements[t][k]) => ServerTypeOK'
           /\ k \in DOMAIN Statements[t] /\ ServerWrite(c, t, k) => ServerTypeOK'
  <1>1. Unlock(c) => owner' \in [Rows -> Connections \cup {NoConnection}]
                     /\ wants' \in [Connections -> Rows \cup {NoRow}]
    BY UnlockFacts
  <1>2. Committed(c) \in [Transactions -> Seq(Nat)]
    <2>1. \A u \in Transactions : durable[u] \o written[c][u] \in Seq(Nat)
      BY ConcatProperties DEF ServerTypeOK
    <2> QED BY <2>1 DEF Committed
  <1>3. ServerRollback(c) => ServerTypeOK'
    BY <1>1, NothingIsEmpty DEF ServerRollback, End, ServerTypeOK
  <1>4. ServerCommit(c) => ServerTypeOK'
    BY <1>1, <1>2, NothingIsEmpty DEF ServerCommit, End, ServerTypeOK
  <1>5. ServerStart(c) => ServerTypeOK'
    BY <1>1, <1>2, NothingIsEmpty DEF ServerStart, ServerTypeOK
  <1>6. k \in DOMAIN Statements[t] => Statements[t][k] \in Rows
    BY StatementsAssumption
  <1>7. k \in DOMAIN Statements[t] /\ ServerWait(c, Statements[t][k]) => ServerTypeOK'
    BY <1>6 DEF ServerWait, ServerTypeOK
  <1>8. k \in DOMAIN Statements[t] /\ ServerWrite(c, t, k) => ServerTypeOK'
    <2>1. Append(written[c][t], k) \in Seq(Nat) /\ Append(durable[t], k) \in Seq(Nat)
      BY AppendProperties DEF ServerTypeOK
    <2> SUFFICES ASSUME k \in DOMAIN Statements[t], ServerWrite(c, t, k)
                 PROVE  ServerTypeOK'
      OBVIOUS
    <2>2. CASE open[c]
      <3>1. written' = [written EXCEPT ![c] = [written[c] EXCEPT ![t] = Append(written[c][t], k)]]
        BY <2>2 DEF ServerWrite
      <3>2. written' \in [Connections -> [Transactions -> Seq(Nat)]]
        BY <2>1, <3>1 DEF ServerTypeOK
      <3> QED BY <1>6, <2>2, <3>2 DEF ServerWrite, ServerTypeOK
    <2>3. CASE ~open[c]
      BY <1>1, <2>1, <2>3 DEF ServerWrite, ServerTypeOK
    <2> QED BY <2>2, <2>3
  <1> QED BY <1>1, <1>3, <1>4, <1>5, <1>7, <1>8

\* The types, and the assignment of tasks, hold at the start.
LEMMA InitType == Init => TypeOK /\ TaskOK
  BY NothingIsEmpty, LoopBreakerAssumption, QueuedAssumption, ConnectionsAssumption
  DEF Init, ServerInit, TypeOK, ServerTypeOK, TaskOK, Places, Errors, Sending

\* A connection that executes a transaction executes one there is.
LEMMA TaskType ==
    ASSUME TypeOK, TaskOK, NEW c \in Connections, pc[c] # "idle"
    PROVE  /\ task[c] \in Transactions
           /\ Statements[task[c]] \in Seq(Rows)
           /\ Len(Statements[task[c]]) \in Nat
           /\ pc[c] = "run" => at[c] \in DOMAIN Statements[task[c]]
  <1>1. task[c] \in Transactions
    BY DEF TypeOK, TaskOK
  <1>2. Statements[task[c]] \in Seq(Rows)
    BY <1>1, StatementsAssumption
  <1>3. Len(Statements[task[c]]) \in Nat /\ DOMAIN Statements[task[c]] = 1 .. Len(Statements[task[c]])
    BY <1>2, LenProperties
  <1> QED BY <1>1, <1>2, <1>3 DEF TaskOK

\* Every step keeps the types and the assignment of tasks.
LEMMA TypeStep == TypeOK /\ TaskOK /\ [Next]_vars => TypeOK' /\ TaskOK'
  <1> SUFFICES ASSUME TypeOK, TaskOK, [Next]_vars
               PROVE  TypeOK' /\ TaskOK'
    OBVIOUS
  <1> USE LoopBreakerAssumption, QueuedAssumption
  <1>1. ASSUME NEW c \in Connections, NEW t \in Transactions, Start(c, t)
        PROVE  TypeOK' /\ TaskOK'
    <2>1. Statements[t] \in Seq(Rows) /\ (Statements[t] # <<>> => Len(Statements[t]) > 0)
      BY StatementsAssumption, EmptySeq, LenProperties
    <2>2. ServerTypeOK'
      BY <1>1 DEF Start, TypeOK, ServerTypeOK, serverVars, lockVars
    <2>3. TypeOK'
      BY <1>1, <2>2 DEF Start, Enter, Goto, TypeOK, Places, Errors
    <2>4. \A d \in Connections : pc[d] # "idle" => d # c /\ task[d] # t
      BY <1>1 DEF Start, Doing, TaskOK
    <2>5. TaskOK'
      BY <1>1, <2>1, <2>3, <2>4 DEF Start, Doing, Enter, Goto, TypeOK, TaskOK, Sending, Places
    <2> QED BY <2>3, <2>5
  <1>2. ASSUME NEW c \in Connections, BeginTransaction(c)
        PROVE  TypeOK' /\ TaskOK'
    <2>1. pc[c] # "idle"
      BY <1>2 DEF BeginTransaction, Doing
    <2>2. ServerTypeOK'
      BY <1>2, <2>1, TaskType, ServerTypes DEF BeginTransaction, Doing, TypeOK, ServerTypeOK, serverVars, lockVars
    <2>3. TypeOK'
      BY <1>2, <2>1, <2>2, TaskType DEF BeginTransaction, Doing, Goto, connVars, TypeOK, Places, Errors
    <2>4. TaskOK'
      BY <1>2, <2>1, <2>3, TaskType DEF BeginTransaction, Doing, Goto, connVars, TypeOK, TaskOK, Sending, Places
    <2> QED BY <2>3, <2>4
  <1>3. ASSUME NEW c \in Connections, StatementWaits(c)
        PROVE  TypeOK' /\ TaskOK'
    <2>1. pc[c] # "idle"
      BY <1>3 DEF StatementWaits, Doing
    <2>2. ServerTypeOK'
      BY <1>3, <2>1, TaskType, ServerTypes DEF StatementWaits, Doing, TypeOK, ServerTypeOK, serverVars, lockVars
    <2>3. TypeOK'
      BY <1>3, <2>1, <2>2, TaskType DEF StatementWaits, Doing, Goto, connVars, TypeOK, Places, Errors
    <2>4. TaskOK'
      BY <1>3, <2>1, <2>3, TaskType DEF StatementWaits, Doing, Goto, connVars, TypeOK, TaskOK, Sending, Places
    <2> QED BY <2>3, <2>4
  <1>4. ASSUME NEW c \in Connections, ExecuteStatement(c)
        PROVE  TypeOK' /\ TaskOK'
    <2>1. pc[c] # "idle"
      BY <1>4 DEF ExecuteStatement, Doing
    <2>2. ServerTypeOK'
      BY <1>4, <2>1, TaskType, ServerTypes DEF ExecuteStatement, Doing, TypeOK, ServerTypeOK, serverVars, lockVars
    <2>3. at[c] \in 1 .. Length(c) /\ Length(c) \in Nat
      BY <1>4, <2>1, TaskType DEF ExecuteStatement, Doing, TaskOK, Length
    <2>4. CASE at[c] = Length(c)
      BY <1>4, <2>2, <2>4 DEF ExecuteStatement, Doing, Goto, TypeOK, TaskOK, Places, Sending
    <2>5. CASE at[c] # Length(c)
      <3>1. /\ UNCHANGED <<pc, task, tries, errno, link, deadlockLock, outcome, alive, losses>>
            /\ at' = [at EXCEPT ![c] = @ + 1]
        BY <1>4, <2>5 DEF ExecuteStatement
      <3>2. at[c] + 1 \in 1 .. Length(c) /\ at[c] + 1 \in Nat
        BY <2>3, <2>5
      <3>3. TypeOK'
        BY <2>2, <3>1, <3>2 DEF TypeOK
      <3>4. TaskOK'
        BY <3>1, <3>2 DEF TypeOK, TaskOK, Length
      <3> QED BY <3>3, <3>4
    <2> QED BY <2>4, <2>5
  <1>5. ASSUME NEW c \in Connections, StatementRejected(c)
        PROVE  TypeOK' /\ TaskOK'
    <2>1. pc[c] # "idle"
      BY <1>5 DEF StatementRejected, Doing
    <2>2. ServerTypeOK'
      BY <1>5, <2>1, TaskType, ServerTypes DEF StatementRejected, Doing, TypeOK, ServerTypeOK, serverVars, lockVars
    <2>3. TypeOK'
      BY <1>5, <2>1, <2>2, TaskType DEF StatementRejected, Doing, Goto, connVars, Abandon, TypeOK, Places, Errors
    <2>4. TaskOK'
      BY <1>5, <2>1, <2>3, TaskType DEF StatementRejected, Doing, Goto, connVars, Abandon, TypeOK, TaskOK, Sending, Places
    <2> QED BY <2>3, <2>4
  <1>6. ASSUME NEW c \in Connections, StatementUnsent(c)
        PROVE  TypeOK' /\ TaskOK'
    <2>1. pc[c] # "idle"
      BY <1>6 DEF StatementUnsent, Doing
    <2>2. ServerTypeOK'
      BY <1>6, <2>1, TaskType, ServerTypes DEF StatementUnsent, Doing, TypeOK, ServerTypeOK, serverVars, lockVars
    <2>3. TypeOK'
      BY <1>6, <2>1, <2>2, TaskType DEF StatementUnsent, Doing, Goto, connVars, Abandon, TypeOK, Places, Errors
    <2>4. TaskOK'
      BY <1>6, <2>1, <2>3, TaskType DEF StatementUnsent, Doing, Goto, connVars, Abandon, TypeOK, TaskOK, Sending, Places
    <2> QED BY <2>3, <2>4
  <1>7. ASSUME NEW c \in Connections, DeadlockVictim(c)
        PROVE  TypeOK' /\ TaskOK'
    <2>1. pc[c] # "idle"
      BY <1>7 DEF DeadlockVictim, Doing
    <2>2. ServerTypeOK'
      BY <1>7, <2>1, TaskType, ServerTypes DEF DeadlockVictim, Doing, TypeOK, ServerTypeOK, serverVars, lockVars
    <2>3. TypeOK'
      BY <1>7, <2>1, <2>2, TaskType DEF DeadlockVictim, Doing, Goto, connVars, Abandon, TypeOK, Places, Errors
    <2>4. TaskOK'
      BY <1>7, <2>1, <2>3, TaskType DEF DeadlockVictim, Doing, Goto, connVars, Abandon, TypeOK, TaskOK, Sending, Places
    <2> QED BY <2>3, <2>4
  <1>8. ASSUME NEW c \in Connections, RollbackTransaction(c)
        PROVE  TypeOK' /\ TaskOK'
    <2>1. pc[c] # "idle"
      BY <1>8 DEF RollbackTransaction, Doing
    <2>2. ServerTypeOK'
      BY <1>8, <2>1, TaskType, ServerTypes DEF RollbackTransaction, Doing, TypeOK, ServerTypeOK, serverVars, lockVars
    <2>3. TypeOK'
      BY <1>8, <2>1, <2>2, TaskType DEF RollbackTransaction, Doing, Goto, connVars, TypeOK, Places, Errors
    <2>4. TaskOK'
      BY <1>8, <2>1, <2>3, TaskType DEF RollbackTransaction, Doing, Goto, connVars, TypeOK, TaskOK, Sending, Places
    <2> QED BY <2>3, <2>4
  <1>9. ASSUME NEW c \in Connections, CommitTransaction(c)
        PROVE  TypeOK' /\ TaskOK'
    <2>1. pc[c] # "idle"
      BY <1>9 DEF CommitTransaction, Doing
    <2>2. ServerTypeOK'
      BY <1>9, <2>1, TaskType, ServerTypes DEF CommitTransaction, Doing, TypeOK, ServerTypeOK, serverVars, lockVars
    <2>3. TypeOK'
      BY <1>9, <2>1, <2>2, TaskType DEF CommitTransaction, Doing, Goto, connVars, TypeOK, Places, Errors
    <2>4. TaskOK'
      BY <1>9, <2>1, <2>3, TaskType DEF CommitTransaction, Doing, Goto, connVars, TypeOK, TaskOK, Sending, Places
    <2> QED BY <2>3, <2>4
  <1>10. ASSUME NEW c \in Connections, LoseRequest(c)
        PROVE  TypeOK' /\ TaskOK'
    <2>1. pc[c] # "idle"
      BY <1>10 DEF LoseRequest, Doing
    <2>2. ServerTypeOK'
      BY <1>10, <2>1, TaskType, ServerTypes DEF LoseRequest, Doing, TypeOK, ServerTypeOK, serverVars, lockVars
    <2>3. TypeOK'
      BY <1>10, <2>1, <2>2, TaskType DEF LoseRequest, Doing, Goto, connVars, Lost, TypeOK, Places, Errors
    <2>4. TaskOK'
      BY <1>10, <2>1, <2>3, TaskType DEF LoseRequest, Doing, Goto, connVars, Lost, TypeOK, TaskOK, Sending, Places
    <2> QED BY <2>3, <2>4
  <1>11. ASSUME NEW c \in Connections, LoseReply(c)
        PROVE  TypeOK' /\ TaskOK'
    <2>1. pc[c] # "idle"
      BY <1>11 DEF LoseReply, Doing
    <2>2. ServerTypeOK'
      BY <1>11, <2>1, TaskType, ServerTypes DEF LoseReply, Doing, TypeOK, ServerTypeOK, serverVars, lockVars
    <2>3. TypeOK'
      BY <1>11, <2>1, <2>2, TaskType DEF LoseReply, Doing, Goto, connVars, Lost, TypeOK, Places, Errors
    <2>4. TaskOK'
      BY <1>11, <2>1, <2>3, TaskType DEF LoseReply, Doing, Goto, connVars, Lost, TypeOK, TaskOK, Sending, Places
    <2> QED BY <2>3, <2>4
  <1>12. ASSUME NEW c \in Connections, Reconnect(c) \/ ReconnectRefused(c)
         PROVE  TypeOK' /\ TaskOK'
    <2>1. /\ UNCHANGED <<serverVars, connVars, deadlockLock, outcome, alive, losses>>
          /\ \E state \in {"up", "dead"} : link' = [link EXCEPT ![c] = state]
      BY <1>12 DEF Reconnect, ReconnectRefused
    <2>2. ServerTypeOK'
      BY <2>1 DEF TypeOK, ServerTypeOK, serverVars, lockVars
    <2> QED BY <2>1, <2>2 DEF TypeOK, TaskOK, connVars
  <1>14. ASSUME NEW c \in Connections, Succeed(c)
        PROVE  TypeOK' /\ TaskOK'
    <2>1. pc[c] # "idle"
      BY <1>14 DEF Succeed, Doing
    <2>2. ServerTypeOK'
      BY <1>14, <2>1, TaskType, ServerTypes DEF Succeed, Return, TypeOK, ServerTypeOK, serverVars, lockVars
    <2>3. TypeOK'
      BY <1>14, <2>1, <2>2, TaskType DEF Succeed, Doing, Goto, connVars, Return, Release, TypeOK, Places, Errors
    <2>4. TaskOK'
      BY <1>14, <2>1, <2>3, TaskType, ConnectionsAssumption DEF Succeed, Doing, Goto, connVars, Return, Release, TypeOK, TaskOK, Sending, Places
    <2> QED BY <2>3, <2>4
  <1>15. ASSUME NEW c \in Connections, Retry(c)
        PROVE  TypeOK' /\ TaskOK'
    <2>1. pc[c] # "idle"
      BY <1>15 DEF Retry, Doing
    <2>2. ServerTypeOK'
      BY <1>15, <2>1, TaskType, ServerTypes DEF Retry, Doing, TypeOK, ServerTypeOK, serverVars, lockVars
    <2>3. TypeOK'
      BY <1>15, <2>1, <2>2, TaskType DEF Retry, Doing, Goto, connVars, Enter, TypeOK, Places, Errors
    <2>4. TaskOK'
      BY <1>15, <2>1, <2>3, TaskType DEF Retry, Doing, Goto, connVars, Enter, TypeOK, TaskOK, Sending, Places
    <2> QED BY <2>3, <2>4
  <1>16. ASSUME NEW c \in Connections, GiveUp(c)
        PROVE  TypeOK' /\ TaskOK'
    <2>1. pc[c] # "idle"
      BY <1>16 DEF GiveUp, Doing
    <2>2. ServerTypeOK'
      BY <1>16, <2>1, TaskType, ServerTypes DEF GiveUp, Return, TypeOK, ServerTypeOK, serverVars, lockVars
    <2>3. TypeOK'
      BY <1>16, <2>1, <2>2, TaskType DEF GiveUp, Doing, Goto, connVars, Return, Release, TypeOK, Places, Errors
    <2>4. TaskOK'
      BY <1>16, <2>1, <2>3, TaskType, ConnectionsAssumption DEF GiveUp, Doing, Goto, connVars, Return, Release, TypeOK, TaskOK, Sending, Places
    <2> QED BY <2>3, <2>4
  <1>17. CASE Abort
    BY <1>17, NothingIsEmpty DEF Abort, ServerDropAll, TypeOK, ServerTypeOK, TaskOK, connVars
  <1>18. CASE UNCHANGED vars
    BY <1>18 DEF vars, serverVars, lockVars, connVars, TypeOK, ServerTypeOK, TaskOK
  <1> QED
    BY <1>1, <1>2, <1>3, <1>4, <1>5, <1>6, <1>7, <1>8, <1>9, <1>10, <1>11, <1>12, <1>14,
       <1>15, <1>16, <1>17, <1>18
    DEF Next, Work, Terminated

\* In every reachable state all variables have their types, whatever connections are lost
\* and found again.
THEOREM TypeCorrect == Spec => []TypeOK
  <1> QED BY InitType, TypeStep, PTL DEF Spec

-----------------------------------------------------------------------------
(* Row locks and sessions, whatever connections are lost and found again.  *)

\* The lock table after c has released its locks, wherever c goes next.
LEMMA UnlockKeepsLocks ==
    ASSUME ServerTypeOK, LockOK, NEW c \in Connections, Unlock(c),
           \A d \in Connections \ {c} : /\ pc'[d] = pc[d] /\ link'[d] = link[d]
                                        /\ task'[d] = task[d] /\ at'[d] = at[d]
    PROVE  LockOK'
  <1>2. ASSUME NEW d \in Connections, NEW r \in Rows, owner'[r] = d
        PROVE  pc'[d] \in Sending /\ link'[d] = "up"
    <2>1. d # c /\ (owner[r] = d \/ wants[d] = r)
      BY <1>2, UnlockFacts
    <2>2. wants[d] = r => wants[d] # NoRow
      BY StatementsAssumption
    <2> QED BY <2>1, <2>2 DEF LockOK, Sending
  <1>3. ASSUME NEW d \in Connections, wants'[d] # NoRow
        PROVE  /\ pc'[d] = "run" /\ link'[d] = "up"
               /\ wants'[d] = Statements[task'[d]][at'[d]]
               /\ owner'[wants'[d]] \notin {d, NoConnection}
    BY <1>3, UnlockFacts DEF LockOK
  <1> QED BY <1>2, <1>3 DEF LockOK

\* A step that leaves the lock table alone, and the others where they are, keeps it
\* right when c waits for nothing and still may hold what it holds.
LEMMA LocksStay ==
    ASSUME LockOK, NEW c \in Connections, UNCHANGED lockVars, wants[c] = NoRow,
           \A r \in Rows : owner[r] = c => pc'[c] \in Sending /\ link'[c] = "up",
           \A d \in Connections \ {c} : /\ pc'[d] = pc[d] /\ link'[d] = link[d]
                                        /\ task'[d] = task[d] /\ at'[d] = at[d]
    PROVE  LockOK'
  BY DEF LockOK, lockVars

\* Every step keeps the types, the tasks, the sessions and the lock table in order,
\* reconnections among them.
LEMMA HoldStep == HoldInv /\ [Next]_vars => HoldInv'
  <1> SUFFICES ASSUME HoldInv, [Next]_vars PROVE HoldInv'
    OBVIOUS
  <1>1. TypeOK /\ TaskOK /\ OpenOK /\ LockOK /\ TypeOK' /\ TaskOK' /\ ServerTypeOK
    BY TypeStep DEF HoldInv, TypeOK
  <1> SUFFICES OpenOK' /\ LockOK'
    BY <1>1 DEF HoldInv
  <1> USE <1>1
  <1>2. ASSUME NEW c \in Connections,
               \/ \E t \in Transactions : Start(c, t)
               \/ Succeed(c) \/ Retry(c) \/ GiveUp(c)
        PROVE  OpenOK' /\ LockOK'
    <2>1. /\ pc[c] \in {"idle", "returned"}
          /\ pc'[c] \in {"idle", "begin", "returned"}
          /\ UNCHANGED <<serverVars, link>>
          /\ \A d \in Connections \ {c} : /\ pc'[d] = pc[d] /\ task'[d] = task[d]
                                          /\ at'[d] = at[d]
      BY <1>2 DEF Start, Succeed, Retry, GiveUp, Return, Enter, Goto, Doing, TypeOK
    <2>2. ~open[c] /\ wants[c] = NoRow /\ \A r \in Rows : owner[r] # c
      BY <2>1 DEF OpenOK, LockOK, Sending
    <2>3. OpenOK'
      BY <2>1, <2>2 DEF OpenOK, serverVars
    <2>4. LockOK'
      BY <2>1, <2>2, LocksStay DEF serverVars
    <2> QED BY <2>3, <2>4
  <1>3. ASSUME NEW c \in Connections, BeginTransaction(c)
        PROVE  OpenOK' /\ LockOK'
    <2>1. /\ pc[c] = "begin" /\ pc'[c] = "run" /\ UNCHANGED <<task, link>>
          /\ \A d \in Connections \ {c} : pc'[d] = pc[d] /\ at'[d] = at[d]
      BY <1>3 DEF BeginTransaction, Doing, Goto, TypeOK
    <2>2. CASE link[c] = "up" /\ ServerStart(c)
      <3>1. open' = [open EXCEPT ![c] = TRUE] /\ Unlock(c)
        BY <2>2 DEF ServerStart
      <3>2. OpenOK'
        BY <2>1, <2>2, <3>1 DEF OpenOK, TypeOK, ServerTypeOK, Sending
      <3>3. LockOK'
        BY <2>1, <3>1, UnlockKeepsLocks
      <3> QED BY <3>2, <3>3
    <2>3. CASE link[c] = "dead" /\ UNCHANGED serverVars
      <3>1. OpenOK'
        BY <2>1, <2>3 DEF OpenOK, serverVars
      <3>2. wants[c] = NoRow /\ \A r \in Rows : owner[r] # c
        BY <2>1 DEF LockOK, Sending
      <3>3. LockOK'
        BY <2>1, <2>3, <3>2, LocksStay DEF serverVars
      <3> QED BY <3>1, <3>3
    <2> QED BY <1>3, <2>2, <2>3 DEF BeginTransaction
  <1>4. ASSUME NEW c \in Connections, StatementWaits(c)
        PROVE  OpenOK' /\ LockOK'
    <2> USE <1>4 DEF StatementWaits, ServerWait, Doing, connVars
    <2>1. OpenOK'
      BY DEF OpenOK
    <2>2. LockOK'
      BY DEF LockOK, TypeOK, ServerTypeOK, Available
    <2> QED BY <2>1, <2>2
  <1>5. ASSUME NEW c \in Connections,
               \/ ExecuteStatement(c)
               \/ LoseReply(c) /\ pc[c] = "run"
        PROVE  OpenOK' /\ LockOK'
    <2>1. /\ pc[c] = "run" /\ link[c] = "up"
          /\ pc'[c] \in {"run", "commit"} /\ UNCHANGED task
          /\ link'[c] # "up" => ~open[c]
          /\ \A d \in Connections \ {c} : /\ pc'[d] = pc[d] /\ link'[d] = link[d]
                                          /\ at'[d] = at[d]
          /\ ServerWrite(c, task[c], at[c])
      BY <1>5 DEF ExecuteStatement, LoseReply, Lost, Doing, Goto, connVars, TypeOK
    <2>2. Statements[task[c]][at[c]] \in Rows /\ UNCHANGED open
          /\ Available(c, Statements[task[c]][at[c]])
      BY <2>1, TaskType DEF ServerWrite
    <2>3. OpenOK'
      BY <2>1, <2>2 DEF OpenOK, Sending
    <2>4. CASE open[c]
      <3>1. /\ UNCHANGED wants /\ link'[c] = "up"
            /\ owner' = [owner EXCEPT ![Statements[task[c]][at[c]]] = c]
        <4>1. link'[c] \in {"up", "lost", "dead"}
          BY DEF TypeOK
        <4> QED BY <2>1, <2>4, <4>1 DEF ServerWrite
      <3>2. wants[c] = NoRow
        BY <2>1, <2>2 DEF LockOK, Available
      <3>3. ASSUME NEW d \in Connections, NEW r \in Rows, owner'[r] = d
            PROVE  pc'[d] \in Sending /\ link'[d] = "up"
        BY <2>1, <2>2, <3>1, <3>3 DEF LockOK, ServerTypeOK, Sending
      <3>4. ASSUME NEW d \in Connections, wants'[d] # NoRow
            PROVE  /\ pc'[d] = "run" /\ link'[d] = "up"
                   /\ wants'[d] = Statements[task'[d]][at'[d]]
                   /\ owner'[wants'[d]] \notin {d, NoConnection}
        <4>1. d # c /\ wants[d] # NoRow /\ wants[d] \in Rows
          BY <3>1, <3>2, <3>4 DEF ServerTypeOK
        <4>2. wants'[d] = wants[d] /\ owner[wants[d]] \notin {d, NoConnection}
          BY <3>1, <4>1 DEF LockOK
        <4>3. owner'[wants[d]] \in {owner[wants[d]], c}
          BY <2>2, <3>1, <4>1 DEF ServerTypeOK
        <4>4. owner'[wants'[d]] \notin {d, NoConnection}
          BY <4>1, <4>2, <4>3, ConnectionsAssumption
        <4> QED BY <2>1, <4>1, <4>2, <4>4 DEF LockOK
      <3> QED BY <2>3, <3>3, <3>4 DEF LockOK
    <2>5. CASE ~open[c]
      BY <2>1, <2>3, <2>5, UnlockKeepsLocks DEF ServerWrite
    <2> QED BY <2>3, <2>4, <2>5
  <1>6. ASSUME NEW c \in Connections, StatementRejected(c) \/ StatementUnsent(c)
        PROVE  OpenOK' /\ LockOK'
    <2>1. /\ pc[c] = "run" /\ pc'[c] = "rollback"
          /\ UNCHANGED <<serverVars, task, at, link>>
          /\ \A d \in Connections \ {c} : pc'[d] = pc[d]
      BY <1>6 DEF StatementRejected, StatementUnsent, Abandon, Doing, Goto, TypeOK
    <2>2. wants[c] = NoRow
      BY <1>6 DEF StatementRejected, StatementUnsent, LockOK, Available
    <2>3. OpenOK'
      BY <2>1 DEF OpenOK, serverVars, Sending
    <2>4. LockOK'
      <3>1. \A r \in Rows : owner[r] = c => pc'[c] \in Sending /\ link'[c] = "up"
        BY <2>1 DEF LockOK, Sending
      <3> QED BY <2>1, <2>2, <3>1, LocksStay DEF serverVars
    <2> QED BY <2>3, <2>4
  <1>7. ASSUME NEW c \in Connections, End(c),
               \/ DeadlockVictim(c)
               \/ RollbackTransaction(c)
               \/ CommitTransaction(c)
               \/ LoseRequest(c)
               \/ LoseReply(c)
        PROVE  OpenOK' /\ LockOK'
    <2>1. /\ UNCHANGED <<task, at>>
          /\ \A d \in Connections \ {c} : pc'[d] = pc[d] /\ link'[d] = link[d]
      BY <1>7 DEF DeadlockVictim, RollbackTransaction, CommitTransaction, LoseRequest, LoseReply,
                  Lost, Abandon, Goto, connVars, TypeOK
    <2>2. open' = [open EXCEPT ![c] = FALSE] /\ Unlock(c)
      BY <1>7 DEF End
    <2>3. OpenOK'
      BY <2>1, <2>2 DEF OpenOK, ServerTypeOK
    <2>4. LockOK'
      BY <2>1, <2>2, UnlockKeepsLocks
    <2> QED BY <2>3, <2>4
  <1>8. ASSUME NEW c \in Connections, ~End(c),
               \/ RollbackTransaction(c)
               \/ CommitTransaction(c)
        PROVE  OpenOK' /\ LockOK'
    <2>1. /\ link[c] = "dead" /\ pc[c] \in {"rollback", "commit"}
          /\ UNCHANGED <<serverVars, task, at, link>>
          /\ \A d \in Connections \ {c} : pc'[d] = pc[d]
      BY <1>8 DEF RollbackTransaction, CommitTransaction, ServerRollback, ServerCommit, Doing,
                  Goto, TypeOK
    <2>2. ~open[c] /\ wants[c] = NoRow /\ \A r \in Rows : owner[r] # c
      BY <2>1 DEF OpenOK, LockOK
    <2>3. OpenOK'
      BY <2>1, <2>2 DEF OpenOK, serverVars
    <2>4. LockOK'
      BY <2>1, <2>2, LocksStay DEF serverVars
    <2> QED BY <2>3, <2>4
  <1>9. ASSUME NEW c \in Connections, Reconnect(c) \/ ReconnectRefused(c)
        PROVE  OpenOK' /\ LockOK'
    <2>1. /\ link[c] = "lost"
          /\ UNCHANGED <<serverVars, pc, task, at>>
          /\ \A d \in Connections \ {c} : link'[d] = link[d]
      BY <1>9 DEF Reconnect, ReconnectRefused, connVars, TypeOK
    <2>2. ~open[c] /\ wants[c] = NoRow /\ \A r \in Rows : owner[r] # c
      BY <2>1 DEF OpenOK, LockOK
    <2>3. OpenOK'
      BY <2>1, <2>2 DEF OpenOK, serverVars
    <2>4. LockOK'
      BY <2>1, <2>2, LocksStay DEF serverVars
    <2> QED BY <2>3, <2>4
  <1>10. CASE Abort
    BY <1>10, ConnectionsAssumption DEF Abort, ServerDropAll, connVars, OpenOK, LockOK
  <1>11. CASE UNCHANGED vars
    BY <1>11 DEF vars, connVars, serverVars, lockVars, OpenOK, LockOK
  <1>12. ASSUME NEW c \in Connections,
                \/ DeadlockVictim(c)
                \/ LoseRequest(c)
                \/ LoseReply(c) /\ pc[c] # "run"
         PROVE  End(c)
    BY <1>12 DEF DeadlockVictim, LoseRequest, LoseReply, ServerRollback, ServerCommit
  <1> QED
    BY <1>2, <1>3, <1>4, <1>5, <1>6, <1>7, <1>8, <1>9, <1>10, <1>11, <1>12
    DEF Next, Work, Terminated

\* Whatever connections are lost and found again, one that nobody uses holds no lock.
THEOREM LocksAreReleased == Spec => []IdleHoldsNothing
  <1>1. Init => HoldInv
    BY InitType, ConnectionsAssumption
    DEF Init, ServerInit, HoldInv, OpenOK, LockOK
  <1>2. HoldInv => IdleHoldsNothing
    BY DEF HoldInv, TaskOK, OpenOK, LockOK, IdleHoldsNothing, Sending
  <1> QED BY <1>1, <1>2, HoldStep, PTL DEF Spec

-----------------------------------------------------------------------------
(* Atomicity, when a lost connection is never found again.                 *)

\* Committing an empty buffer changes nothing; committing what one transaction wrote
\* makes that durable.
LEMMA CommittedFacts ==
    ASSUME TypeOK, NEW c \in Connections
    PROVE  /\ written[c] = Nothing => Committed(c) = durable
           /\ \A t \in Transactions, s \in Seq(Nat) :
                 written[c] = Only(t, s) /\ durable[t] = <<>> =>
                   Committed(c) = [durable EXCEPT ![t] = s]
  <1> USE NothingIsEmpty DEF TypeOK, ServerTypeOK, Committed
  <1>1. ASSUME written[c] = Nothing
        PROVE  Committed(c) = durable
    <2>1. \A t \in Transactions : durable[t] \o written[c][t] = durable[t]
      BY <1>1 DEF Nothing
    <2> QED BY <2>1
  <1>2. ASSUME NEW t \in Transactions, NEW s \in Seq(Nat), written[c] = Only(t, s), durable[t] = <<>>
        PROVE  Committed(c) = [durable EXCEPT ![t] = s]
    <2>1. \A u \in Transactions : durable[u] \o written[c][u] = IF u = t THEN s ELSE durable[u]
      <3> TAKE u \in Transactions
      <3>1. written[c][u] = IF u = t THEN s ELSE <<>>
        BY <1>2 DEF Only
      <3>2. durable[u] \in Seq(Nat)
        OBVIOUS
      <3>3. CASE u = t
        BY <1>2, <3>1, <3>3
      <3>4. CASE u # t
        BY <3>1, <3>2, <3>4
      <3> QED BY <3>3, <3>4
    <2> QED BY <2>1
  <1> QED BY <1>1, <1>2

\* The invariant holds before any transaction is begun.
LEMMA InitInvariant == Init => IInv
  <1> SUFFICES ASSUME Init PROVE IInv
    OBVIOUS
  <1>1. TypeOK /\ TaskOK
    BY InitType
  <1>2. SessionOK /\ OpenOK /\ LockOK /\ DurableOK /\ AllOrNothing
    BY ConnectionsAssumption
    DEF Init, ServerInit, SessionOK, OpenOK, LockOK, DurableOK, AllOrNothing, Sending, Nothing
  <1> QED BY <1>1, <1>2 DEF IInv, HoldInv

\* Every step but a reconnection preserves the invariant: nothing but a transaction's own
\* COMMIT changes what is durable of it.
LEMMA InvariantStep ==
    ASSUME IInv, [Next]_vars, \A c \in Connections : ~Reconnect(c)
    PROVE  IInv'
  <1>1. HoldInv' /\ TypeOK /\ TaskOK /\ TypeOK' /\ TaskOK'
    BY HoldStep DEF IInv, HoldInv
  <1> SUFFICES SessionOK' /\ DurableOK' /\ AllOrNothing'
    BY <1>1 DEF IInv
  <1> USE <1>1
  <1>2. ASSUME NEW c \in Connections, NEW t \in Transactions, Start(c, t)
        PROVE  SessionOK' /\ DurableOK' /\ AllOrNothing'
    <2> USE <1>2 DEF Start, Doing, Enter, Goto, IInv, HoldInv
    <2>1. SessionOK'
      BY DEF SessionOK, OpenOK, serverVars, TypeOK, Sending, FirstEffects
    <2>3. DurableOK'
      BY DEF DurableOK, serverVars, TypeOK, TaskOK
    <2>4. AllOrNothing'
      BY DEF AllOrNothing, serverVars
    <2> QED BY <2>1, <2>3, <2>4
  <1>3. ASSUME NEW c \in Connections, BeginTransaction(c)
        PROVE  SessionOK' /\ DurableOK' /\ AllOrNothing'
    <2>1. /\ Doing(c, "begin")
          /\ pc' = [pc EXCEPT ![c] = "run"]
          /\ at' = [at EXCEPT ![c] = 1]
          /\ UNCHANGED <<task, tries, errno, link, deadlockLock, outcome, alive, losses>>
      BY <1>3 DEF BeginTransaction, Goto
    <2>2. CASE link[c] = "up" /\ ServerStart(c)
      <3>1. ~open[c] /\ written[c] = Nothing
        BY <2>1 DEF IInv, HoldInv, SessionOK, OpenOK, Doing, Sending
      <3>2. durable' = durable
        BY <2>2, <3>1, CommittedFacts DEF ServerStart
      <3>3. written'[c] = Only(task'[c], FirstEffects(c)')
        <4>1. FirstEffects(c)' = <<>>
          BY <2>1 DEF FirstEffects, TypeOK
        <4>2. written'[c] = Nothing
          BY <2>2 DEF ServerStart, TypeOK, ServerTypeOK
        <4> QED BY <4>1, <4>2 DEF Only, Nothing
      <3>4. SessionOK'
        BY <2>1, <2>2, <3>3 DEF IInv, HoldInv, SessionOK, OpenOK, ServerStart, Doing, TypeOK, ServerTypeOK, FirstEffects, Sending
      <3>6. DurableOK' /\ AllOrNothing'
        BY <2>1, <3>2 DEF IInv, HoldInv, DurableOK, AllOrNothing, Doing, TypeOK
      <3> QED BY <3>4, <3>6
    <2>3. CASE link[c] = "dead" /\ UNCHANGED serverVars
      <3>1. SessionOK'
        BY <2>1, <2>3 DEF IInv, HoldInv, SessionOK, OpenOK, serverVars, TypeOK, FirstEffects, Sending, Doing
      <3>3. DurableOK' /\ AllOrNothing'
        BY <2>1, <2>3 DEF IInv, HoldInv, DurableOK, AllOrNothing, serverVars, Doing, TypeOK
      <3> QED BY <3>1, <3>3
    <2> QED BY <1>3, <2>2, <2>3 DEF BeginTransaction
  <1>4. ASSUME NEW c \in Connections, StatementWaits(c)
        PROVE  SessionOK' /\ DurableOK' /\ AllOrNothing'
    <2> USE <1>4 DEF StatementWaits, ServerWait, Doing, IInv, HoldInv, connVars
    <2>1. SessionOK'
      BY DEF SessionOK, OpenOK, FirstEffects
    <2>3. DurableOK' /\ AllOrNothing'
      BY DEF DurableOK, AllOrNothing
    <2> QED BY <2>1, <2>3
  <1>5. ASSUME NEW c \in Connections, ExecuteStatement(c)
        PROVE  SessionOK' /\ DurableOK' /\ AllOrNothing'
    <2>1. /\ alive /\ pc[c] = "run" /\ link[c] = "up" /\ open[c]
          /\ written[c] = Only(task[c], FirstEffects(c))
          /\ ServerWrite(c, task[c], at[c])
          /\ task[c] \in Transactions
          /\ at[c] \in 1 .. Length(c) /\ Length(c) \in Nat
          /\ Statements[task[c]][at[c]] \in Rows
      BY <1>5, TaskType DEF ExecuteStatement, Doing, IInv, HoldInv, SessionOK, OpenOK, TaskOK, Length
    <2>2. /\ UNCHANGED <<task, tries, errno, link, deadlockLock, outcome, alive, losses>>
          /\ UNCHANGED <<durable, wants, open>>
          /\ written' = [written EXCEPT ![c] =
                           [written[c] EXCEPT ![task[c]] = Append(written[c][task[c]], at[c])]]
          /\ owner' = [owner EXCEPT ![Statements[task[c]][at[c]]] = c]
      BY <1>5, <2>1 DEF ExecuteStatement, ServerWrite
    <2>3. written'[c] = Only(task[c], [k \in 1 .. at[c] |-> k])
      <3>1. written[c][task[c]] = [k \in 1 .. at[c] - 1 |-> k]
        BY <2>1 DEF Only, FirstEffects
      <3>2. Append(written[c][task[c]], at[c]) = [k \in 1 .. at[c] |-> k]
        BY <2>1, <3>1, NextNumber
      <3>3. written'[c] = [written[c] EXCEPT ![task[c]] = [k \in 1 .. at[c] |-> k]]
        BY <2>2, <3>2 DEF TypeOK, ServerTypeOK
      <3> QED BY <2>1, <3>3 DEF Only
    <2>4. CASE at[c] = Length(c)
      <3>1. pc' = [pc EXCEPT ![c] = "commit"] /\ at' = at
        BY <1>5, <2>4 DEF ExecuteStatement, Goto
      <3>2. written'[c] = Only(task[c], Whole[task[c]])
        BY <2>1, <2>3, <2>4 DEF Whole, Length
      <3>3. SessionOK'
        BY <2>1, <2>2, <3>1, <3>2 DEF IInv, HoldInv, SessionOK, OpenOK, TypeOK, ServerTypeOK, FirstEffects, Sending
      <3>5. DurableOK' /\ AllOrNothing'
        BY <2>1, <2>2, <3>1 DEF IInv, HoldInv, DurableOK, AllOrNothing, TypeOK
      <3> QED BY <3>3, <3>5
    <2>5. CASE at[c] # Length(c)
      <3>1. at' = [at EXCEPT ![c] = @ + 1] /\ pc' = pc
        BY <1>5, <2>5 DEF ExecuteStatement
      <3>2. written'[c] = Only(task[c], FirstEffects(c)')
        <4>1. at'[c] - 1 = at[c]
          BY <2>1, <3>1 DEF TypeOK
        <4> QED BY <2>1, <2>2, <2>3, <4>1 DEF FirstEffects
      <3>3. SessionOK'
        BY <2>1, <2>2, <3>1, <3>2 DEF IInv, HoldInv, SessionOK, OpenOK, TypeOK, ServerTypeOK, FirstEffects, Sending
      <3>5. DurableOK' /\ AllOrNothing'
        BY <2>1, <2>2, <3>1 DEF IInv, HoldInv, DurableOK, AllOrNothing, TypeOK
      <3> QED BY <3>3, <3>5
    <2> QED BY <2>4, <2>5
  <1>6. ASSUME NEW c \in Connections, StatementRejected(c) \/ StatementUnsent(c)
        PROVE  SessionOK' /\ DurableOK' /\ AllOrNothing'
    <2>1. PICK e \in Errors :
            /\ Doing(c, "run")
            /\ pc' = [pc EXCEPT ![c] = "rollback"]
            /\ errno' = [errno EXCEPT ![c] = e]
            /\ UNCHANGED <<serverVars, task, at, tries, link, deadlockLock, outcome, alive, losses>>
      BY <1>6 DEF StatementRejected, StatementUnsent, Abandon, Goto, Errors
    <2>2. wants[c] = NoRow
      BY <1>6 DEF StatementRejected, StatementUnsent, IInv, HoldInv, LockOK, Available
    <2>3. SessionOK'
      BY <2>1 DEF IInv, HoldInv, SessionOK, OpenOK, serverVars, TypeOK, FirstEffects, Sending, Doing
    <2>5. DurableOK' /\ AllOrNothing'
      BY <2>1 DEF IInv, HoldInv, DurableOK, AllOrNothing, serverVars, Doing, TypeOK
    <2> QED BY <2>3, <2>5
  <1>7. ASSUME NEW c \in Connections, ServerRollback(c),
               \/ DeadlockVictim(c)
               \/ RollbackTransaction(c)
               \/ LoseRequest(c)
        PROVE  SessionOK' /\ DurableOK' /\ AllOrNothing'
    <2>1. /\ pc[c] \in {"begin", "run", "commit", "rollback"}
          /\ pc[c] = "commit" => link[c] = "up" /\ pc'[c] = "commit" /\ link'[c] = "lost"
          /\ pc'[c] \in {"begin", "run", "commit", "rollback", "returned"}
          /\ pc'[c] \notin {"rollback", "returned"} => link'[c] = "lost"
          /\ \A d \in Connections \ {c} : /\ pc'[d] = pc[d] /\ link'[d] = link[d]
                                          /\ errno'[d] = errno[d]
          /\ UNCHANGED <<task, at, outcome, alive>>
      BY <1>7 DEF DeadlockVictim, RollbackTransaction, LoseRequest, Lost, Doing, Goto, Abandon, connVars, TypeOK
    <2>2. durable' = durable /\ open' = [open EXCEPT ![c] = FALSE]
          /\ written' = [written EXCEPT ![c] = Nothing] /\ Unlock(c)
      BY <1>7 DEF ServerRollback, End
    <2>3. SessionOK'
      BY <2>1, <2>2 DEF IInv, HoldInv, SessionOK, OpenOK, TypeOK, ServerTypeOK, FirstEffects, Sending
    <2>5. durable[task[c]] = <<>>
      BY <2>1 DEF IInv, HoldInv, DurableOK
    <2>6. DurableOK' /\ AllOrNothing'
      BY <2>1, <2>2, <2>5 DEF IInv, HoldInv, DurableOK, AllOrNothing
    <2> QED BY <2>3, <2>6
  <1>8. ASSUME NEW c \in Connections, RollbackTransaction(c), ~ServerRollback(c)
        PROVE  SessionOK' /\ DurableOK' /\ AllOrNothing'
    <2>1. /\ Doing(c, "rollback") /\ link[c] = "dead"
          /\ pc' = [pc EXCEPT ![c] = "returned"]
          /\ UNCHANGED <<serverVars, task, at, tries, errno, link, deadlockLock, outcome, alive, losses>>
      BY <1>8 DEF RollbackTransaction, Goto
    <2>2. SessionOK'
      BY <2>1 DEF IInv, HoldInv, SessionOK, OpenOK, serverVars, TypeOK, FirstEffects, Sending, Doing
    <2>4. DurableOK' /\ AllOrNothing'
      BY <2>1 DEF IInv, HoldInv, DurableOK, AllOrNothing, serverVars, Doing, TypeOK
    <2> QED BY <2>2, <2>4
  <1>9. ASSUME NEW c \in Connections, CommitTransaction(c) \/ LoseReply(c)
        PROVE  SessionOK' /\ DurableOK' /\ AllOrNothing'
    <2>1. /\ pc[c] = "commit"
          /\ \/ pc'[c] = "returned" /\ errno'[c] = "none"
             \/ pc'[c] = "commit" /\ link'[c] # "up"
          /\ \A d \in Connections \ {c} : /\ pc'[d] = pc[d] /\ link'[d] = link[d]
                                          /\ errno'[d] = errno[d]
          /\ UNCHANGED <<task, at, outcome, alive>>
          /\ alive
      BY <1>9 DEF CommitTransaction, LoseReply, Lost, Doing, Goto, connVars, TypeOK, IInv, HoldInv, SessionOK, OpenOK
    <2>2. CASE link[c] = "up" /\ ServerCommit(c)
      <3>1. /\ task[c] \in Transactions
            /\ Whole[task[c]] \in Seq(Nat)
            /\ written[c] = Only(task[c], Whole[task[c]])
            /\ durable[task[c]] = <<>>
        BY <2>1, <2>2, WholeType, TaskType DEF IInv, HoldInv, SessionOK, OpenOK, DurableOK
      <3>2. durable' = [durable EXCEPT ![task[c]] = Whole[task[c]]]
        BY <2>2, <3>1, CommittedFacts DEF ServerCommit
      <3>3. open' = [open EXCEPT ![c] = FALSE]
            /\ written' = [written EXCEPT ![c] = Nothing] /\ Unlock(c)
        BY <2>2 DEF ServerCommit, End
      <3>4. SessionOK'
        BY <2>1, <3>3 DEF IInv, HoldInv, SessionOK, OpenOK, TypeOK, ServerTypeOK, FirstEffects, Sending
      <3>6. AllOrNothing'
        BY <3>2 DEF IInv, HoldInv, AllOrNothing, TypeOK, ServerTypeOK
      <3>7. outcome[task[c]] = "running"
            /\ \A d \in Connections \ {c} : pc[d] # "idle" => task[d] # task[c]
        BY <2>1 DEF TaskOK
      <3>8. \A t \in Transactions \ {task[c]} : durable'[t] = durable[t]
        BY <3>2 DEF TypeOK, ServerTypeOK
      <3>9. ASSUME NEW d \in Connections \ {c}, pc[d] # "idle"
            PROVE  durable'[task[d]] = durable[task[d]]
        BY <3>7, <3>8, <3>9 DEF TypeOK, TaskOK
      <3>10. DurableOK'
        <4>1. \A t \in Transactions : outcome'[t] \in {"pending", "failed"} => durable'[t] = <<>>
          BY <2>1, <3>7, <3>8 DEF IInv, HoldInv, DurableOK
        <4> QED BY <2>1, <3>9, <4>1 DEF IInv, HoldInv, DurableOK
      <3> QED BY <3>4, <3>6, <3>10
    <2>3. CASE ~(link[c] = "up" /\ ServerCommit(c))
      <3>1. UNCHANGED serverVars /\ link[c] = "dead" /\ pc' = [pc EXCEPT ![c] = "returned"] /\ UNCHANGED link
        BY <1>9, <2>1, <2>3 DEF CommitTransaction, LoseReply, Doing, Goto
      <3>2. SessionOK'
        BY <2>1, <3>1 DEF IInv, HoldInv, SessionOK, OpenOK, serverVars, TypeOK, FirstEffects, Sending
      <3>4. DurableOK' /\ AllOrNothing'
        BY <2>1, <3>1 DEF IInv, HoldInv, DurableOK, AllOrNothing, serverVars, TypeOK
      <3> QED BY <3>2, <3>4
    <2> QED BY <2>2, <2>3
  <1>10. ASSUME NEW c \in Connections, ReconnectRefused(c)
         PROVE  SessionOK' /\ DurableOK' /\ AllOrNothing'
    <2> USE <1>10 DEF ReconnectRefused, IInv, HoldInv, connVars, serverVars, lockVars, TypeOK
    <2>1. SessionOK'
      BY DEF SessionOK, OpenOK, FirstEffects
    <2>3. DurableOK' /\ AllOrNothing'
      BY DEF DurableOK, AllOrNothing
    <2> QED BY <2>1, <2>3
  <1>11. ASSUME NEW c \in Connections, Succeed(c) \/ Retry(c) \/ GiveUp(c)
         PROVE  SessionOK' /\ DurableOK' /\ AllOrNothing'
    <2>1. /\ Doing(c, "returned")
          /\ pc'[c] \in {"idle", "begin", "returned"}
          /\ \A d \in Connections \ {c} : /\ pc'[d] = pc[d] /\ errno'[d] = errno[d]
                                          /\ at'[d] = at[d] /\ task'[d] = task[d]
          /\ UNCHANGED <<serverVars, link, alive>>
      BY <1>11 DEF Succeed, Retry, GiveUp, Return, Enter, Goto, TypeOK, Doing
    <2>2. SessionOK'
      <3>1. ~open[c] /\ pc'[c] \notin Sending
        BY <2>1 DEF IInv, HoldInv, SessionOK, OpenOK, Sending, Doing
      <3>2. \A d \in Connections \ {c} : FirstEffects(d)' = FirstEffects(d)
        BY <2>1 DEF FirstEffects
      <3> QED BY <2>1, <3>1, <3>2 DEF IInv, HoldInv, SessionOK, OpenOK, serverVars, Sending, Doing
    <2>4. AllOrNothing'
      BY <2>1 DEF IInv, HoldInv, AllOrNothing, serverVars
    <2>5. CASE Retry(c)
      <3>1. /\ pc'[c] \in {"begin", "returned"}
            /\ pc'[c] = "returned" => errno'[c] # "none"
            /\ errno[c] # "none"
            /\ task' = task /\ outcome' = outcome
        BY <2>5 DEF Retry, Enter, Goto, TypeOK
      <3>2. durable[task[c]] = <<>>
        BY <2>1, <3>1 DEF IInv, HoldInv, DurableOK, Doing
      <3>3. DurableOK'
        BY <2>1, <3>1, <3>2 DEF IInv, HoldInv, DurableOK, serverVars
      <3> QED BY <2>2, <2>4, <3>3
    <2>6. CASE Succeed(c) \/ GiveUp(c)
      <3>1. pc'[c] = "idle" /\ outcome' = [outcome EXCEPT ![task[c]] = IF errno[c] = "none" THEN "ok" ELSE "failed"]
        BY <2>6 DEF Succeed, GiveUp, Return, Goto, TypeOK
      <3>2. task[c] \in Transactions /\ errno[c] # "none" => durable[task[c]] = <<>>
        BY <2>1, TaskType DEF IInv, HoldInv, DurableOK, Doing
      <3>3. \A t \in Transactions : outcome'[t] \in {"pending", "failed"} => durable'[t] = <<>>
        BY <2>1, <3>1, <3>2 DEF IInv, HoldInv, DurableOK, serverVars, TypeOK
      <3>4. DurableOK'
        BY <2>1, <3>1, <3>3 DEF IInv, HoldInv, DurableOK, serverVars
      <3> QED BY <2>2, <2>4, <3>4
    <2> QED BY <1>11, <2>2, <2>4, <2>5, <2>6
  <1>12. CASE Abort
    <2> USE <1>12 DEF Abort, ServerDropAll, IInv, HoldInv, connVars
    <2>1. SessionOK'
      BY DEF SessionOK, OpenOK
    <2>3. DurableOK' /\ AllOrNothing'
      BY DEF DurableOK, AllOrNothing
    <2> QED BY <2>1, <2>3
  <1>13. CASE UNCHANGED vars
    BY <1>13 DEF vars, connVars, serverVars, lockVars, IInv, HoldInv, SessionOK, OpenOK, LockOK, DurableOK, AllOrNothing, FirstEffects
  <1>14. ASSUME NEW c \in Connections, LoseRequest(c) \/ DeadlockVictim(c) PROVE ServerRollback(c)
    BY <1>14 DEF LoseRequest, DeadlockVictim
  <1> QED
    BY <1>2, <1>3, <1>4, <1>5, <1>6, <1>7, <1>8, <1>9, <1>10, <1>11, <1>12, <1>13, <1>14
    DEF Next, Work, Terminated

\* A process that cannot reconnect keeps the invariant.
LEMMA Invariance == ASSUME CanReconnect = FALSE PROVE Spec => []IInv
  <1>1. IInv /\ [Next]_vars => IInv'
    BY InvariantStep DEF Reconnect
  <1> QED BY <1>1, InitInvariant, PTL DEF Spec

\* While no connection is found again after it was lost, every transaction takes effect
\* as a whole, once and in order, or not at all.
THEOREM Atomicity == ASSUME CanReconnect = FALSE PROVE Spec => []AllOrNothing
  <1>1. IInv => AllOrNothing
    BY DEF IInv, HoldInv
  <1> QED BY <1>1, Invariance, PTL

\* Under the same assumption a transaction that is given up leaves nothing behind.
THEOREM Rollback == ASSUME CanReconnect = FALSE PROVE Spec => []RolledBackIfNotCommitted
  <1>1. IInv => RolledBackIfNotCommitted
    BY DEF IInv, HoldInv, DurableOK, RolledBackIfNotCommitted
  <1> QED BY <1>1, Invariance, PTL

-----------------------------------------------------------------------------
(* What callers are told, when no connection is lost.                      *)

\* The COMMIT of a connection makes its transaction durable, and no other.
LEMMA CommitMakesWhole ==
    ASSUME IInv, NEW c \in Connections, alive, pc[c] = "commit", link[c] = "up"
    PROVE  Committed(c) = [durable EXCEPT ![task[c]] = Whole[task[c]]]
  <1>1. task[c] \in Transactions /\ Whole[task[c]] \in Seq(Nat)
    BY TaskType, WholeType DEF IInv, HoldInv
  <1>2. written[c] = Only(task[c], Whole[task[c]]) /\ durable[task[c]] = <<>>
    BY DEF IInv, HoldInv, SessionOK, OpenOK, DurableOK
  <1> QED BY <1>1, <1>2, CommittedFacts DEF IInv, HoldInv

\* Only a COMMIT changes what is durable, when no connection is lost.
LEMMA DurableStep ==
    ASSUME IInv, [Next]_vars,
           \A c \in Connections : /\ ~LoseRequest(c) /\ ~LoseReply(c)
                                  /\ ~CommitTransaction(c)
    PROVE  UNCHANGED durable
  <1>1. ASSUME NEW c \in Connections, BeginTransaction(c)
        PROVE  UNCHANGED durable
    <2>1. written[c] = Nothing
      BY <1>1 DEF BeginTransaction, Doing, IInv, HoldInv, SessionOK, OpenOK, Sending
    <2> QED BY <1>1, <2>1, CommittedFacts DEF BeginTransaction, ServerStart, serverVars, IInv, HoldInv
  <1>2. ASSUME NEW c \in Connections, ExecuteStatement(c)
        PROVE  UNCHANGED durable
    BY <1>2 DEF ExecuteStatement, ServerWrite, Doing, IInv, HoldInv, SessionOK, OpenOK
  <1>3. ASSUME NEW c \in Connections,
               \/ StatementWaits(c)
               \/ StatementRejected(c)
               \/ StatementUnsent(c)
               \/ DeadlockVictim(c)
               \/ RollbackTransaction(c)
               \/ Reconnect(c)
               \/ ReconnectRefused(c)
        PROVE  UNCHANGED durable
    BY <1>3 DEF StatementWaits, ServerWait, StatementRejected, StatementUnsent, DeadlockVictim,
                RollbackTransaction, ServerRollback, Reconnect, ReconnectRefused, serverVars
  <1>4. ASSUME NEW c \in Connections,
               \/ Succeed(c)
               \/ Retry(c)
               \/ GiveUp(c)
               \/ \E t \in Transactions : Start(c, t)
        PROVE  UNCHANGED durable
    BY <1>4 DEF Succeed, Retry, GiveUp, Start, Return, serverVars
  <1>5. CASE Abort \/ UNCHANGED vars
    BY <1>5 DEF Abort, ServerDropAll, vars, serverVars
  <1> QED BY <1>1, <1>2, <1>3, <1>4, <1>5 DEF Next, Work, Terminated

\* Without losses every connection stays up, and success is reported of what is durable.
LEMMA ReportStep ==
    ASSUME IInv, ReportOK, [Next]_vars, MaxLosses = 0
    PROVE  IInv' /\ ReportOK'
  <1>1. IInv'
    BY InvariantStep DEF Reconnect, ReportOK
  <1>2. \A c \in Connections : ~LoseRequest(c) /\ ~LoseReply(c) /\ ~ReconnectRefused(c) /\ ~StatementUnsent(c) /\ ~Reconnect(c)
    BY DEF LoseRequest, LoseReply, Lost, ReconnectRefused, StatementUnsent, Reconnect, ReportOK, IInv, HoldInv, TypeOK
  <1> SUFFICES ReportOK'
    BY <1>1
  <1>3. ASSUME NEW c \in Connections, CommitTransaction(c)
        PROVE  ReportOK'
    <2>1. /\ pc[c] = "commit" /\ link[c] = "up" /\ alive
          /\ ServerCommit(c)
          /\ pc' = [pc EXCEPT ![c] = "returned"]
          /\ UNCHANGED <<task, link, outcome>>
          /\ \A d \in Connections \ {c} : errno'[d] = errno[d]
      BY <1>3 DEF CommitTransaction, Doing, Goto, ReportOK, IInv, HoldInv, TypeOK
    <2>2. durable' = [durable EXCEPT ![task[c]] = Whole[task[c]]]
      BY <2>1, CommitMakesWhole DEF ServerCommit
    <2>3. \A t \in Transactions : durable'[t] = IF t = task[c] THEN Whole[t] ELSE durable[t]
      BY <2>2 DEF IInv, HoldInv, TypeOK, ServerTypeOK
    <2>4. ASSUME NEW d \in Connections
          PROVE  /\ link'[d] = "up"
                 /\ pc'[d] = "rollback" => errno'[d] # "none"
                 /\ pc'[d] = "returned" /\ errno'[d] = "none" => durable'[task'[d]] = Whole[task'[d]]
      <3>1. pc[d] # "idle" => task[d] \in Transactions
        BY TaskType DEF IInv, HoldInv
      <3> QED BY <2>1, <2>3, <3>1 DEF ReportOK, IInv, HoldInv, TypeOK
    <2> QED BY <2>1, <2>3, <2>4 DEF ReportOK, DoneMeansDurable
  <1>4. ASSUME ~\E c \in Connections : CommitTransaction(c)
        PROVE  UNCHANGED durable
    BY <1>2, <1>4, DurableStep DEF Next
  <1>5. ASSUME UNCHANGED durable, NEW c \in Connections,
               \/ BeginTransaction(c)
               \/ StatementWaits(c)
               \/ ExecuteStatement(c)
               \/ StatementRejected(c)
               \/ DeadlockVictim(c)
               \/ RollbackTransaction(c)
        PROVE  ReportOK'
    <2>1. /\ UNCHANGED <<task, link, outcome>>
          /\ \A d \in Connections \ {c} : pc'[d] = pc[d] /\ errno'[d] = errno[d]
          /\ pc'[c] = "rollback" => errno'[c] # "none"
          /\ pc'[c] = "returned" => errno'[c] # "none"
      BY <1>5 DEF BeginTransaction, StatementWaits, ExecuteStatement, StatementRejected, DeadlockVictim,
                  RollbackTransaction, Abandon, Goto, Doing, connVars, ReportOK, IInv, HoldInv, TypeOK
    <2> QED BY <1>5, <2>1 DEF ReportOK, DoneMeansDurable
  <1>6. ASSUME UNCHANGED durable, NEW c \in Connections,
               \/ Succeed(c)
               \/ Retry(c)
               \/ GiveUp(c)
               \/ \E t \in Transactions : Start(c, t)
        PROVE  ReportOK'
    <2>1. /\ UNCHANGED link
          /\ \A d \in Connections \ {c} : pc'[d] = pc[d] /\ errno'[d] = errno[d] /\ task'[d] = task[d]
          /\ pc'[c] # "rollback"
          /\ pc'[c] = "returned" => errno'[c] # "none"
          /\ \A t \in Transactions :
                outcome'[t] = "ok" => \/ outcome[t] = "ok"
                                      \/ t = task[c] /\ pc[c] = "returned" /\ errno[c] = "none"
      BY <1>6 DEF Succeed, Retry, GiveUp, Start, Return, Enter, Goto, Doing, ReportOK, IInv, HoldInv, TypeOK
    <2> QED BY <1>6, <2>1 DEF ReportOK, DoneMeansDurable
  <1>7. CASE Abort \/ UNCHANGED vars
    BY <1>7 DEF Abort, ServerDropAll, vars, connVars, serverVars, ReportOK, DoneMeansDurable
  <1> QED BY <1>2, <1>3, <1>4, <1>5, <1>6, <1>7 DEF Next, Work, Terminated

\* Without losses a caller that is told its transaction was done finds it durable, and
\* whole.
THEOREM ReportsAreTrue == ASSUME MaxLosses = 0 PROVE Spec => []DoneMeansDurable
  <1>1. Init => IInv /\ ReportOK
    BY InitInvariant DEF Init, ReportOK, DoneMeansDurable
  <1>2. IInv /\ ReportOK /\ [Next]_vars => (IInv /\ ReportOK)'
    BY ReportStep
  <1>3. ReportOK => DoneMeansDurable
    BY DEF ReportOK
  <1> QED BY <1>1, <1>2, <1>3, PTL DEF Spec

-----------------------------------------------------------------------------
(* Refinement.                                                             *)

\* Every step of the connections is a step of atomic transactions, or none.
LEMMA AtomicStep ==
    ASSUME IInv, ReportOK, [Next]_vars, MaxLosses = 0
    PROVE  [Atomic!Next]_(Atomic!vars)
  <1>1. \A c \in Connections : ~LoseRequest(c) /\ ~LoseReply(c)
    BY DEF LoseRequest, LoseReply, Lost, IInv, HoldInv, TypeOK
  <1>2. ASSUME NEW c \in Connections, NEW t \in Transactions, Start(c, t)
        PROVE  Atomic!Start(t)
    BY <1>2 DEF Start, Atomic!Start, serverVars
  <1>3. ASSUME NEW c \in Connections, CommitTransaction(c)
        PROVE  Atomic!Commit(task[c]) /\ task[c] \in Transactions
    <2>1. /\ pc[c] = "commit" /\ link[c] = "up" /\ alive
          /\ ServerCommit(c)
          /\ outcome' = outcome
      BY <1>3 DEF CommitTransaction, Doing, ReportOK
    <2>2. outcome[task[c]] = "running" /\ durable[task[c]] = <<>> /\ task[c] \in Transactions
      BY <2>1, TaskType DEF IInv, HoldInv, TaskOK, DurableOK
    <2> QED BY <2>1, <2>2, CommitMakesWhole DEF ServerCommit, Atomic!Commit
  <1>4. ASSUME NEW c \in Connections, Succeed(c) \/ GiveUp(c)
        PROVE  Atomic!Report(task[c]) /\ task[c] \in Transactions
    <2>1. /\ pc[c] = "returned"
          /\ durable' = durable
          /\ \/ errno[c] = "none" /\ outcome' = [outcome EXCEPT ![task[c]] = "ok"]
             \/ errno[c] # "none" /\ outcome' = [outcome EXCEPT ![task[c]] = "failed"]
      BY <1>4 DEF Succeed, GiveUp, Return, Doing, serverVars
    <2>2. outcome[task[c]] = "running" /\ task[c] \in Transactions
      BY <2>1, TaskType DEF IInv, HoldInv, TaskOK
    <2>3. /\ errno[c] = "none" => durable[task[c]] = Whole[task[c]]
          /\ errno[c] # "none" => durable[task[c]] = <<>>
      BY <2>1 DEF IInv, HoldInv, DurableOK, ReportOK
    <2> QED BY <2>1, <2>2, <2>3 DEF Atomic!Report
  <1>5. ASSUME ~\E c \in Connections : \/ CommitTransaction(c)
                                       \/ Succeed(c)
                                       \/ GiveUp(c)
                                       \/ \E t \in Transactions : Start(c, t)
        PROVE  UNCHANGED Atomic!vars
    <2>1. UNCHANGED durable
      BY <1>1, <1>5, DurableStep
    <2>2. UNCHANGED outcome
      BY <1>1, <1>5 DEF Next, Work, Terminated, vars, connVars, BeginTransaction, StatementWaits, ExecuteStatement,
         StatementRejected, StatementUnsent, DeadlockVictim, Abandon, RollbackTransaction, Retry,
         Reconnect, ReconnectRefused, Abort
    <2> QED BY <2>1, <2>2 DEF Atomic!vars
  <1> QED BY <1>2, <1>3, <1>4, <1>5 DEF Atomic!Next

\* While no connection is lost, ExecuteTransaction with the retries of its callers
\* implements atomic transactions, whose callers learn what became of them.
THEOREM Implementation == ASSUME MaxLosses = 0 PROVE Spec => ImplementsAtomicTransactions
  <1>1. Init => Atomic!Init
    BY DEF Init, ServerInit, Nothing, Atomic!Init
  <1>2. Init => IInv /\ ReportOK
    BY InitInvariant DEF Init, ReportOK, DoneMeansDurable
  <1>3. IInv /\ ReportOK /\ [Next]_vars => (IInv /\ ReportOK)'
    BY ReportStep
  <1>4. IInv /\ ReportOK /\ [Next]_vars => [Atomic!Next]_(Atomic!vars)
    BY AtomicStep
  <1> QED BY <1>1, <1>2, <1>3, <1>4, PTL DEF Spec, ImplementsAtomicTransactions, Atomic!Spec

-----------------------------------------------------------------------------
(* Contention among worker threads, when no connection is lost.  A         *)
(* statement that takes a row from a transaction that is being retried     *)
(* goes on to the end of its own transaction, or of its try; it can only   *)
(* come back after a retry of its own, which _deadlockLock keeps for       *)
(* later.  So each deadlock lost in the loop is lost to one more statement.*)

Refused(t) == Statements[t] = <<>> \/ \E k \in DOMAIN Statements[t] : <<t, k>> \in Rejected

\* The k-th statement of u is past: it has its row, or u is out of the way.
Passed(u, k) ==
    \/ outcome[u] \in {"ok", "failed"}
    \/ \E d \in Connections :
          /\ task[d] = u
          /\ \/ pc[d] \in {"commit", "rollback", "returned"}
             \/ /\ pc[d] = "run"
                /\ k < at[d] \/ (k = at[d] /\ owner[Statements[u][k]] = d)

Beaten(c) == pc[c] \in {"rollback", "returned"} /\ errno[c] = "deadlock"

\* The history holds finitely many statements, of other transactions.
OutrunOK ==
    \A t \in Transactions :
        /\ IsFiniteSet(outrun[t])
        /\ \A s \in outrun[t] : s[1] \in Transactions \ {t} /\ s[2] \in DOMAIN Statements[s[1]]
        /\ outcome[t] = "pending" => outrun[t] = {}

\* Who retries holds _deadlockLock; other errors are refusals; the statements that have
\* outrun a transaction that is retried are past, and as many as the deadlocks it lost.
LoopAt(c) ==
    /\ tries[c] > 0 => deadlockLock = c
    /\ pc[c] \in {"rollback", "returned"} /\ errno[c] = "other" => Refused(task[c])
    /\ pc[c] # "idle" /\ tries[c] = 0 => outrun[task[c]] = {}
    /\ tries[c] > 0 =>
          /\ \A s \in outrun[task[c]] : Passed(s[1], s[2])
          /\ \/ Refused(task[c])
             \/ tries[c] <= Cardinality(outrun[task[c]])
             \/ ~Beaten(c) /\ tries[c] - 1 <= Cardinality(outrun[task[c]])

LoopOK == \A c \in Connections : LoopAt(c)

Acts(c) ==
    \/ \E t \in Transactions : Start(c, t)
    \/ BeginTransaction(c) \/ StatementWaits(c) \/ ExecuteStatement(c) \/ StatementRejected(c)
    \/ DeadlockVictim(c) \/ RollbackTransaction(c) \/ CommitTransaction(c)
    \/ Succeed(c) \/ Retry(c) \/ GiveUp(c)

\* Without losses, a step is one of a connection that is up, or the end of the process.
LEMMA CalmSteps ==
    ASSUME IInv, ReportOK, [Next]_vars, MaxLosses = 0
    PROVE  (\E c \in Connections : Acts(c)) \/ Abort \/ UNCHANGED vars
  <1>1. \A c \in Connections : ~LoseRequest(c) /\ ~LoseReply(c) /\ ~ReconnectRefused(c)
                               /\ ~StatementUnsent(c) /\ ~Reconnect(c)
    BY DEF LoseRequest, LoseReply, Lost, ReconnectRefused, StatementUnsent, Reconnect, ReportOK,
           IInv, HoldInv, TypeOK
  <1> QED BY <1>1 DEF Next, Work, Terminated, Acts

\* Releasing the locks of c leaves those of the others, and gives a row somebody waits for
\* to one who waits.
LEMMA UnlockGrants ==
    ASSUME ServerTypeOK, NEW c \in Connections, Unlock(c), NEW r \in Rows
    PROVE  /\ owner[r] # c => owner'[r] = owner[r]
           /\ owner[r] = c /\ Waiters(r) \ {c} # {} =>
                 \E d \in Connections \ {c} : wants[d] = r /\ owner'[r] = d
  <1>1. IF owner[r] # c THEN owner'[r] = owner[r]
        ELSE \/ owner'[r] \in Waiters(r) \ {c}
             \/ Waiters(r) \ {c} = {} /\ owner'[r] = NoConnection
    BY DEF Unlock
  <1> QED BY <1>1 DEF Waiters

\* A connection's step leaves the progress of the others, and their locks, alone.
LEMMA OthersKept ==
    ASSUME IInv, ReportOK, NEW c \in Connections, Acts(c), NEW d \in Connections \ {c}
    PROVE  /\ alive /\ alive'
           /\ pc'[d] = pc[d] /\ task'[d] = task[d] /\ at'[d] = at[d]
           /\ tries'[d] = tries[d] /\ errno'[d] = errno[d]
           /\ \A r \in Rows : owner[r] = d => owner'[r] = d
  <1>1. TypeOK /\ TaskOK /\ ServerTypeOK
    BY DEF IInv, HoldInv, TypeOK
  <1>2. /\ alive /\ alive'
        /\ pc'[d] = pc[d] /\ task'[d] = task[d] /\ at'[d] = at[d]
        /\ tries'[d] = tries[d] /\ errno'[d] = errno[d]
    <2>1. CASE \/ \E t \in Transactions : Start(c, t)
               \/ Succeed(c) \/ Retry(c) \/ GiveUp(c)
      BY <1>1, <2>1 DEF Start, Succeed, Retry, GiveUp, Return, Enter, Goto, Doing, TypeOK
    <2>2. CASE \/ BeginTransaction(c) \/ StatementWaits(c) \/ ExecuteStatement(c)
               \/ StatementRejected(c) \/ DeadlockVictim(c) \/ RollbackTransaction(c)
               \/ CommitTransaction(c)
      BY <1>1, <2>2 DEF BeginTransaction, StatementWaits, ExecuteStatement, StatementRejected,
                        DeadlockVictim, RollbackTransaction, CommitTransaction, Abandon, Goto,
                        Doing, connVars, TypeOK
    <2> QED BY <2>1, <2>2 DEF Acts
  <1>3. ASSUME NEW r \in Rows, owner[r] = d
        PROVE  owner'[r] = d
    <2>1. CASE ExecuteStatement(c)
      <3>1. Statements[task[c]][at[c]] \in Rows /\ Available(c, Statements[task[c]][at[c]])
            /\ open[c]
        BY <1>1, <2>1, TaskType DEF ExecuteStatement, ServerWrite, Doing, IInv, SessionOK
      <3>2. owner' = [owner EXCEPT ![Statements[task[c]][at[c]]] = c]
        BY <2>1, <3>1 DEF ExecuteStatement, ServerWrite
      <3>3. r # Statements[task[c]][at[c]]
        BY <1>3, <3>1, ConnectionsAssumption DEF Available
      <3> QED BY <1>1, <1>3, <3>1, <3>2, <3>3 DEF ServerTypeOK
    <2>2. CASE Unlock(c)
      BY <1>1, <1>3, <2>2, UnlockGrants
    <2>3. CASE UNCHANGED owner
      BY <1>3, <2>3
    <2>4. Unlock(c) \/ UNCHANGED owner \/ ExecuteStatement(c)
      BY DEF Acts, Start, BeginTransaction, StatementWaits, StatementRejected, DeadlockVictim,
             RollbackTransaction, CommitTransaction, Succeed, Retry, GiveUp, Return, serverVars,
             lockVars, ServerStart, ServerWait, ServerRollback, ServerCommit, End
    <2> QED BY <2>1, <2>2, <2>3, <2>4
  <1> QED BY <1>2, <1>3

\* What is past stays past, except for a transaction that is tried again.
LEMMA PassedStays ==
    ASSUME IInv, ReportOK, NEW c \in Connections, Acts(c),
           NEW u \in Transactions, NEW k \in DOMAIN Statements[u], Passed(u, k),
           Retry(c) => task[c] # u
    PROVE  Passed(u, k)'
  <1>1. TypeOK /\ TaskOK
    BY DEF IInv, HoldInv
  <1>2. CASE outcome[u] \in {"ok", "failed"}
    <2>1. pc[c] = "returned" => outcome[task[c]] = "running"
      BY <1>1 DEF TaskOK
    <2>2. outcome'[u] = outcome[u]
      BY <1>1, <1>2, <2>1
      DEF Acts, Start, BeginTransaction, StatementWaits, ExecuteStatement, StatementRejected,
          DeadlockVictim, RollbackTransaction, CommitTransaction, Succeed, Retry, GiveUp, Return,
          Abandon, Doing, TypeOK
    <2> QED BY <1>2, <2>2 DEF Passed
  <1>3. ASSUME NEW d \in Connections, d # c, task[d] = u,
               \/ pc[d] \in {"commit", "rollback", "returned"}
               \/ /\ pc[d] = "run"
                  /\ k < at[d] \/ (k = at[d] /\ owner[Statements[u][k]] = d)
        PROVE  Passed(u, k)'
    <2>1. Statements[u][k] \in Rows
      BY StatementsAssumption
    <2>2. pc'[d] = pc[d] /\ task'[d] = task[d] /\ at'[d] = at[d]
          /\ (owner[Statements[u][k]] = d => owner'[Statements[u][k]] = d)
      BY <1>3, <2>1, OthersKept
    <2> QED BY <1>3, <2>2 DEF Passed
  <1>4. ASSUME task[c] = u,
               \/ pc[c] \in {"commit", "rollback", "returned"}
               \/ /\ pc[c] = "run"
                  /\ k < at[c] \/ (k = at[c] /\ owner[Statements[u][k]] = c)
        PROVE  Passed(u, k)'
    <2>1. CASE Succeed(c) \/ GiveUp(c)
      <3>1. outcome'[u] \in {"ok", "failed"}
        BY <1>1, <1>4, <2>1 DEF Succeed, GiveUp, Return, TypeOK
      <3> QED BY <3>1 DEF Passed
    <2>2. CASE \/ StatementRejected(c) \/ DeadlockVictim(c) \/ RollbackTransaction(c)
               \/ CommitTransaction(c)
      <3>1. task'[c] = u /\ pc'[c] \in {"rollback", "returned"}
        BY <1>1, <1>4, <2>2 DEF StatementRejected, DeadlockVictim, RollbackTransaction,
                                CommitTransaction, Abandon, Goto, TypeOK
      <3> QED BY <3>1 DEF Passed
    <2>3. CASE ExecuteStatement(c)
      <3>1. pc[c] = "run" /\ task'[c] = u /\ at[c] \in Nat /\ k \in Nat
        <4>1. at[c] \in Nat /\ task'[c] = u /\ pc[c] = "run"
          BY <1>1, <1>4, <2>3 DEF ExecuteStatement, Doing, TypeOK
        <4>2. DOMAIN Statements[u] = 1 .. Len(Statements[u])
          BY StatementsAssumption, LenProperties
        <4> QED BY <4>1, <4>2
      <3>2. pc'[c] = "commit" \/ (pc'[c] = "run" /\ k < at'[c])
        <4>1. pc'[c] = "commit" \/ (pc'[c] = "run" /\ at'[c] = at[c] + 1)
          BY <1>1, <2>3, <3>1 DEF ExecuteStatement, Goto, TypeOK
        <4> QED BY <1>4, <3>1, <4>1
      <3> QED BY <3>1, <3>2 DEF Passed
    <2>4. CASE StatementWaits(c)
      <3>1. UNCHANGED <<pc, task, at, owner>>
        BY <2>4 DEF StatementWaits, ServerWait, connVars
      <3> QED BY <1>4, <3>1 DEF Passed
    <2>5. ~BeginTransaction(c) /\ ~Retry(c) /\ ~\E t \in Transactions : Start(c, t)
      BY <1>4 DEF BeginTransaction, Retry, Start, Doing
    <2> QED BY <2>1, <2>2, <2>3, <2>4, <2>5 DEF Acts
  <1> QED BY <1>2, <1>3, <1>4 DEF Passed

\* While d holds _deadlockLock nobody else retries.
LEMMA OneRetries ==
    ASSUME IInv, LoopOK, Connections = Async, NEW d \in Connections, deadlockLock = d,
           NEW c \in Connections \ {d}
    PROVE  tries[c] = 0 /\ ~Retry(c)
  <1>1. tries[c] \in Nat /\ (tries[c] > 0 => deadlockLock = c)
    BY LoopBreakerAssumption DEF LoopOK, LoopAt, IInv, HoldInv, TypeOK
  <1>2. tries[c] = 0
    BY <1>1
  <1> QED BY <1>2, ConnectionsAssumption DEF Retry

\* The history of a transaction is left alone but by a deadlock it loses in the loop.
LEMMA OutrunKept ==
    ASSUME IInv, ReportOK, HistoryNext, NEW c \in Connections, Acts(c), NEW t \in Transactions,
           ~DeadlockVictim(c) \/ task[c] # t \/ ~(tries[c] > 0)
    PROVE  outrun'[t] = outrun[t]
  <1>1. ASSUME NEW e \in Connections, task[e] = t, Loses(e)
        PROVE  FALSE
    <2>1. CASE e # c
      <3>1. pc'[e] = pc[e]
        BY <2>1, OthersKept
      <3> QED BY <1>1, <3>1 DEF Loses
    <2>2. CASE e = c
      <3>1. TypeOK
        BY DEF IInv, HoldInv
      <3>2. ~DeadlockVictim(c)
        BY <1>1, <2>2 DEF Loses
      <3>3. CASE StatementRejected(c)
        BY <1>1, <2>2, <3>1, <3>3 DEF StatementRejected, Abandon, Loses, TypeOK
      <3>4. CASE ~StatementRejected(c)
        BY <1>1, <2>2, <3>1, <3>2, <3>4
        DEF Acts, Start, BeginTransaction, StatementWaits, ExecuteStatement, RollbackTransaction,
            CommitTransaction, Succeed, Retry, GiveUp, Goto, Doing, connVars, Loses, TypeOK
      <3> QED BY <3>3, <3>4
    <2> QED BY <2>1, <2>2
  <1>2. Overtaken(t) = {}
    BY <1>1 DEF Overtaken
  <1> QED BY <1>2 DEF HistoryNext

\* A deadlock that c loses while it is retried adds the statements that overtake it.
LEMMA OutrunGrows ==
    ASSUME IInv, HistoryNext, NEW c \in Connections, DeadlockVictim(c), tries[c] > 0
    PROVE  outrun'[task[c]] = outrun[task[c]] \cup {<<task[d], at[d]>> : d \in Overtaking(c)}
  <1>1. TypeOK /\ TaskOK /\ pc[c] = "run"
    BY DEF IInv, HoldInv, DeadlockVictim, Doing
  <1>2. task[c] \in Transactions
    BY <1>1, TaskType
  <1>3. Loses(c)
    BY <1>1 DEF Loses, DeadlockVictim, Abandon, Goto, TypeOK
  <1>4. \A e \in Connections : task[e] = task[c] => e = c
    BY <1>1, <1>2, QueuedAssumption DEF TaskOK
  <1>5. {e \in Connections : task[e] = task[c] /\ Loses(e)} = {c}
    BY <1>3, <1>4
  <1>6. Overtaken(task[c]) = {<<task[d], at[d]>> : d \in Overtaking(c)}
    BY <1>5 DEF Overtaken
  <1> QED BY <1>2, <1>6 DEF HistoryNext

\* A deadlock that c loses while it is retried gives a row to one on its first try.
LEMMA SomeoneOvertakes ==
    ASSUME IInv, LoopOK, Connections = Async, NEW c \in Connections, DeadlockVictim(c),
           tries[c] > 0
    PROVE  Overtaking(c) # {}
  <1>1. TypeOK /\ LockOK /\ ServerTypeOK
    BY DEF IInv, HoldInv, TypeOK
  <1>2. Deadlocked(c) /\ Unlock(c)
    BY DEF DeadlockVictim, ServerRollback, End
  <1>3. PICK e \in Connections : wants[e] # NoRow /\ owner[wants[e]] = c
    BY <1>2 DEF Deadlocked
  <1> DEFINE r == wants[e]
  <1>4. r \in Rows /\ e # c /\ owner[r] = c
    BY <1>1, <1>3 DEF LockOK, ServerTypeOK
  <1>5. e \in Waiters(r) \ {c}
    BY <1>4 DEF Waiters
  <1>6. PICK f \in Connections \ {c} : wants[f] = r /\ owner'[r] = f
    BY <1>1, <1>2, <1>4, <1>5, UnlockGrants
  <1>7. tries[f] = 0
    BY OneRetries DEF LoopOK, LoopAt
  <1> QED BY <1>3, <1>4, <1>6, <1>7 DEF Overtaking

\* A statement that overtakes was not past, and is.
LEMMA OvertakerPasses ==
    ASSUME IInv, NEW c \in Connections, DeadlockVictim(c), NEW f \in Overtaking(c)
    PROVE  \E u \in Transactions \ {task[c]} : \E k \in DOMAIN Statements[u] :
              u = task[f] /\ k = at[f] /\ ~Passed(u, k) /\ Passed(u, k)'
  <1>1. TypeOK /\ TaskOK /\ LockOK /\ ServerTypeOK
    BY DEF IInv, HoldInv, TypeOK
  <1>2. pc[c] = "run" /\ UNCHANGED <<task, at, outcome>>
        /\ \A d \in Connections \ {c} : pc'[d] = pc[d]
    BY <1>1 DEF DeadlockVictim, Abandon, Goto, Doing, TypeOK
  <1>3. /\ f \in Connections /\ wants[f] # NoRow
        /\ owner[wants[f]] = c /\ owner'[wants[f]] = f
    BY DEF Overtaking
  <1>4. f # c /\ pc[f] = "run" /\ wants[f] = Statements[task[f]][at[f]]
    BY <1>1, <1>3 DEF LockOK
  <1>5. /\ task[f] \in Transactions /\ at[f] \in DOMAIN Statements[task[f]] /\ at[f] \in Nat
        /\ task[f] # task[c] /\ outcome[task[f]] = "running"
    BY <1>1, <1>2, <1>3, <1>4, TaskType DEF TaskOK, TypeOK
  <1>6. PICK u \in Transactions, k \in DOMAIN Statements[task[f]] : u = task[f] /\ k = at[f]
    BY <1>5
  <1>7. ~Passed(u, k)
    <2>1. \A d \in Connections : task[d] = u => d = f
      BY <1>1, <1>3, <1>5, <1>6, QueuedAssumption DEF TaskOK
    <2>2. ~(k < at[f]) /\ owner[Statements[u][k]] # f
      BY <1>3, <1>4, <1>5, <1>6
    <2> QED BY <1>4, <1>5, <1>6, <2>1, <2>2 DEF Passed
  <1>8. Passed(u, k)'
    <2>1. pc'[f] = "run" /\ owner'[Statements[u][k]] = f
      BY <1>2, <1>3, <1>4, <1>6
    <2>2. task'[f] = u /\ at'[f] = k
      BY <1>2, <1>6
    <2> QED BY <1>3, <2>1, <2>2 DEF Passed
  <1> QED BY <1>5, <1>6, <1>7, <1>8

\* So the history of who loses a deadlock in the loop gets longer, by statements of other
\* transactions that are past.
LEMMA OutrunCount ==
    ASSUME IInv, LoopOK, OutrunOK, HistoryNext, Connections = Async,
           NEW c \in Connections, DeadlockVictim(c), tries[c] > 0,
           NEW t \in Transactions, t = task[c]
    PROVE  /\ IsFiniteSet(outrun'[t])
           /\ \A s \in outrun'[t] : s \in outrun[t]
                 \/ /\ s[1] \in Transactions \ {t} /\ s[2] \in DOMAIN Statements[s[1]]
                    /\ Passed(s[1], s[2])'
           /\ Cardinality(outrun[t]) + 1 <= Cardinality(outrun'[t])
  <1> DEFINE New == {<<task[d], at[d]>> : d \in Overtaking(c)}
  <1>1. outrun'[t] = outrun[t] \cup New
    BY OutrunGrows
  <1>2. IsFiniteSet(outrun[t]) /\ IsFiniteSet(New)
    <2>1. IsFiniteSet(Overtaking(c))
      BY ConnectionsAssumption, FS_Subset DEF Overtaking
    <2>2. IsFiniteSet(New)
      <3> DEFINE f == [d \in Overtaking(c) |-> <<task[d], at[d]>>]
      <3>1. f \in Surjection(Overtaking(c), New)
        BY DEF Surjection
      <3> QED BY <2>1, <3>1, FS_Surjection
    <2> QED BY <2>2 DEF OutrunOK
  <1>3. IsFiniteSet(outrun'[t])
    <2>1. IsFiniteSet(outrun[t] \cup New)
      BY <1>2, FS_Union
    <2> QED BY <1>1, <2>1
  <1>4. ASSUME NEW s \in New
        PROVE  /\ s[1] \in Transactions \ {t} /\ s[2] \in DOMAIN Statements[s[1]]
               /\ ~Passed(s[1], s[2]) /\ Passed(s[1], s[2])'
    <2>1. PICK f \in Overtaking(c) : s = <<task[f], at[f]>>
      BY <1>4
    <2>2. PICK u \in Transactions \ {task[c]} : \E k \in DOMAIN Statements[u] :
             u = task[f] /\ k = at[f] /\ ~Passed(u, k) /\ Passed(u, k)'
      BY OvertakerPasses
    <2>3. PICK k \in DOMAIN Statements[u] :
             u = task[f] /\ k = at[f] /\ ~Passed(u, k) /\ Passed(u, k)'
      BY <2>2
    <2>4. s[1] = u /\ s[2] = k
      BY <2>1, <2>3
    <2> QED BY <2>3, <2>4
  <1>5. outrun[t] \subseteq outrun'[t] /\ outrun[t] # outrun'[t]
    <2>1. PICK f \in Overtaking(c) : TRUE
      BY SomeoneOvertakes
    <2>2. PICK s \in New : TRUE
      BY <2>1
    <2>3. \A v \in outrun[t] : Passed(v[1], v[2])
      BY DEF LoopOK, LoopAt
    <2> QED BY <1>1, <1>4, <2>2, <2>3
  <1>6. /\ IsFiniteSet(outrun[t]) /\ Cardinality(outrun[t]) <= Cardinality(outrun'[t])
        /\ Cardinality(outrun[t]) # Cardinality(outrun'[t])
    BY <1>3, <1>5, FS_Subset
  <1>7. Cardinality(outrun[t]) + 1 <= Cardinality(outrun'[t])
    BY <1>3, <1>6, FS_CardinalityType
  <1> QED BY <1>1, <1>3, <1>4, <1>7

\* The history stays finite, and only of transactions that have been begun.
LEMMA OutrunStep ==
    ASSUME IInv, ReportOK, alive => LoopOK, OutrunOK, [HistoryNext]_contentionVars,
           MaxLosses = 0, Connections = Async
    PROVE  OutrunOK'
  <1>1. TypeOK /\ TaskOK
    BY DEF IInv, HoldInv
  <1>2. CASE UNCHANGED contentionVars
    BY <1>2 DEF contentionVars, vars, OutrunOK
  <1>3. CASE HistoryNext /\ (Abort \/ UNCHANGED vars)
    <2>1. \A c \in Connections : ~Loses(c)
      BY <1>3 DEF Abort, vars, connVars, Loses
    <2>2. \A t \in Transactions : outrun'[t] = outrun[t]
      BY <1>3, <2>1 DEF HistoryNext, Overtaken
    <2>3. UNCHANGED outcome
      BY <1>3 DEF Abort, vars
    <2> QED BY <2>2, <2>3 DEF OutrunOK
  <1>4. ASSUME HistoryNext, NEW c \in Connections, Acts(c)
        PROVE  OutrunOK'
    <2> SUFFICES ASSUME NEW t \in Transactions
                 PROVE  /\ IsFiniteSet(outrun'[t])
                        /\ \A s \in outrun'[t] :
                              s[1] \in Transactions \ {t} /\ s[2] \in DOMAIN Statements[s[1]]
                        /\ outcome'[t] = "pending" => outrun'[t] = {}
      BY DEF OutrunOK
    <2>1. CASE DeadlockVictim(c) /\ task[c] = t /\ tries[c] > 0
      <3>1. alive /\ outcome[t] = "running" /\ UNCHANGED outcome
        BY <1>1, <2>1 DEF DeadlockVictim, Abandon, Doing, TaskOK
      <3>2. /\ IsFiniteSet(outrun'[t])
            /\ \A s \in outrun'[t] : s \in outrun[t]
                  \/ (s[1] \in Transactions \ {t} /\ s[2] \in DOMAIN Statements[s[1]])
        BY <1>4, <2>1, <3>1, OutrunCount
      <3> QED BY <3>1, <3>2 DEF OutrunOK
    <2>2. CASE ~(DeadlockVictim(c) /\ task[c] = t /\ tries[c] > 0)
      <3>1. outrun'[t] = outrun[t]
        BY <1>4, <2>2, OutrunKept
      <3>2. outcome'[t] = "pending" => outcome[t] = "pending"
        BY <1>1, <1>4
        DEF Acts, Start, BeginTransaction, StatementWaits, ExecuteStatement, StatementRejected,
            DeadlockVictim, RollbackTransaction, CommitTransaction, Succeed, Retry, GiveUp, Return,
            Abandon, TypeOK
      <3> QED BY <3>1, <3>2 DEF OutrunOK
    <2> QED BY <2>1, <2>2
  <1>5. CASE HistoryNext
    <2>1. [Next]_vars
      BY <1>5 DEF HistoryNext
    <2> QED BY <1>3, <1>4, <1>5, <2>1, CalmSteps
  <1> QED BY <1>2, <1>5

\* The count is kept while the process lives.
LEMMA LoopStep ==
    ASSUME IInv, ReportOK, alive => LoopOK, OutrunOK, [HistoryNext]_contentionVars,
           MaxLosses = 0, Connections = Async
    PROVE  (alive => LoopOK)'
  <1>1. TypeOK /\ TaskOK
    BY DEF IInv, HoldInv
  <1>2. CASE UNCHANGED contentionVars
    BY <1>2 DEF contentionVars, vars, connVars, serverVars, lockVars, LoopOK, LoopAt, Passed, Beaten
  <1>3. CASE HistoryNext /\ (Abort \/ UNCHANGED vars)
    <2>1. CASE Abort
      BY <2>1 DEF Abort
    <2>2. CASE UNCHANGED vars /\ alive
      <3> SUFFICES ASSUME NEW c \in Connections PROVE LoopAt(c)'
        BY DEF LoopOK
      <3>1. LoopAt(c)
        BY <2>2 DEF LoopOK
      <3>2. \A e \in Connections : ~Loses(e)
        BY <2>2 DEF vars, connVars, Loses
      <3>3. pc[c] # "idle" => outrun'[task[c]] = outrun[task[c]]
        BY <1>1, <1>3, <3>2, TaskType DEF HistoryNext, Overtaken
      <3>4. tries[c] > 0 => pc[c] # "idle"
        BY <1>1, <3>1 DEF LoopAt, TaskOK
      <3> QED BY <2>2, <3>1, <3>3, <3>4
              DEF vars, connVars, serverVars, lockVars, LoopAt, Passed, Beaten
    <2>3. CASE UNCHANGED vars /\ ~alive
      BY <2>3 DEF vars
    <2> QED BY <1>3, <2>1, <2>2, <2>3
  <1>4. ASSUME HistoryNext, NEW c \in Connections, Acts(c)
        PROVE  LoopOK'
    <2>1. alive /\ LoopOK
      BY <1>4 DEF Acts, Start, BeginTransaction, StatementWaits, ExecuteStatement,
         StatementRejected, DeadlockVictim, RollbackTransaction, CommitTransaction, Succeed, Retry,
         GiveUp, Doing
    <2>2. ASSUME NEW d \in Connections, d # c
          PROVE  LoopAt(d)'
      <3>1. /\ pc'[d] = pc[d] /\ task'[d] = task[d]
            /\ tries'[d] = tries[d] /\ errno'[d] = errno[d] /\ tries[d] \in Nat
        BY <1>1, <1>4, <2>2, OthersKept, LoopBreakerAssumption DEF TypeOK
      <3>2. LoopAt(d) /\ Beaten(d)' = Beaten(d)
        BY <2>1, <3>1 DEF LoopOK, Beaten
      <3>3. ASSUME pc[d] # "idle"
            PROVE  task[d] \in Transactions /\ outrun'[task[d]] = outrun[task[d]]
        <4>1. task[d] \in Transactions /\ task[c] # task[d]
          BY <1>1, <2>2, <3>3, TaskType DEF TaskOK
        <4> QED BY <1>4, <4>1, OutrunKept
      <3>4. CASE tries[d] > 0
        <4>1. deadlockLock = d /\ pc[d] # "idle"
          BY <1>1, <3>2, <3>4 DEF LoopAt, TaskOK
        <4>2. deadlockLock' = d
          BY <1>4, <2>2, <4>1, ConnectionsAssumption
          DEF Acts, Start, BeginTransaction, StatementWaits, ExecuteStatement, StatementRejected,
              DeadlockVictim, RollbackTransaction, CommitTransaction, Succeed, Retry, GiveUp,
              Release, Abandon
        <4>3. ASSUME NEW s \in outrun[task[d]]
              PROVE  Passed(s[1], s[2])'
          <5>1. s[1] \in Transactions /\ s[2] \in DOMAIN Statements[s[1]] /\ Passed(s[1], s[2])
            BY <3>2, <3>3, <3>4, <4>1 DEF OutrunOK, LoopAt
          <5>2. ~Retry(c)
            BY <2>1, <2>2, <4>1, OneRetries
          <5> QED BY <1>4, <5>1, <5>2, PassedStays
        <4> QED BY <3>1, <3>2, <3>3, <3>4, <4>1, <4>2, <4>3 DEF LoopAt
      <3>5. CASE ~(tries[d] > 0)
        BY <3>1, <3>2, <3>3, <3>5 DEF LoopAt
      <3> QED BY <3>4, <3>5
    <2>3. LoopAt(c)'
      <3>1. LoopAt(c) /\ tries[c] \in Nat /\ (tries[c] > 0 => deadlockLock = c)
            /\ (pc[c] = "idle" => deadlockLock # c)
        BY <1>1, <2>1, LoopBreakerAssumption DEF LoopOK, LoopAt, TypeOK, TaskOK
      <3>2. ASSUME NEW t \in Transactions, Start(c, t)
            PROVE  LoopAt(c)'
        <4>1. /\ pc[c] = "idle" /\ outcome[t] = "pending" /\ task'[c] = t /\ tries'[c] = tries[c]
              /\ pc'[c] \in {"begin", "returned"} /\ (pc'[c] = "returned" => Refused(t))
          BY <1>1, <3>2 DEF Start, Enter, Goto, Doing, TypeOK, Refused
        <4>2. tries[c] = 0 /\ ~(tries[c] > 0) /\ tries'[c] = 0 /\ ~(tries'[c] > 0)
          BY <3>1, <4>1
        <4>3. outrun'[t] = outrun[t]
          BY <1>4, <4>2, OutrunKept
        <4>4. outrun[t] = {}
          BY <4>1 DEF OutrunOK
        <4> QED BY <4>1, <4>2, <4>3, <4>4 DEF LoopAt
      <3>3. CASE Succeed(c) \/ GiveUp(c)
        BY <1>1, <3>3 DEF Succeed, GiveUp, Return, Goto, TypeOK, LoopAt
      <3>4. ASSUME pc[c] # "idle"
            PROVE  task[c] \in Transactions /\ Cardinality(outrun[task[c]]) \in Nat
        BY <1>1, <3>4, TaskType, FS_CardinalityType DEF OutrunOK
      <3>5. CASE DeadlockVictim(c)
        <4>1. pc[c] = "run" /\ errno'[c] = "deadlock" /\ UNCHANGED <<task, tries, deadlockLock>>
          BY <1>1, <3>5 DEF DeadlockVictim, Abandon, Doing, TypeOK
        <4>2. PICK t \in Transactions : t = task[c]
          BY <3>4, <4>1
        <4>3. CASE tries[c] > 0
          <5>1. /\ IsFiniteSet(outrun'[t])
                /\ \A s \in outrun'[t] : s \in outrun[t] \/ Passed(s[1], s[2])'
                /\ Cardinality(outrun[t]) + 1 <= Cardinality(outrun'[t])
            BY <1>4, <2>1, <3>5, <4>2, <4>3, OutrunCount
          <5>2. \A s \in outrun[t] : Passed(s[1], s[2])'
            <6> SUFFICES ASSUME NEW s \in outrun[t] PROVE Passed(s[1], s[2])'
              OBVIOUS
            <6>1. s[1] \in Transactions /\ s[2] \in DOMAIN Statements[s[1]] /\ Passed(s[1], s[2])
              BY <3>1, <4>2, <4>3 DEF OutrunOK, LoopAt
            <6>2. ~Retry(c)
              BY <4>1 DEF Retry, Doing
            <6> QED BY <1>4, <6>1, <6>2, PassedStays
          <5>3. Cardinality(outrun'[t]) \in Nat /\ Cardinality(outrun[t]) \in Nat
            BY <3>4, <4>1, <4>2, <5>1, FS_CardinalityType
          <5>4. Refused(t) \/ tries[c] <= Cardinality(outrun'[t])
            BY <3>1, <4>2, <4>3, <5>1, <5>3 DEF LoopAt
          <5> QED BY <3>1, <4>1, <4>2, <4>3, <5>1, <5>2, <5>4 DEF LoopAt
        <4>4. CASE ~(tries[c] > 0)
          <5>1. outrun'[t] = outrun[t] /\ outrun[t] = {}
            BY <1>4, <3>1, <4>1, <4>2, <4>4, OutrunKept DEF LoopAt
          <5> QED BY <4>1, <4>2, <4>4, <5>1 DEF LoopAt
        <4> QED BY <4>3, <4>4
      <3>6. ASSUME ~DeadlockVictim(c), ~Retry(c), tries[c] > 0, pc[c] # "idle"
            PROVE  /\ outrun'[task[c]] = outrun[task[c]]
                   /\ \A s \in outrun[task[c]] : Passed(s[1], s[2])'
        <4>1. outrun'[task[c]] = outrun[task[c]]
          BY <1>4, <3>4, <3>6, OutrunKept
        <4>2. ASSUME NEW s \in outrun[task[c]]
              PROVE  Passed(s[1], s[2])'
          <5>1. s[1] \in Transactions /\ s[2] \in DOMAIN Statements[s[1]] /\ Passed(s[1], s[2])
            BY <3>1, <3>4, <3>6 DEF OutrunOK, LoopAt
          <5> QED BY <1>4, <3>6, <5>1, PassedStays
        <4> QED BY <4>1, <4>2
      <3>7. CASE \/ BeginTransaction(c) \/ StatementWaits(c) \/ ExecuteStatement(c)
                 \/ StatementRejected(c) \/ RollbackTransaction(c) \/ CommitTransaction(c)
        <4>1. /\ pc[c] # "idle" /\ UNCHANGED <<task, tries, deadlockLock>>
              /\ Beaten(c)' => Beaten(c)
              /\ ~DeadlockVictim(c) /\ ~Retry(c)
          <5>1. CASE StatementRejected(c)
            BY <1>1, <5>1 DEF StatementRejected, DeadlockVictim, Retry, Abandon, Goto, Doing,
                              TypeOK, Beaten
          <5>2. CASE ~StatementRejected(c)
            BY <1>1, <3>7, <5>2
            DEF BeginTransaction, StatementWaits, ExecuteStatement, RollbackTransaction,
                CommitTransaction, DeadlockVictim, Retry, Abandon, Goto, Doing, connVars, TypeOK,
                Beaten
          <5> QED BY <5>1, <5>2
        <4>2. pc'[c] \in {"rollback", "returned"} /\ errno'[c] = "other" => Refused(task'[c])
          <5>1. CASE StatementRejected(c)
            <6>1. task'[c] = task[c] /\ <<task[c], at[c]>> \in Rejected
                  /\ at[c] \in DOMAIN Statements[task[c]]
              BY <1>1, <5>1, TaskType DEF StatementRejected, Abandon, Doing
            <6> QED BY <6>1 DEF Refused
          <5>2. CASE ~StatementRejected(c)
            BY <1>1, <3>1, <3>7, <4>1, <5>2
            DEF BeginTransaction, StatementWaits, ExecuteStatement, RollbackTransaction,
                CommitTransaction, Goto, Doing, connVars, TypeOK, LoopAt
          <5> QED BY <5>1, <5>2
        <4>3. outrun'[task[c]] = outrun[task[c]]
          BY <1>4, <3>4, <4>1, OutrunKept
        <4> QED BY <3>1, <3>6, <4>1, <4>2, <4>3 DEF LoopAt
      <3>8. CASE Retry(c)
        <4>1. /\ pc[c] = "returned" /\ errno[c] # "none" /\ UNCHANGED task
              /\ tries'[c] = tries[c] + 1 /\ deadlockLock' = c
              /\ tries[c] = 0 => errno[c] = "deadlock"
          BY <1>1, <3>1, <3>8 DEF Retry, Doing, TypeOK
        <4>2. Refused(task[c]) \/ (pc'[c] = "begin" /\ ~Beaten(c)')
          BY <1>1, <3>8 DEF Retry, Enter, Goto, Refused, TypeOK, Beaten
        <4>3. outrun'[task[c]] = outrun[task[c]] /\ Cardinality(outrun[task[c]]) \in Nat
          <5>1. ~DeadlockVictim(c)
            BY <4>1 DEF DeadlockVictim, Doing
          <5> QED BY <1>4, <3>4, <4>1, <5>1, OutrunKept
        <4>4. \A s \in outrun[task[c]] : Passed(s[1], s[2])'
          <5>1. CASE tries[c] = 0
            BY <3>1, <4>1, <5>1 DEF LoopAt
          <5>2. CASE tries[c] > 0
            <6> SUFFICES ASSUME NEW s \in outrun[task[c]] PROVE Passed(s[1], s[2])'
              OBVIOUS
            <6>1. /\ s[1] \in Transactions /\ s[2] \in DOMAIN Statements[s[1]]
                  /\ s[1] # task[c] /\ Passed(s[1], s[2])
              BY <3>1, <3>4, <4>1, <5>2 DEF OutrunOK, LoopAt
            <6> QED BY <1>4, <6>1, PassedStays
          <5> QED BY <3>1, <5>1, <5>2
        <4>5. Refused(task[c]) \/ tries[c] <= Cardinality(outrun[task[c]])
          <5>1. CASE tries[c] = 0
            BY <4>3, <5>1
          <5>2. CASE errno[c] = "other"
            BY <3>1, <4>1, <5>2 DEF LoopAt
          <5>3. CASE tries[c] > 0 /\ errno[c] = "deadlock"
            BY <3>1, <4>1, <5>3 DEF LoopAt, Beaten
          <5> QED BY <1>1, <3>1, <4>1, <5>1, <5>2, <5>3 DEF TypeOK, Errors
        <4>6. pc'[c] \in {"rollback", "returned"} => Refused(task[c])
          BY <4>2
        <4>7. tries'[c] - 1 = tries[c] /\ tries'[c] > 0 /\ tries'[c] # 0 /\ task'[c] = task[c]
          BY <3>1, <4>1
        <4> QED BY <4>1, <4>2, <4>3, <4>4, <4>5, <4>6, <4>7 DEF LoopAt
      <3> QED BY <1>4, <3>2, <3>3, <3>5, <3>7, <3>8 DEF Acts
    <2> QED BY <2>2, <2>3 DEF LoopOK
  <1>5. CASE HistoryNext
    <2>1. [Next]_vars
      BY <1>5 DEF HistoryNext
    <2> QED BY <1>3, <1>4, <1>5, <2>1, CalmSteps
  <1> QED BY <1>2, <1>5

\* A transaction that is given up holds a statement the server refuses, or none, or has been
\* outrun as often as it was retried.
LEMMA GivenUp ==
    ASSUME IInv, LoopOK, OutrunOK, NEW c \in Connections, GiveUp(c)
    PROVE  Refused(task[c]) \/ Cardinality(outrun[task[c]]) >= LoopBreaker
  <1>1. /\ pc[c] = "returned" /\ TypeOK /\ TaskOK /\ LoopAt(c)
        /\ \/ tries[c] = 0 /\ errno[c] = "other"
           \/ tries[c] = LoopBreaker /\ errno[c] # "none"
    BY DEF GiveUp, Doing, IInv, HoldInv, LoopOK
  <1>2. CASE errno[c] = "other"
    BY <1>1, <1>2 DEF LoopAt
  <1>3. CASE tries[c] = LoopBreaker /\ errno[c] = "deadlock"
    <2>1. tries[c] > 0 /\ Beaten(c) /\ task[c] \in Transactions
      BY <1>1, <1>3, LoopBreakerAssumption, TaskType DEF Beaten
    <2>2. Cardinality(outrun[task[c]]) \in Nat
      BY <2>1, FS_CardinalityType DEF OutrunOK
    <2> QED BY <1>1, <1>3, <2>1, <2>2, LoopBreakerAssumption DEF LoopAt
  <1> QED BY <1>1, <1>2, <1>3 DEF TypeOK, Errors

\* What has been dropped stays outrun: the history of a transaction that has ended is closed.
LEMMA EndedKept ==
    ASSUME IInv, ReportOK, [HistoryNext]_contentionVars, MaxLosses = 0,
           NEW t \in Transactions, outcome[t] = "failed"
    PROVE  outrun'[t] = outrun[t]
  <1>1. TypeOK /\ TaskOK
    BY DEF IInv, HoldInv
  <1>2. \A c \in Connections : task[c] = t => ~Loses(c)
    BY <1>1 DEF Loses, TaskOK
  <1>3. CASE HistoryNext
    BY <1>2, <1>3 DEF HistoryNext, Overtaken
  <1>4. CASE UNCHANGED contentionVars
    BY <1>4 DEF contentionVars
  <1> QED BY <1>3, <1>4

\* Among worker threads that lose no connection, a transaction without a refused statement is
\* dropped only when as many different statements as it has retries have outrun it: whatever
\* the transactions, the rows they write and the server's choice of victims.
THEOREM DropsAreOutrun ==
    ASSUME MaxLosses = 0, Connections = Async
    PROVE  HistorySpec => []DroppedOnlyIfOutrun
  <1> DEFINE DInv == IInv /\ ReportOK /\ OutrunOK /\ (alive => LoopOK) /\ DroppedOnlyIfOutrun
  <1>1. HistoryInit => DInv
    <2> SUFFICES ASSUME HistoryInit PROVE DInv
      OBVIOUS
    <2>1. Init /\ outrun = [t \in Transactions |-> {}]
      BY DEF HistoryInit
    <2>2. IInv /\ ReportOK /\ DroppedOnlyIfOutrun
      BY <2>1, InitInvariant DEF Init, ReportOK, DoneMeansDurable, DroppedOnlyIfOutrun
    <2>3. OutrunOK
      BY <2>1, FS_EmptySet DEF OutrunOK
    <2>4. LoopOK
      BY <2>1 DEF Init, LoopOK, LoopAt
    <2> QED BY <2>2, <2>3, <2>4
  <1>2. DInv /\ [HistoryNext]_contentionVars => DInv'
    <2> SUFFICES ASSUME DInv, [HistoryNext]_contentionVars PROVE DInv'
      OBVIOUS
    <2>1. [Next]_vars
      BY DEF HistoryNext, contentionVars
    <2>2. (IInv /\ ReportOK)' /\ OutrunOK' /\ (alive => LoopOK)'
      BY <2>1, ReportStep, OutrunStep, LoopStep
    <2>3. ASSUME NEW t \in Transactions, outcome'[t] = "failed"
          PROVE  Refused(t) \/ Cardinality(outrun'[t]) >= LoopBreaker
      <3>1. CASE outcome[t] = "failed"
        BY <3>1, EndedKept DEF DroppedOnlyIfOutrun, Refused
      <3>2. CASE outcome[t] # "failed"
        <4>1. PICK c \in Connections : Acts(c)
          BY <2>1, <2>3, <3>2, CalmSteps DEF Abort, vars
        <4>2. outcome \in [Transactions -> {"pending", "running", "ok", "failed"}]
          BY DEF IInv, HoldInv, TypeOK
        <4>3. GiveUp(c) \/ Succeed(c) \/ (\E u \in Transactions : Start(c, u)) \/ UNCHANGED outcome
          BY <4>1 DEF Acts, BeginTransaction, StatementWaits, ExecuteStatement, StatementRejected,
             DeadlockVictim, RollbackTransaction, CommitTransaction, Retry, Abandon
        <4>4. ~Succeed(c) /\ ~\E u \in Transactions : Start(c, u)
          BY <2>3, <3>2, <4>2 DEF Succeed, Start, Return
        <4>5. GiveUp(c) /\ t = task[c]
          BY <2>3, <3>2, <4>2, <4>3, <4>4 DEF GiveUp, Return
        <4>6. Refused(t) \/ Cardinality(outrun[t]) >= LoopBreaker
          BY <4>5, GivenUp DEF GiveUp, Doing
        <4>7. outrun'[t] = outrun[t]
          <5>1. HistoryNext /\ ~DeadlockVictim(c)
            BY <2>3, <3>2, <4>5 DEF contentionVars, vars, GiveUp, DeadlockVictim, Doing
          <5> QED BY <4>1, <5>1, OutrunKept
        <4> QED BY <4>6, <4>7
      <3> QED BY <3>1, <3>2
    <2>4. DroppedOnlyIfOutrun'
      BY <2>3 DEF DroppedOnlyIfOutrun, Refused
    <2> QED BY <2>2, <2>4
  <1>3. DInv => DroppedOnlyIfOutrun
    OBVIOUS
  <1> QED BY <1>1, <1>2, <1>3, PTL DEF HistorySpec

=============================================================================

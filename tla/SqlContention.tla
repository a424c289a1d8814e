---------------------------- MODULE SqlContention ----------------------------
(***************************************************************************)
(* SqlTransaction with a history of the deadlocks its retries lose, to say *)
(* when a transaction is dropped for contention: TransactionTask::Execute  *)
(* gives up after loopBreaker retries, and _deadlockLock stops only other  *)
(* retries, never a transaction that is executed for the first time.       *)
(***************************************************************************)
EXTENDS SqlTransaction

VARIABLE outrun  \* history: per transaction, the statements, as pairs <<t, k>>, that
                 \* were given a row it had when it lost a deadlock while retried

contentionVars == <<vars, outrun>>

\* This step the transaction of c loses a deadlock in the retry loop.
Loses(c) ==
    /\ pc[c] = "run" /\ tries[c] > 0
    /\ pc'[c] = "rollback" /\ errno'[c] = "deadlock"

\* Connections on their first try, which this step gives a row that c has locked.
Overtaking(c) ==
    {d \in Connections :
        /\ wants[d] # NoRow
        /\ tries[d] = 0
        /\ owner[wants[d]] = c
        /\ owner'[wants[d]] = d}

\* What the history of t records of this step.
Overtaken(t) ==
    UNION {{<<task[d], at[d]>> : d \in Overtaking(c)} :
              c \in {e \in Connections : task[e] = t /\ Loses(e)}}

HistoryInit == Init /\ outrun = [t \in Transactions |-> {}]

HistoryNext == Next /\ outrun' = [t \in Transactions |-> outrun[t] \cup Overtaken(t)]

HistorySpec == HistoryInit /\ [][HistoryNext]_contentionVars

-----------------------------------------------------------------------------
\* Among worker threads a transaction that holds no refused statement is dropped only
\* when as many different statements as it has retries, all of transactions on their
\* first try, took a row from it in those retries.  Two transactions that are retried
\* never beat each other, and no statement beats a retried transaction twice.
DroppedOnlyIfOutrun ==
    \A t \in Transactions : outcome[t] = "failed" =>
        \/ Statements[t] = <<>>
        \/ \E k \in DOMAIN Statements[t] : <<t, k>> \in Rejected
        \/ Cardinality(outrun[t]) >= LoopBreaker

=============================================================================

----------------------------- MODULE MySQLServer -----------------------------
(***************************************************************************)
(* The database server, as server/database/Database relies on it: one      *)
(* session per connection, transactions with exclusive row locks held to   *)
(* the end, autocommit outside a transaction, and a deadlock broken by     *)
(* rolling one of its transactions back.  External: nothing of it is in    *)
(* the repository.                                                         *)
(*                                                                         *)
(* The effect of the k-th statement of transaction t is the number k in    *)
(* the sequence of t.                                                      *)
(***************************************************************************)
EXTENDS Naturals, Sequences, FiniteSets

CONSTANTS
    Connections,
    Transactions,
    Rows,
    Statements,   \* Statements[t][k] is the row the k-th statement of t writes
    NoConnection,
    NoRow

ASSUME ConnectionsAssumption == IsFiniteSet(Connections) /\ NoConnection \notin Connections
ASSUME StatementsAssumption == Statements \in [Transactions -> Seq(Rows)] /\ NoRow \notin Rows

VARIABLES
    durable,   \* [Transactions -> Seq(Nat)]: effects that survive
    written,   \* per connection, effects of its open transaction
    open,      \* whether the connection's session has an open transaction
    owner,     \* per row, the connection that has it locked
    wants      \* per connection, the row its request waits for

lockVars == <<owner, wants>>
serverVars == <<durable, written, open, lockVars>>

Nothing == [t \in Transactions |-> <<>>]

ServerTypeOK ==
    /\ durable \in [Transactions -> Seq(Nat)]
    /\ written \in [Connections -> [Transactions -> Seq(Nat)]]
    /\ open \in [Connections -> BOOLEAN]
    /\ owner \in [Rows -> Connections \cup {NoConnection}]
    /\ wants \in [Connections -> Rows \cup {NoRow}]

ServerInit ==
    /\ durable = Nothing
    /\ written = [c \in Connections |-> Nothing]
    /\ open = [c \in Connections |-> FALSE]
    /\ owner = [r \in Rows |-> NoConnection]
    /\ wants = [c \in Connections |-> NoRow]

Available(c, row) == owner[row] \in {c, NoConnection}

Waiters(row) == {d \in Connections : wants[d] = row}

\* The locks of c are released, and each goes at once to one that waits for it.
Unlock(c) ==
    \E next \in [Rows -> Connections \cup {NoConnection}] :
        /\ \A r \in Rows :
              IF owner[r] # c THEN next[r] = owner[r]
              ELSE \/ next[r] \in Waiters(r) \ {c}
                   \/ Waiters(r) \ {c} = {} /\ next[r] = NoConnection
        /\ owner' = next
        /\ wants' = [d \in Connections |->
                        IF d = c \/ \E r \in Rows : wants[d] = r /\ next[r] = d
                          THEN NoRow ELSE wants[d]]

\* What durable becomes when the open transaction of c commits.
Committed(c) == [t \in Transactions |-> durable[t] \o written[c][t]]

End(c) ==
    /\ open' = [open EXCEPT ![c] = FALSE]
    /\ written' = [written EXCEPT ![c] = Nothing]
    /\ Unlock(c)

ServerRollback(c) == End(c) /\ UNCHANGED durable

ServerCommit(c) == End(c) /\ durable' = Committed(c)

\* START TRANSACTION commits a transaction that is still open.
ServerStart(c) ==
    /\ durable' = Committed(c)
    /\ written' = [written EXCEPT ![c] = Nothing]
    /\ open' = [open EXCEPT ![c] = TRUE]
    /\ Unlock(c)

\* A request whose row another transaction has locked waits.
ServerWait(c, row) ==
    /\ wants[c] = NoRow
    /\ ~Available(c, row)
    /\ wants' = [wants EXCEPT ![c] = row]
    /\ UNCHANGED <<durable, written, open, owner>>

\* A statement locks its row until its transaction ends; without an open transaction
\* it commits alone.
ServerWrite(c, t, k) ==
    /\ Available(c, Statements[t][k])
    /\ IF open[c]
         THEN /\ written' = [written EXCEPT ![c][t] = Append(@, k)]
              /\ owner' = [owner EXCEPT ![Statements[t][k]] = c]
              /\ UNCHANGED <<durable, wants>>
         ELSE /\ durable' = [durable EXCEPT ![t] = Append(@, k)]
              /\ Unlock(c)
              /\ UNCHANGED written
    /\ UNCHANGED open

\* Each member waits for another one: the transactions of a cycle.
Deadlocked(c) ==
    \E S \in SUBSET Connections :
        /\ c \in S
        /\ \A d \in S : wants[d] # NoRow /\ owner[wants[d]] \in S
        /\ \A d \in S : \E e \in S : owner[wants[e]] = d

\* Every session of the process ends and is rolled back.
ServerDropAll ==
    /\ written' = [c \in Connections |-> Nothing]
    /\ open' = [c \in Connections |-> FALSE]
    /\ owner' = [r \in Rows |-> NoConnection]
    /\ wants' = [c \in Connections |-> NoRow]
    /\ UNCHANGED durable

=============================================================================

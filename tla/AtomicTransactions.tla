-------------------------- MODULE AtomicTransactions --------------------------
(***************************************************************************)
(* What the callers of CommitTransaction, AsyncCommitTransaction and       *)
(* DirectCommitTransaction count on: a transaction takes effect once, as a *)
(* whole and in the order of its statements, or not at all, and they are   *)
(* told which.  A crash only cuts a behaviour short.                       *)
(***************************************************************************)
EXTENDS Naturals, Sequences

CONSTANTS
    Transactions,
    Whole         \* Whole[t]: all effects of t, in order

VARIABLES
    durable,   \* effects that survive
    outcome    \* "pending", "running", "ok", "failed"

vars == <<durable, outcome>>

Init ==
    /\ durable = [t \in Transactions |-> <<>>]
    /\ outcome = [t \in Transactions |-> "pending"]

Start(t) ==
    /\ outcome[t] = "pending"
    /\ outcome' = [outcome EXCEPT ![t] = "running"]
    /\ UNCHANGED durable

Commit(t) ==
    /\ outcome[t] = "running"
    /\ durable[t] = <<>>
    /\ durable' = [durable EXCEPT ![t] = Whole[t]]
    /\ UNCHANGED outcome

Report(t) ==
    /\ outcome[t] = "running"
    /\ \/ durable[t] = Whole[t] /\ outcome' = [outcome EXCEPT ![t] = "ok"]
       \/ durable[t] = <<>> /\ outcome' = [outcome EXCEPT ![t] = "failed"]
    /\ UNCHANGED durable

Next == \E t \in Transactions : Start(t) \/ Commit(t) \/ Report(t)

Spec == Init /\ [][Next]_vars

=============================================================================

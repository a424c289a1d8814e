------------------------------ MODULE WorkQueue ------------------------------
(***************************************************************************)
(* What the callers of ProducerConsumerQueue rely on, without locks or     *)
(* condition variables: a first-in first-out queue from which a consumer   *)
(* that asks gets the oldest item, or nothing once the queue is closed.    *)
(***************************************************************************)
EXTENDS Naturals, Sequences

CONSTANTS Consumers, Items, NoItem, Capacity

VARIABLES
    queue,    \* items pushed and not yet handed over
    closed,   \* no item is handed over any more
    asking,   \* consumers waiting for an answer
    answer    \* the last answer each consumer got

vars == <<queue, closed, asking, answer>>

Init ==
    /\ queue = <<>>
    /\ closed = FALSE
    /\ asking = {}
    /\ answer = [c \in Consumers |-> NoItem]

Put(item) ==
    /\ Len(queue) < Capacity
    /\ queue' = Append(queue, item)
    /\ UNCHANGED <<closed, asking, answer>>

Ask(c) ==
    /\ c \notin asking
    /\ asking' = asking \cup {c}
    /\ answer' = [answer EXCEPT ![c] = NoItem]
    /\ UNCHANGED <<queue, closed>>

Hand(c) ==
    /\ c \in asking
    /\ ~closed
    /\ queue # <<>>
    /\ answer' = [answer EXCEPT ![c] = Head(queue)]
    /\ queue' = Tail(queue)
    /\ asking' = asking \ {c}
    /\ UNCHANGED closed

\* A consumer that does not wait takes the oldest item, if there is one.
Poll(c) ==
    /\ c \notin asking
    /\ ~closed
    /\ queue # <<>>
    /\ answer' = [answer EXCEPT ![c] = Head(queue)]
    /\ queue' = Tail(queue)
    /\ UNCHANGED <<closed, asking>>

TurnAway(c) ==
    /\ c \in asking
    /\ closed
    /\ asking' = asking \ {c}
    /\ UNCHANGED <<queue, closed, answer>>

Close ==
    /\ queue' = <<>>
    /\ closed' = TRUE
    /\ UNCHANGED <<asking, answer>>

Next ==
    \/ \E i \in Items : Put(i)
    \/ \E c \in Consumers : Ask(c) \/ Hand(c) \/ Poll(c) \/ TurnAway(c)
    \/ Close

\* An item never waits for ever beside consumers that ask (which of them gets it
\* is not promised), and a closed queue turns every consumer away.
Fairness ==
    /\ WF_vars(\E c \in Consumers : Hand(c))
    /\ \A c \in Consumers : WF_vars(TurnAway(c))

Spec == Init /\ [][Next]_vars /\ Fairness

=============================================================================

---------------------- MODULE ProducerConsumerQueueSpec ----------------------
(***************************************************************************)
(* ProducerConsumerQueue on its own, under callers that may push, cancel   *)
(* and consume in any order, and what they are promised.                   *)
(***************************************************************************)
EXTENDS ProducerConsumerQueue

CONSTANT Capacity   \* bound of the model on the queue's length

ASSUME CapacityAssumption == Capacity \in Nat

Produce == \E i \in Items : Len(queue) < Capacity /\ Push(i)

Next ==
    \/ Produce
    \/ \E c \in Consumers : Call(c) \/ WaitAndPop(c) \/ Pop(c) \/ SpuriousWakeup(c)
    \/ Cancel

\* A thread that wants a mutex nobody holds for ever gets it in the end.
Fairness == \A c \in Consumers : WF_queueVars(WaitAndPop(c))

Spec == Init /\ [][Next]_queueVars /\ Fairness

-----------------------------------------------------------------------------
\* No wakeup is lost: while somebody sleeps, there are at least as many threads
\* on their way to the queue as there are items in it.  It is what makes one
\* notify_one per Push enough although a notified thread may find that another
\* one, just arriving, has taken its item.
NoLostWakeup ==
    At("wait") # {} => Len(queue) <= Cardinality(At("loop"))

\* Nobody sleeps on a queue that has been shut down: Cancel's notify_all reaches
\* every sleeper and the loop condition keeps later callers from going to sleep.
ShutdownWakesAll == shutdown => At("wait") = {}

\* WaitAndPop, Push, Pop and Cancel together behave as a first-in first-out
\* queue that hands each item to one consumer and strands neither items nor
\* consumers.
Abstract == INSTANCE WorkQueue WITH
    closed <- shutdown,
    asking <- Consumers \ At("out"),
    answer <- value

ImplementsWorkQueue == Abstract!Spec

=============================================================================

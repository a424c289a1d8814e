--------------------- MODULE ProducerConsumerQueueProofs ---------------------
(***************************************************************************)
(* Proofs about ProducerConsumerQueueSpec, for any finite set of           *)
(* consumers, any set of items and any capacity.                           *)
(***************************************************************************)
EXTENDS ProducerConsumerQueueSpec, FiniteSetTheorems, TLAPS

IInv == TypeOK /\ ShutdownWakesAll /\ NoLostWakeup

\* The places a consumer can be in: what a step that moves c to `place` does to
\* the sets NoLostWakeup counts.
LEMMA MoveOne ==
    ASSUME NEW c \in Consumers, NEW place \in Places, TypeOK,
           where' = [where EXCEPT ![c] = place]
    PROVE  /\ At("wait")' = IF place = "wait" THEN At("wait") \cup {c} ELSE At("wait") \ {c}
           /\ At("loop")' = IF place = "loop" THEN At("loop") \cup {c} ELSE At("loop") \ {c}
BY DEF At, TypeOK, Places

\* One sleeper wakes: it moves from one set to the other.
LEMMA WakeOne ==
    ASSUME NEW c \in At("wait"), TypeOK, Wake({c})
    PROVE  /\ where' \in [Consumers -> Places]
           /\ At("wait")' = At("wait") \ {c}
           /\ At("loop")' = At("loop") \cup {c}
BY DEF At, TypeOK, Places, Wake

\* All sleepers wake: nobody sleeps any more.
LEMMA WakeAll ==
    ASSUME TypeOK, Wake(At("wait"))
    PROVE  /\ where' \in [Consumers -> Places]
           /\ At("wait")' = {}
           /\ At("loop")' = At("loop") \cup At("wait")
BY DEF At, TypeOK, Places, Wake

\* Cardinalities of the sets At returns.
LEMMA AtFinite == \A p : IsFiniteSet(At(p)) /\ Cardinality(At(p)) \in Nat
<1> TAKE p
<1>1. At(p) \subseteq Consumers
  BY DEF At
<1> QED BY <1>1, ConsumersAssumption, FS_Subset, FS_CardinalityType

\* One more consumer on its way to the queue.
LEMMA CountIn ==
    ASSUME NEW c \in Consumers, c \notin At("loop")
    PROVE  Cardinality(At("loop") \cup {c}) = Cardinality(At("loop")) + 1
BY AtFinite, FS_AddElement

\* One consumer fewer on its way to the queue.
LEMMA CountOut ==
    ASSUME NEW c \in At("loop")
    PROVE  Cardinality(At("loop") \ {c}) = Cardinality(At("loop")) - 1
BY AtFinite, FS_RemoveElement

-----------------------------------------------------------------------------
\* Every step keeps the types.
LEMMA TypeStep == TypeOK /\ [Next]_queueVars => TypeOK'
<1> SUFFICES ASSUME TypeOK, [Next]_queueVars PROVE TypeOK'
  OBVIOUS
<1>1. CASE Produce
  <2>1. PICK i \in Items : Push(i)
    BY <1>1 DEF Produce
  <2>2. where' \in [Consumers -> Places]
    BY <2>1, WakeOne DEF Push, NotifyOne, TypeOK
  <2> QED BY <2>1, <2>2 DEF Push, TypeOK
<1>2. ASSUME NEW c \in Consumers, Call(c) PROVE TypeOK'
  BY <1>2 DEF Call, TypeOK, Places
<1>3. ASSUME NEW c \in Consumers, Wait(c) PROVE TypeOK'
  BY <1>3 DEF Wait, TypeOK, Places
<1>4. ASSUME NEW c \in Consumers, Take(c) PROVE TypeOK'
  BY <1>4 DEF Take, TypeOK, Places
<1>5. ASSUME NEW c \in Consumers, GiveUp(c) PROVE TypeOK'
  BY <1>5 DEF GiveUp, TypeOK, Places
<1>6. ASSUME NEW c \in Consumers, Pop(c) PROVE TypeOK'
  BY <1>6 DEF Pop, TypeOK, Places
<1>7. ASSUME NEW c \in Consumers, SpuriousWakeup(c) PROVE TypeOK'
  BY <1>7, WakeOne DEF SpuriousWakeup, TypeOK, At
<1>8. CASE Cancel
  BY <1>8, WakeAll DEF Cancel, TypeOK
<1>9. CASE UNCHANGED queueVars
  BY <1>9 DEF queueVars, TypeOK
<1> QED BY <1>1, <1>2, <1>3, <1>4, <1>5, <1>6, <1>7, <1>8, <1>9 DEF Next, WaitAndPop

\* Every step keeps a waking consumer for each item, and no sleeper after Cancel.
LEMMA WakeStep == IInv /\ [Next]_queueVars => ShutdownWakesAll' /\ NoLostWakeup'
<1> SUFFICES ASSUME IInv, [Next]_queueVars PROVE ShutdownWakesAll' /\ NoLostWakeup'
  OBVIOUS
<1> USE DEF IInv
<1>1. CASE Produce
  <2>1. PICK i \in Items : Push(i)
    BY <1>1 DEF Produce
  <2>2. Len(queue') = Len(queue) + 1 /\ shutdown' = shutdown
    BY <2>1 DEF Push, TypeOK
  <2>3. CASE At("wait") = {} /\ UNCHANGED where
    <3>1. At("wait")' = {}
      BY <2>3 DEF At
    <3> QED BY <3>1 DEF ShutdownWakesAll, NoLostWakeup
  <2>4. ASSUME NEW c \in At("wait"), Wake({c}) PROVE ShutdownWakesAll' /\ NoLostWakeup'
    <3>1. At("wait")' = At("wait") \ {c} /\ At("loop")' = At("loop") \cup {c}
      BY <2>4, WakeOne
    <3>2. c \in Consumers /\ c \notin At("loop")
      BY DEF At
    <3>3. Cardinality(At("loop")') = Cardinality(At("loop")) + 1
      BY <3>1, <3>2, CountIn
    <3> QED BY <2>2, <3>1, <3>3, AtFinite DEF ShutdownWakesAll, NoLostWakeup, TypeOK
  <2> QED BY <2>1, <2>3, <2>4 DEF Push, NotifyOne
<1>2. ASSUME NEW c \in Consumers, Call(c) PROVE ShutdownWakesAll' /\ NoLostWakeup'
  <2>1. At("wait")' = At("wait") /\ At("loop")' = At("loop") \cup {c} /\ c \notin At("loop")
    BY <1>2, MoveOne DEF Call, At, Places
  <2>2. Cardinality(At("loop")') = Cardinality(At("loop")) + 1
    BY <2>1, CountIn
  <2> QED BY <1>2, <2>1, <2>2, AtFinite DEF Call, ShutdownWakesAll, NoLostWakeup, TypeOK
<1>3. ASSUME NEW c \in Consumers, Wait(c) PROVE ShutdownWakesAll' /\ NoLostWakeup'
  <2>1. Len(queue') = 0 /\ ~shutdown'
    BY <1>3 DEF Wait
  <2>2. Cardinality(At("loop")') \in Nat
    <3>1. At("loop")' = At("loop") \ {c}
      BY <1>3, MoveOne DEF Wait, Places
    <3>2. At("loop") \ {c} \subseteq Consumers
      BY DEF At
    <3> QED BY <3>1, <3>2, ConsumersAssumption, FS_Subset, FS_CardinalityType
  <2> QED BY <2>1, <2>2 DEF ShutdownWakesAll, NoLostWakeup
<1>4. ASSUME NEW c \in Consumers, Take(c) PROVE ShutdownWakesAll' /\ NoLostWakeup'
  <2>1. At("wait")' = At("wait") /\ At("loop")' = At("loop") \ {c} /\ c \in At("loop")
    BY <1>4, MoveOne DEF Take, At, Places
  <2>2. Cardinality(At("loop")') = Cardinality(At("loop")) - 1
    BY <2>1, CountOut
  <2>3. Len(queue') = Len(queue) - 1 /\ shutdown' = shutdown /\ Len(queue) \in Nat
    BY <1>4 DEF Take, TypeOK
  <2> QED BY <2>1, <2>2, <2>3, AtFinite DEF ShutdownWakesAll, NoLostWakeup
<1>5. ASSUME NEW c \in Consumers, GiveUp(c) PROVE ShutdownWakesAll' /\ NoLostWakeup'
  <2>1. At("wait")' = {}
    BY <1>5, MoveOne DEF GiveUp, ShutdownWakesAll, Places
  <2> QED BY <2>1 DEF ShutdownWakesAll, NoLostWakeup
<1>6. ASSUME NEW c \in Consumers, Pop(c) PROVE ShutdownWakesAll' /\ NoLostWakeup'
  <2>1. At("wait")' = At("wait") /\ At("loop")' = At("loop")
    BY <1>6 DEF Pop, At
  <2>2. Len(queue') = Len(queue) - 1 /\ shutdown' = shutdown /\ Len(queue) \in Nat
    BY <1>6 DEF Pop, TypeOK
  <2> QED BY <2>1, <2>2, AtFinite DEF ShutdownWakesAll, NoLostWakeup
<1>7. ASSUME NEW c \in Consumers, SpuriousWakeup(c) PROVE ShutdownWakesAll' /\ NoLostWakeup'
  <2>1. c \in At("wait") /\ c \notin At("loop")
    BY <1>7 DEF SpuriousWakeup, At
  <2>2. At("wait")' = At("wait") \ {c} /\ At("loop")' = At("loop") \cup {c}
    BY <1>7, <2>1, WakeOne DEF SpuriousWakeup
  <2>3. Cardinality(At("loop")') = Cardinality(At("loop")) + 1
    BY <2>1, <2>2, CountIn
  <2> QED BY <1>7, <2>2, <2>3, AtFinite DEF SpuriousWakeup, ShutdownWakesAll, NoLostWakeup, TypeOK
<1>8. CASE Cancel
  <2>1. At("wait")' = {}
    BY <1>8, WakeAll DEF Cancel
  <2> QED BY <2>1 DEF ShutdownWakesAll, NoLostWakeup
<1>9. CASE UNCHANGED queueVars
  BY <1>9 DEF queueVars, ShutdownWakesAll, NoLostWakeup, At
<1> QED BY <1>1, <1>2, <1>3, <1>4, <1>5, <1>6, <1>7, <1>8, <1>9 DEF Next, WaitAndPop

\* The invariant holds of an empty queue that nobody has called.
LEMMA InitIInv == Init => IInv
<1> SUFFICES ASSUME Init PROVE IInv
  OBVIOUS
<1>1. TypeOK
  <2>1. queue \in Seq(Items)
    BY DEF Init
  <2>2. where \in [Consumers -> Places] /\ value \in [Consumers -> Items \cup {NoItem}]
    BY DEF Init, Places
  <2> QED BY <2>1, <2>2 DEF Init, TypeOK
<1>2. At("wait") = {}
  BY DEF Init, At
<1> QED BY <1>1, <1>2 DEF IInv, ShutdownWakesAll, NoLostWakeup

\* The inductive invariant holds in every reachable state.
LEMMA Invariance == Spec => []IInv
<1>1. IInv /\ [Next]_queueVars => IInv'
  BY TypeStep, WakeStep DEF IInv
<1> QED BY InitIInv, <1>1, PTL DEF Spec

-----------------------------------------------------------------------------
\* The variables of the queue keep their types: in particular a consumer's
\* variable is one of the items pushed or still the null it was set to.
THEOREM TypeCorrect == Spec => []TypeOK
<1>1. IInv => TypeOK
  BY DEF IInv
<1> QED BY Invariance, <1>1, PTL

\* One notify_one per Push loses no wakeup, whatever the number of consumers.
THEOREM NoWakeupIsLost == Spec => []NoLostWakeup
<1>1. IInv => NoLostWakeup
  BY DEF IInv
<1> QED BY Invariance, <1>1, PTL

\* Once Cancel has run no consumer sleeps on the queue.
THEOREM NobodySleepsAfterShutdown == Spec => []ShutdownWakesAll
<1>1. IInv => ShutdownWakesAll
  BY DEF IInv
<1> QED BY Invariance, <1>1, PTL

-----------------------------------------------------------------------------
\* Each step of the queue is a step of the first-in first-out queue of WorkQueue,
\* or one that its callers cannot see.
LEMMA StepRefinement ==
    TypeOK /\ [Next]_queueVars => [Abstract!Next]_(Abstract!vars)
<1> SUFFICES ASSUME TypeOK, [Next]_queueVars
             PROVE  Abstract!Next \/ UNCHANGED Abstract!vars
  OBVIOUS
<1> USE DEF Abstract!vars, At, TypeOK
<1>1. CASE Produce
  <2>1. PICK i \in Items : Len(queue) < Capacity /\ Push(i)
    BY <1>1 DEF Produce
  <2>2. Consumers \ At("out")' = Consumers \ At("out")
    BY <2>1 DEF Push, NotifyOne, Wake
  <2>3. Abstract!Put(i)
    BY <2>1, <2>2 DEF Push, Abstract!Put
  <2> QED BY <2>3 DEF Abstract!Next
<1>2. ASSUME NEW c \in Consumers, Call(c) PROVE Abstract!Ask(c)
  BY <1>2 DEF Call, Abstract!Ask
<1>3. ASSUME NEW c \in Consumers, Wait(c) PROVE UNCHANGED Abstract!vars
  BY <1>3 DEF Wait
<1>4. ASSUME NEW c \in Consumers, Take(c) PROVE Abstract!Hand(c)
  BY <1>4 DEF Take, Abstract!Hand
<1>5. ASSUME NEW c \in Consumers, GiveUp(c) PROVE Abstract!TurnAway(c)
  BY <1>5 DEF GiveUp, Abstract!TurnAway
<1>6. ASSUME NEW c \in Consumers, Pop(c) PROVE Abstract!Poll(c)
  BY <1>6 DEF Pop, Abstract!Poll
<1>7. ASSUME NEW c \in Consumers, SpuriousWakeup(c) PROVE UNCHANGED Abstract!vars
  BY <1>7 DEF SpuriousWakeup, Wake
<1>8. CASE Cancel
  <2>1. Abstract!Close
    BY <1>8 DEF Cancel, Wake, Abstract!Close
  <2> QED BY <2>1 DEF Abstract!Next
<1>9. CASE UNCHANGED queueVars
  BY <1>9 DEF queueVars
<1> QED BY <1>1, <1>2, <1>3, <1>4, <1>5, <1>6, <1>7, <1>8, <1>9
        DEF Next, WaitAndPop, Abstract!Next

\* The safety half of ImplementsWorkQueue, for any number of consumers: items
\* leave in the order they came, each to one consumer that asked, and none after
\* the queue was closed.
THEOREM ImplementsWorkQueueSafety ==
    Spec => Abstract!Init /\ [][Abstract!Next]_(Abstract!vars)
<1>1. Init => Abstract!Init
  BY DEF Init, Abstract!Init, At
<1>2. TypeOK /\ [Next]_queueVars => [Abstract!Next]_(Abstract!vars)
  BY StepRefinement
<1> QED BY <1>1, <1>2, TypeCorrect, PTL DEF Spec

=============================================================================

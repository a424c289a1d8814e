----------------------------- MODULE MailProofs -----------------------------
(***************************************************************************)
(* Proofs about Mail: its invariants hold in every state, for any players, *)
(* items, coins and bounds.                                                *)
(***************************************************************************)
EXTENDS MailDatabaseProofs

-----------------------------------------------------------------------------
(***************************************************************************)
(* The inductive invariant.  Its first part is about each database the     *)
(* queue leads through, its second about each player (the parts, and what  *)
(* a step of a database does to them, are in MailDatabaseProofs).          *)
(***************************************************************************)
MemoryOK ==
    \A p \in Players :
        PlayerOK(Stages(database, asyncQueue), Len(asyncQueue), p, online[p], m_money[p],
                 m_items[p], m_mailsLoaded[p], m_mail[p], loading, destroyed)

IInv ==
    /\ TypeOK
    /\ QueueOK(Stages(database, asyncQueue), asyncQueue, online, _mailId, destroyed)
    /\ MemoryOK

\* The database after the whole queue.
Final == After(Len(asyncQueue))

\* What is known of the stages of the queue.
LEMMA FinalFacts ==
    ASSUME TypeOK
    PROVE  /\ Len(asyncQueue) \in Nat
           /\ Stages(database, asyncQueue) \in [0 .. Len(asyncQueue) -> Databases]
           /\ Stages(database, asyncQueue)[0] = database
           /\ Final = Stages(database, asyncQueue)[Len(asyncQueue)]
           /\ Final \in Databases
           /\ _mailId \in Nat /\ _mailId >= 1
<1>1. database \in Databases /\ asyncQueue \in Seq(Elements)
  BY DEF TypeOK
<1>2. Len(asyncQueue) \in Nat /\ Len(asyncQueue) \in 0 .. Len(asyncQueue)
  BY <1>1
<1> QED
  BY <1>1, <1>2, StagesSteps, BoundAssumption DEF Final, After, TypeOK

\* The final database is sound.
LEMMA FinalSound ==
    ASSUME IInv
    PROVE  Sound(Final, _mailId, destroyed)
<1>1. TypeOK /\ QueueOK(Stages(database, asyncQueue), asyncQueue, online, _mailId, destroyed)
  BY DEF IInv
<1>2. Len(asyncQueue) \in 0 .. Len(asyncQueue) /\ Final = Stages(database, asyncQueue)[Len(asyncQueue)]
  BY <1>1, FinalFacts
<1> QED
  BY <1>1, <1>2 DEF QueueOK

\* A transaction is an element of the queue.
LEMMA QueuedElement ==
    ASSUME NEW trans \in Seq(Statements), NEW db
    PROVE  /\ Queued(trans) \in Elements
           /\ Queued(trans).what = "transaction"
           /\ Effect(db, Queued(trans)) = Committed(db, trans)
<1>1. Queued(trans) \in Elements
  BY DEF Queued, Elements
<1>2. Queued(trans).what = "transaction" /\ Queued(trans).trans = trans
  BY DEF Queued
<1> QED
  BY <1>1, <1>2 DEF Effect

\* A saved mailbox is a mailbox.
LEMMA SavedType ==
    ASSUME NEW b \in Boxes
    PROVE  Saved(b) \in Boxes
<1>1. ASSUME NEW id \in MailIds PROVE Saved(b)[id] \in Mails \cup {NoMail}
  <2>1. b[id] \in Mails \cup {NoMail}
    BY DEF Boxes
  <2>2. \A m \in Mails : [m EXCEPT !.state = "UNCHANGED", !.removedItems = {}] \in Mails
    BY DEF Mails
  <2> QED
    BY <2>1, <2>2 DEF Saved
<1> QED
  BY <1>1 DEF Saved, Boxes

\* The mail that is delivered in memory.
Letter(row, items) ==
    [sender |-> row.sender, receiver |-> row.receiver, money |-> row.money,
     COD |-> row.COD, items |-> items, removedItems |-> {}, state |-> "UNCHANGED"]

\* A delivery changes one mail of one player at most.
LEMMA DeliveredParts ==
    ASSUME NEW boxes \in [Players -> Boxes], NEW id \in MailIds, NEW row \in Rows,
           NEW items \in SUBSET Items
    PROVE  /\ Letter(row, items) \in Mails
           /\ Delivered(boxes, id, row, items) \in [Players -> Boxes]
           /\ \A q \in Players :
                \/ Delivered(boxes, id, row, items)[q] = boxes[q]
                \/ /\ q = row.receiver /\ online[q] = "in" /\ m_mailsLoaded[q]
                   /\ Delivered(boxes, id, row, items)[q] = [boxes[q] EXCEPT ![id] = Letter(row, items)]
<1>1. /\ row.sender \in Players /\ row.receiver \in Players
      /\ row.money \in SUBSET Coins /\ row.COD \in 0 .. MaxCOD
  BY DEF Rows
<1>2. Letter(row, items) \in Mails
  BY <1>1 DEF Letter, Mails
<1>3. PICK m \in Mails : m = Letter(row, items)
  BY <1>2
<1>4. PICK r \in Players : r = row.receiver
  BY <1>1
<1>5. \/ Delivered(boxes, id, row, items) = boxes
      \/ /\ online[r] = "in" /\ m_mailsLoaded[r]
         /\ Delivered(boxes, id, row, items) = [boxes EXCEPT ![r] = [boxes[r] EXCEPT ![id] = m]]
  BY <1>3, <1>4 DEF Delivered, Letter
<1>6. [boxes[r] EXCEPT ![id] = m] \in Boxes
  BY DEF Boxes
<1> QED
  BY <1>2, <1>3, <1>4, <1>5, <1>6

\* A delivery leaves every player with what the database has.
LEMMA DeliveredKeeps ==
    ASSUME NEW boxes \in [Players -> Boxes], NEW id \in MailIds, NEW row \in Rows,
           NEW items \in SUBSET Items,
           NEW n \in Nat, NEW st, st[n].mail[id] = row, Attached(st[n], id) = items,
           NEW q \in Players, NEW money, NEW its, NEW ld, NEW gone,
           PlayerOK(st, n, q, online[q], money, its, m_mailsLoaded[q], boxes[q], ld, gone),
           m_mailsLoaded \in [Players -> BOOLEAN]
    PROVE  PlayerOK(st, n, q, online[q], money, its, m_mailsLoaded[q],
                    Delivered(boxes, id, row, items)[q], ld, gone)
<1>1. CASE Delivered(boxes, id, row, items)[q] = boxes[q]
  BY <1>1
<1>2. CASE /\ q = row.receiver /\ online[q] = "in" /\ m_mailsLoaded[q]
           /\ Delivered(boxes, id, row, items)[q] = [boxes[q] EXCEPT ![id] = Letter(row, items)]
  <2>1. m_mailsLoaded[q] = TRUE
    BY <1>2
  <2>2. PICK m \in Mails : m = Letter(row, items)
    BY DeliveredParts
  <2>3. /\ m.sender = row.sender /\ m.money = row.money /\ m.COD = row.COD
        /\ m.items = items /\ m.removedItems = {} /\ m.state = "UNCHANGED"
    BY <2>2 DEF Letter
  <2>4. id \in Addressed(st[n], q)
    BY <1>2, NoneApart DEF Addressed, MailsOf
  <2>5. MailOK(m, id, q, st[n], TRUE, gone)
    BY <2>3, <2>4 DEF MailOK
  <2>6. PICK box \in Boxes : box = boxes[q]
    OBVIOUS
  <2>7. PlayerOK(st, n, q, online[q], money, its, TRUE, box, ld, gone)
    BY <2>1, <2>6
  <2>8. PlayerOK(st, n, q, online[q], money, its, TRUE, [box EXCEPT ![id] = m], ld, gone)
    BY <2>5, <2>7, PlayerGetsMail
  <2> QED
    BY <1>2, <2>1, <2>2, <2>6, <2>8
<1> QED
  BY <1>1, <1>2, DeliveredParts

\* A player who has listed his mails, with what the database has.
LEMMA ListedPlayer ==
    ASSUME NEW st, NEW n, NEW p, NEW box, NEW ld, NEW gone, ld # p,
           MailboxOK(box, p, st[n], gone)
    PROVE  PlayerOK(st, n, p, "in", st[n].money[p], Carried(st[n], p), TRUE, box, ld, gone)
  BY DEF PlayerOK, MailboxOK

\* The mails of a player whose mailbox is not being loaded are as the database has them.
LEMMA ListedMailbox ==
    ASSUME NEW st, NEW n, NEW p, NEW on, NEW money, NEW items, NEW listed, NEW box, NEW ld,
           NEW gone, PlayerOK(st, n, p, on, money, items, listed, box, ld, gone), ld # p
    PROVE  MailboxOK(box, p, st[n], gone)
<1> SUFFICES ASSUME NEW id \in MailIds, box[id] # NoMail
             PROVE  MailOK(box[id], id, p, st[n], TRUE, gone)
  BY DEF MailboxOK
<1>1. listed
  BY DEF PlayerOK, NoBox
<1>2. MailOK(box[id], id, p, st[n], listed, gone)
  BY DEF PlayerOK
<1> QED
  BY <1>1, <1>2 DEF MailOK

\* The memory of player q is not touched, apart from a delivery.
Untouched(q, boxes) == m_money'[q] = m_money[q] /\ m_items'[q] = m_items[q] /\ boxes[q] = m_mail[q]

\* A delivery of a mail which the database db has.
Delivers(boxes, db) ==
    \E id \in MailIds, row \in Rows, items \in SUBSET Items :
        /\ m_mail' = Delivered(boxes, id, row, items)
        /\ db.mail[id] = row
        /\ Attached(db, id) = items

\* A handler changes what its player has in memory, and queues a transaction
\* which does the same to the database.
LEMMA TransactionKeeps ==
    ASSUME IInv, TypeOK',
           NEW trans \in Seq(Statements), NEW player \in Players, NEW db2,
           NEW boxes \in [Players -> Boxes],
           database' = database, asyncQueue' = Append(asyncQueue, Queued(trans)),
           online' = online, m_mailsLoaded' = m_mailsLoaded, destroyed' = destroyed,
           loading = Nobody, loading' = Nobody, online[player] = "in",
           _mailId <= _mailId',
           db2 = Committed(Final, trans),
           Sound(db2, _mailId', destroyed), PaidStep(Final, db2),
           \A q \in Players : q # player => Kept(Final, db2, q) /\ Untouched(q, boxes),
           m_money'[player] = db2.money[player], m_items'[player] = Carried(db2, player),
           \/ /\ boxes[player] = m_mail[player]
              /\ \A id \in Addressed(Final, player) : Same(Final, db2, id)
           \/ m_mailsLoaded[player] /\ MailboxOK(boxes[player], player, db2, destroyed),
           m_mail' = boxes \/ Delivers(boxes, db2)
    PROVE  IInv'
<1>1. /\ TypeOK /\ MemoryOK
      /\ QueueOK(Stages(database, asyncQueue), asyncQueue, online, _mailId, destroyed)
      /\ database \in Databases /\ asyncQueue \in Seq(Elements) /\ _mailId \in Nat
      /\ m_mailsLoaded \in [Players -> BOOLEAN]
      /\ online \in [Players -> {"out", "loading", "in"}]
  BY FinalFacts DEF IInv, TypeOK
<1>2. PICK e \in Elements : /\ e = Queued(trans) /\ e.what = "transaction"
                            /\ db2 = Effect(Final, e)
  BY QueuedElement
<1>3. PICK n \in Nat, st \in [0 .. Len(asyncQueue) -> Databases] :
        /\ n = Len(asyncQueue) /\ st = Stages(database, asyncQueue)
        /\ st[n] = Final /\ Final \in Databases
  BY <1>1, FinalFacts
<1>4. PICK q2 \in Seq(Elements) : q2 = asyncQueue' /\ q2 = Append(asyncQueue, e) /\ Len(q2) = n + 1
  <2>1. Append(asyncQueue, e) \in Seq(Elements) /\ Len(Append(asyncQueue, e)) = Len(asyncQueue) + 1
    BY <1>1
  <2> QED
    BY <1>2, <1>3, <2>1
<1>5. PICK st2 : /\ st2 = Stages(database, q2)
                 /\ \A k \in 0 .. n : st2[k] = st[k]
                 /\ st2[n + 1] = db2
  BY <1>1, <1>2, <1>3, <1>4, StagesAppend
<1>6. QueueOK(st2, q2, online', _mailId', destroyed')
  <2>1. _mailId' \in Nat
    BY BoundAssumption DEF TypeOK
  <2>2. \A p \in Players : online[p] = "loading" => p # player
    OBVIOUS
  <2>3. QueueOK(st, asyncQueue, online, _mailId, destroyed)
    BY <1>1, <1>3
  <2>4. QueueOK(st2, Append(asyncQueue, e), online, _mailId', destroyed)
    <3>1. \A p \in Players : online[p] = "loading" =>
            online[p] = "loading" /\ Kept(st[Len(asyncQueue)], st2[Len(asyncQueue) + 1], p)
      BY <1>3, <1>5, <2>2
    <3>2. /\ st2[Len(asyncQueue) + 1] = db2 /\ st[Len(asyncQueue)] = Final
          /\ \A k \in 0 .. Len(asyncQueue) : st2[k] = st[k]
      BY <1>3, <1>5
    <3>3. _mailId \in Nat
      BY <1>1
    <3> QED
      BY <1>1, <1>2, <2>1, <2>3, <3>1, <3>2, <3>3, QueueGrows
  <2> QED
    BY <1>4, <2>4
<1>7. ASSUME NEW q \in Players
      PROVE  PlayerOK(st2, n + 1, q, online[q], m_money'[q], m_items'[q], m_mailsLoaded[q],
                      boxes[q], Nobody, destroyed)
  <2>1. PlayerOK(st, n, q, online[q], m_money[q], m_items[q], m_mailsLoaded[q], m_mail[q],
                 Nobody, destroyed)
    BY <1>1, <1>3 DEF MemoryOK
  <2>2. CASE q # player
    <3>1. /\ Kept(st[n], st2[n + 1], q) /\ boxes[q] = m_mail[q]
          /\ m_money'[q] = m_money[q] /\ m_items'[q] = m_items[q]
      BY <1>3, <1>5, <2>2 DEF Untouched
    <3>2. /\ \A id \in Addressed(st[n], q) : Same(st[n], st2[n + 1], id)
          /\ st2[n + 1].money[q] = st[n].money[q]
          /\ Carried(st2[n + 1], q) = Carried(st[n], q)
      BY <3>1 DEF Kept
    <3>3. online[q] = "in" => m_money[q] = st2[n + 1].money[q] /\ m_items[q] = Carried(st2[n + 1], q)
      BY <2>1, <3>2 DEF PlayerOK
    <3>4. PlayerOK(st2, n + 1, q, online[q], m_money[q], m_items[q], m_mailsLoaded[q], m_mail[q],
                   Nobody, destroyed)
      <4>1. /\ destroyed \subseteq destroyed /\ n \in Nat
            /\ online[q] # "in" => m_money[q] = m_money[q] /\ m_items[q] = m_items[q]
        OBVIOUS
      <4> QED
        BY ONLY <1>5, <2>1, <3>2, <3>3, <4>1, PlayerGrows
    <3> QED
      BY <3>1, <3>4
  <2>3. CASE q = player /\ boxes[q] = m_mail[q] /\ \A id \in Addressed(Final, q) : Same(Final, db2, id)
    <3>1. /\ \A id \in Addressed(st[n], q) : Same(st[n], st2[n + 1], id)
          /\ online[q] = "in"
          /\ m_money'[q] = st2[n + 1].money[q] /\ m_items'[q] = Carried(st2[n + 1], q)
      BY <1>3, <1>5, <2>3
    <3>2. PlayerOK(st2, n + 1, q, online[q], m_money'[q], m_items'[q], m_mailsLoaded[q], m_mail[q],
                   Nobody, destroyed)
      <4>1. destroyed \subseteq destroyed /\ n \in Nat
        OBVIOUS
      <4> QED
        BY ONLY <1>5, <2>1, <3>1, <4>1, PlayerGrows
    <3> QED
      BY <2>3, <3>2
  <2>4. CASE q = player /\ m_mailsLoaded[q] /\ MailboxOK(boxes[q], q, db2, destroyed)
    <3>1. m_mailsLoaded[q] = TRUE /\ online[q] = "in" /\ Nobody # q
      BY <1>1, <2>4, NoneApart
    <3>2. PlayerOK(st2, n + 1, q, "in", st2[n + 1].money[q], Carried(st2[n + 1], q), TRUE, boxes[q],
                   Nobody, destroyed)
      BY <1>5, <2>4, <3>1, ListedPlayer
    <3> QED
      BY <1>5, <2>4, <3>1, <3>2
  <2> QED
    BY <2>2, <2>3, <2>4
<1>8. ASSUME NEW q \in Players
      PROVE  PlayerOK(st2, n + 1, q, online[q], m_money'[q], m_items'[q], m_mailsLoaded[q],
                      m_mail'[q], Nobody, destroyed)
  <2>1. CASE m_mail' = boxes
    BY <1>7, <2>1
  <2>2. CASE Delivers(boxes, db2)
    <3>1. PICK id \in MailIds, row \in Rows, items \in SUBSET Items :
            /\ m_mail' = Delivered(boxes, id, row, items)
            /\ db2.mail[id] = row /\ Attached(db2, id) = items
      BY <2>2 DEF Delivers
    <3>2. st2[n + 1].mail[id] = row /\ Attached(st2[n + 1], id) = items /\ n + 1 \in Nat
      BY <1>5, <3>1
    <3>3. PlayerOK(st2, n + 1, q, online[q], m_money'[q], m_items'[q], m_mailsLoaded[q],
                   boxes[q], Nobody, destroyed)
      BY <1>7
    <3>4. PlayerOK(st2, n + 1, q, online[q], m_money'[q], m_items'[q], m_mailsLoaded[q],
                   Delivered(boxes, id, row, items)[q], Nobody, destroyed)
      BY <1>1, <3>2, <3>3, DeliveredKeeps
    <3> QED
      BY <3>1, <3>4
  <2> QED
    BY <2>1, <2>2
<1>9. /\ Stages(database', asyncQueue') = st2 /\ Len(asyncQueue') = n + 1
      /\ online' = online /\ m_mailsLoaded' = m_mailsLoaded /\ loading' = Nobody
      /\ destroyed' = destroyed
  BY <1>4, <1>5
<1>10. MemoryOK'
  BY <1>8, <1>9 DEF MemoryOK
<1>11. QueueOK(Stages(database', asyncQueue'), asyncQueue', online', _mailId', destroyed')
  BY <1>4, <1>6, <1>9
<1> QED
  BY <1>10, <1>11 DEF IInv

\* A transaction in three parts.
LEMMA CommittedThree ==
    ASSUME NEW db \in Databases, NEW t \in Seq(Statements), NEW u \in Seq(Statements),
           NEW v \in Seq(Statements)
    PROVE  /\ (t \o u) \o v \in Seq(Statements)
           /\ Committed(db, (t \o u) \o v) = Committed(Committed(Committed(db, t), u), v)
<1>1. t \o u \in Seq(Statements)
  OBVIOUS
<1>2. PICK w \in Seq(Statements) : w = t \o u
  BY <1>1
<1>3. w \o v \in Seq(Statements)
  OBVIOUS
<1>4. Committed(db, w \o v) = Committed(Committed(db, w), v)
  BY CommittedConcat
<1>5. Committed(db, w) = Committed(Committed(db, t), u)
  BY <1>2, CommittedConcat
<1> QED
  BY <1>2, <1>3, <1>4, <1>5

-----------------------------------------------------------------------------
(* HandleSendMail.                                                         *)

Sends(db, db2, p, items, money, next, row) ==
    /\ db2.money[p] = db.money[p] \ money
    /\ \A q \in Players : q # p => db2.money[q] = db.money[q]
    /\ \A i \in Items : db2.inventory[i] = IF i \in items THEN Nobody ELSE db.inventory[i]
    /\ db2.mail[next] = row
    /\ \A id \in MailIds : id # next => db2.mail[id] = db.mail[id]
    /\ \A i \in Items : db2.mailItems[i] = IF i \in items THEN next ELSE db.mailItems[i]
    /\ db2.instances = db.instances

\* The row says what the mail carries.
Carries(row, money, items) == row.money = money /\ (row.has_items <=> items # {})

SendStatements(items, next, row, player, money) ==
    ForEach(items, LAMBDA i : [stmt |-> "DEL_INVENTORY", item |-> i])
    \o SendMailTo(next, row, items)
    \o SaveGoldToDB(player, money)

\* What the transaction of a sent mail does.
LEMMA SendEffect ==
    ASSUME NEW db \in Databases, NEW p \in Players, NEW items \in SUBSET Items,
           NEW money \in SUBSET Coins, NEW next \in MailIds, NEW row \in Rows
    PROVE  \E t \in Seq(Statements) :
              /\ t = SendStatements(items, next, row, p, db.money[p] \ money)
              /\ Committed(db, t) \in Databases
              /\ Sends(db, Committed(db, t), p, items, money, next, row)
<1>1. PICK t \in Seq(Statements) :
        /\ t = ForEach(items, LAMBDA i : [stmt |-> "DEL_INVENTORY", item |-> i])
        /\ OneForEach(t, "DEL_INVENTORY", items)
  BY DropsItems
<1>2. PICK left \in SUBSET Coins : left = db.money[p] \ money
  BY DatabaseParts
<1>3. PICK u \in Seq(Statements) : u = SendMailTo(next, row, items)
  BY MailIsSent, DatabaseParts
<1>4. PICK v \in Seq(Statements) : v = SaveGoldToDB(p, left)
  BY MoneyIsSaved
<1>5. PICK d1 \in Databases :
        /\ d1 = Committed(db, t)
        /\ \A i \in Items : d1.inventory[i] = IF i \in items THEN Nobody ELSE db.inventory[i]
        /\ d1.money = db.money /\ d1.instances = db.instances
        /\ d1.mail = db.mail /\ d1.mailItems = db.mailItems
  <2>1. t \in Seq(Statements) /\ db \in Databases /\ items \in SUBSET Items
    OBVIOUS
  <2>2. OneForEach(t, "DEL_INVENTORY", items)
    BY <1>1
  <2> QED
    BY ONLY <2>1, <2>2, DropItems
<1>6. PICK d2 \in Databases :
        /\ d2 = Committed(d1, u)
        /\ d2.mail[next] = row
        /\ \A o \in MailIds : o # next => d2.mail[o] = d1.mail[o]
        /\ \A i \in Items : d2.mailItems[i] = IF i \in items THEN next ELSE d1.mailItems[i]
        /\ d2.money = d1.money /\ d2.inventory = d1.inventory /\ d2.instances = d1.instances
  BY <1>3, MailIsSent
<1>7. PICK d3 \in Databases :
        /\ d3 = Committed(d2, v)
        /\ d3.money[p] = left
        /\ \A q \in Players : q # p => d3.money[q] = d2.money[q]
        /\ d3.inventory = d2.inventory /\ d3.instances = d2.instances
        /\ d3.mail = d2.mail /\ d3.mailItems = d2.mailItems
  BY <1>4, MoneyIsSaved
<1>8. PICK w \in Seq(Statements) : w = (t \o u) \o v /\ Committed(db, w) = d3
  <2>1. /\ (t \o u) \o v \in Seq(Statements)
        /\ Committed(db, (t \o u) \o v) = Committed(Committed(Committed(db, t), u), v)
    BY CommittedThree
  <2>2. d3 = Committed(Committed(Committed(db, t), u), v)
    BY <1>5, <1>6, <1>7
  <2> QED
    BY ONLY <2>1, <2>2
<1>9. w = SendStatements(items, next, row, p, db.money[p] \ money)
  BY <1>1, <1>2, <1>3, <1>4, <1>8 DEF SendStatements
<1>10. Sends(db, d3, p, items, money, next, row)
  BY <1>2, <1>5, <1>6, <1>7 DEF Sends
<1> QED
  BY <1>8, <1>9, <1>10

Sending(db, db2, p, items, money, next, next2, row, gone) ==
    /\ db \in Databases /\ db2 \in Databases
    /\ items \in SUBSET Items /\ money \in SUBSET Coins
    /\ next \in MailIds /\ next2 = next + 1 /\ row \in Rows
    /\ Sound(db, next, gone)
    /\ Sends(db, db2, p, items, money, next, row)
    /\ items \subseteq Carried(db, p) /\ money \subseteq db.money[p]
    /\ Carries(row, money, items)

\* The database is sound after a mail is sent, and the other players keep theirs.
LEMMA SendSound ==
    ASSUME NEW p \in Players, NEW db, NEW db2, NEW items, NEW money, NEW next, NEW next2,
           NEW row, NEW gone, Sending(db, db2, p, items, money, next, next2, row, gone)
    PROVE  /\ Sound(db2, next2, gone)
           /\ PaidStep(db, db2)
           /\ \A q \in Players : q # p => Kept(db, db2, q)
           /\ Carried(db2, p) = Carried(db, p) \ items
           /\ \A id \in MailsOf(db) : Same(db, db2, id)
           /\ Attached(db2, next) = items
<1> USE DEF Sending
<1>1. /\ Fresh(db, next) /\ CoinsApart(db) /\ ItemsApart(db) /\ Attaches(db)
      /\ CoinsKept(db, gone) /\ ItemsKept(db, gone)
  BY DEF Sound
<1>2. next \notin MailsOf(db) /\ next \in Nat /\ \A id \in MailIds : id \in Int
  <2>1. next \in Nat /\ ~(next < next) /\ \A id \in MailIds : id \in Int
    BY NoneApart, BoundAssumption DEF MailIds
  <2> QED
    BY <1>1, <2>1 DEF Fresh
<1>3. \A id \in MailIds : id \in MailsOf(db2) <=> id = next \/ id \in MailsOf(db)
  BY NoneApart DEF Sends, MailsOf
<1>4. \A id \in MailsOf(db) : id \in MailIds /\ id # next /\ db2.mail[id] = db.mail[id]
  BY <1>2 DEF Sends, MailsOf
<1>5. /\ db2.money[p] = db.money[p] \ money
      /\ \A q \in Players : q # p => db2.money[q] = db.money[q]
      /\ db2.mail[next].money = money
  BY DEF Sends, Carries
<1>6. \A i \in items : i \in db.instances /\ db.inventory[i] = p /\ db.mailItems[i] = NoMail
  BY <1>1, NoneApart DEF Carried, ItemsApart
<1>7. Fresh(db2, next2)
  <2> SUFFICES ASSUME NEW id \in MailsOf(db2) PROVE id < next2
    BY DEF Fresh
  <2>1. id \in MailIds /\ id \in Int
    BY <1>2 DEF MailsOf
  <2>2. id = next \/ id < next
    BY <1>1, <1>3, <2>1 DEF Fresh
  <2> QED
    BY <1>2, <2>1, <2>2
<1>8. CoinsApart(db2)
  <2>1. \A q, r \in Players : q # r => db2.money[q] \cap db2.money[r] = {}
    <3> SUFFICES ASSUME NEW q \in Players, NEW r \in Players, q # r
                 PROVE  db2.money[q] \cap db2.money[r] = {}
      OBVIOUS
    <3>1. db.money[q] \cap db.money[r] = {}
      BY <1>1 DEF CoinsApart
    <3> QED
      BY <1>5, <3>1
  <2>2. \A q \in Players, id \in MailsOf(db2) : db2.money[q] \cap db2.mail[id].money = {}
    <3> SUFFICES ASSUME NEW q \in Players, NEW id \in MailsOf(db2)
                 PROVE  db2.money[q] \cap db2.mail[id].money = {}
      OBVIOUS
    <3>1. CASE id = next
      <4>1. q # p => db.money[q] \cap db.money[p] = {}
        BY <1>1 DEF CoinsApart
      <4> QED
        BY <1>5, <3>1, <4>1
    <3>2. CASE id # next
      <4>1. id \in MailsOf(db)
        BY <1>3, <3>2 DEF MailsOf
      <4>2. db.money[q] \cap db.mail[id].money = {}
        BY <1>1, <4>1 DEF CoinsApart
      <4> QED
        BY <1>4, <1>5, <4>1, <4>2
    <3> QED
      BY <3>1, <3>2
  <2>3. \A id, o \in MailsOf(db2) : id # o => db2.mail[id].money \cap db2.mail[o].money = {}
    <3> SUFFICES ASSUME NEW id \in MailsOf(db2), NEW o \in MailsOf(db2), id # o
                 PROVE  db2.mail[id].money \cap db2.mail[o].money = {}
      OBVIOUS
    <3>1. ASSUME NEW x \in MailsOf(db) PROVE money \cap db2.mail[x].money = {}
      <4>1. db.money[p] \cap db.mail[x].money = {}
        BY <1>1 DEF CoinsApart
      <4> QED
        BY <1>4, <4>1
    <3>2. (id = next \/ id \in MailsOf(db)) /\ (o = next \/ o \in MailsOf(db))
      BY <1>3 DEF MailsOf
    <3>3. CASE id \in MailsOf(db) /\ o \in MailsOf(db)
      <4>1. db.mail[id].money \cap db.mail[o].money = {}
        BY <1>1, <3>3 DEF CoinsApart
      <4> QED
        BY <1>4, <3>3, <4>1
    <3>4. CASE id = next
      <4>1. o \in MailsOf(db)
        BY <3>2, <3>4
      <4> QED
        BY <1>5, <3>1, <3>4, <4>1
    <3>5. CASE o = next
      <4>1. id \in MailsOf(db)
        BY <3>2, <3>5
      <4> QED
        BY <1>5, <3>1, <3>5, <4>1
    <3> QED
      BY <3>2, <3>3, <3>4, <3>5
  <2> QED
    BY <2>1, <2>2, <2>3 DEF CoinsApart
<1>9. ItemsApart(db2)
  BY <1>1 DEF ItemsApart, Sends
<1>10. Attaches(db2)
  <2> SUFFICES ASSUME NEW i \in db2.instances, db2.mailItems[i] # NoMail
               PROVE  db2.mailItems[i] \in MailsOf(db2) /\ db2.mail[db2.mailItems[i]].has_items
    BY DEF Attaches
  <2>1. i \in Items /\ i \in db.instances
    BY DatabaseParts DEF Sends
  <2>2. CASE i \in items
    <3>1. db2.mailItems[i] = next /\ db2.mail[next] = row /\ row.has_items
      BY <2>1, <2>2 DEF Sends, Carries
    <3> QED
      BY <1>3, <2>2, <3>1
  <2>3. CASE i \notin items
    <3>1. db2.mailItems[i] = db.mailItems[i]
      BY <2>1, <2>3 DEF Sends
    <3>2. db.mailItems[i] \in MailsOf(db) /\ db.mail[db.mailItems[i]].has_items
      BY <1>1, <2>1, <3>1 DEF Attaches
    <3> QED
      BY <1>3, <1>4, <3>1, <3>2
  <2> QED
    BY <2>2, <2>3
<1>11. CoinsKept(db2, gone)
  <2> SUFFICES ASSUME NEW c \in Coins \ gone
               PROVE  \/ \E q \in Players : c \in db2.money[q]
                      \/ \E id \in MailsOf(db2) : c \in db2.mail[id].money
    BY DEF CoinsKept
  <2>1. CASE \E q \in Players : c \in db.money[q]
    <3>1. PICK q \in Players : c \in db.money[q]
      BY <2>1
    <3>2. CASE c \in money
      BY <1>3, <1>5, <3>2
    <3>3. CASE c \notin money
      BY <1>5, <3>1, <3>3
    <3> QED
      BY <3>2, <3>3
  <2>2. CASE \E id \in MailsOf(db) : c \in db.mail[id].money
    BY <1>3, <1>4, <2>2
  <2> QED
    BY <1>1, <2>1, <2>2 DEF CoinsKept
<1>12. ItemsKept(db2, gone)
  <2> SUFFICES ASSUME NEW i \in Items \ gone
               PROVE  i \in db2.instances /\ (db2.inventory[i] # Nobody \/ db2.mailItems[i] # NoMail)
    BY DEF ItemsKept
  <2>1. i \in db.instances /\ (db.inventory[i] # Nobody \/ db.mailItems[i] # NoMail)
    BY <1>1 DEF ItemsKept
  <2> QED
    BY <2>1, NoneApart DEF Sends
<1>13. PaidStep(db, db2)
  <2>1. \A i \in Items : db2.inventory[i] \in {db.inventory[i], Nobody}
    BY DEF Sends
  <2> QED
    BY <1>1, <2>1, NothingToPay
<1>14. ASSUME NEW id \in MailsOf(db) PROVE Same(db, db2, id)
  <2>1. ASSUME NEW i \in Items PROVE i \in Attached(db2, id) <=> i \in Attached(db, id)
    BY <1>4, <1>6, NoneApart DEF Attached, Sends
  <2>2. Attached(db2, id) \subseteq Items /\ Attached(db, id) \subseteq Items
    BY DatabaseParts DEF Attached
  <2> QED
    BY <1>4, <2>1, <2>2 DEF Same
<1>15. ASSUME NEW q \in Players, q # p PROVE Kept(db, db2, q)
  <2>1. ASSUME NEW i \in Items PROVE i \in Carried(db2, q) <=> i \in Carried(db, q)
    BY <1>6, <1>15, NoneApart DEF Carried, Sends
  <2>2. Carried(db2, q) \subseteq Items /\ Carried(db, q) \subseteq Items
    BY DatabaseParts DEF Carried
  <2>3. \A id \in Addressed(db, q) : Same(db, db2, id)
    BY <1>14 DEF Addressed
  <2> QED
    BY <1>5, <1>15, <2>1, <2>2, <2>3 DEF Kept
<1>16. Carried(db2, p) = Carried(db, p) \ items
  <2>1. ASSUME NEW i \in Items PROVE i \in Carried(db2, p) <=> i \in Carried(db, p) /\ i \notin items
    BY NoneApart DEF Carried, Sends
  <2>2. Carried(db2, p) \subseteq Items /\ Carried(db, p) \subseteq Items
    BY DatabaseParts DEF Carried
  <2> QED
    BY <2>1, <2>2
<1>17. Attached(db2, next) = items
  <2>1. ASSUME NEW i \in Items PROVE i \in Attached(db2, next) <=> i \in items
    <3>1. i \in db.instances => db.mailItems[i] # next
      BY <1>1, <1>2, NoneApart DEF Attaches
    <3> QED
      BY <1>6, <3>1 DEF Attached, Sends
  <2>2. Attached(db2, next) \subseteq Items
    BY DatabaseParts DEF Attached
  <2> QED
    BY <2>1, <2>2
<1> QED
  BY <1>7, <1>8, <1>9, <1>10, <1>11, <1>12, <1>13, <1>14, <1>15, <1>16, <1>17 DEF Sound

\* What a player in the world has is what the final database has.
LEMMA InWorld ==
    ASSUME IInv, NEW p \in Players, online[p] = "in", loading = Nobody
    PROVE  /\ m_money[p] = Final.money[p] /\ m_items[p] = Carried(Final, p)
           /\ MailboxOK(m_mail[p], p, Final, destroyed)
           /\ \A id \in MailIds : m_mail[p][id] # NoMail => m_mailsLoaded[p]
<1>1. /\ TypeOK /\ Final = Stages(database, asyncQueue)[Len(asyncQueue)]
      /\ PlayerOK(Stages(database, asyncQueue), Len(asyncQueue), p, online[p], m_money[p],
                  m_items[p], m_mailsLoaded[p], m_mail[p], Nobody, destroyed)
  BY FinalFacts DEF IInv, MemoryOK
<1>2. m_money[p] = Final.money[p] /\ m_items[p] = Carried(Final, p)
  BY <1>1 DEF PlayerOK
<1>3. MailboxOK(m_mail[p], p, Final, destroyed)
  BY <1>1, ListedMailbox, NoneApart
<1>4. \A id \in MailIds : m_mail[p][id] # NoMail => m_mailsLoaded[p]
  BY <1>1, NoneApart DEF PlayerOK, NoBox
<1> QED
  BY <1>2, <1>3, <1>4

\* Sending a mail.
LEMMA SendMailKeeps ==
    ASSUME IInv, NEW p \in Players, NEW q \in Players, NEW items \in SUBSET m_items[p],
           NEW money \in SUBSET m_money[p], NEW price \in 0 .. MaxCOD,
           HandleSendMail(p, q, items, money, price)
    PROVE  IInv'
<1>1. /\ TypeOK /\ online[p] = "in" /\ loading = Nobody /\ Final \in Databases
      /\ asyncQueue \in Seq(Elements)
  BY FinalFacts DEF IInv, HandleSendMail, Handles, TypeOK
<1>2. /\ m_money[p] = Final.money[p] /\ m_items[p] = Carried(Final, p)
      /\ Sound(Final, _mailId, destroyed)
  BY <1>1, InWorld, FinalSound
<1>3. items \in SUBSET Items /\ money \in SUBSET Coins
  BY <1>1 DEF TypeOK
<1>4. _mailId \in MailIds /\ _mailId' = _mailId + 1 /\ _mailId + 1 \in 1 .. MaxMails + 1
      /\ _mailId \in Int
  <2>1. /\ _mailId \in 1 .. MaxMails + 1 /\ MaxMails \in Nat
        /\ _mailId <= MaxMails /\ _mailId' = _mailId + 1
    BY <1>1, BoundAssumption DEF TypeOK, HandleSendMail
  <2> QED
    BY <2>1 DEF MailIds
<1>5. PICK next \in MailIds : next = _mailId
  BY <1>4
<1>6. PICK row \in Rows :
        /\ row = [sender |-> p, receiver |-> q, has_items |-> items # {}, money |-> money,
                  COD |-> IF items = {} THEN 0 ELSE price, checked |-> "NONE"]
        /\ Carries(row, money, items)
  <2>1. 0 \in 0 .. MaxCOD
    BY BoundAssumption
  <2>2. PICK cod \in 0 .. MaxCOD : cod = IF items = {} THEN 0 ELSE price
    BY <2>1
  <2>3. PICK has \in BOOLEAN : has = (items # {})
    OBVIOUS
  <2>4. [sender |-> p, receiver |-> q, has_items |-> has, money |-> money,
         COD |-> cod, checked |-> "NONE"] \in Rows
    BY <1>3 DEF Rows, Checks
  <2> QED
    BY <2>2, <2>3, <2>4 DEF Carries
<1>7. PICK t \in Seq(Statements) :
        /\ t = SendStatements(items, next, row, p, m_money[p] \ money)
        /\ Committed(Final, t) \in Databases
        /\ Sends(Final, Committed(Final, t), p, items, money, next, row)
  BY <1>1, <1>2, <1>3, SendEffect
<1>8. PICK db2 \in Databases : db2 = Committed(Final, t)
  BY <1>7
<1>9. /\ Sound(db2, _mailId', destroyed) /\ PaidStep(Final, db2)
      /\ \A r \in Players : r # p => Kept(Final, db2, r)
      /\ Carried(db2, p) = Carried(Final, p) \ items
      /\ \A id \in MailsOf(Final) : Same(Final, db2, id)
      /\ Attached(db2, next) = items
  <2>1. /\ Final \in Databases /\ db2 \in Databases /\ p \in Players
        /\ items \in SUBSET Items /\ money \in SUBSET Coins
        /\ next \in MailIds /\ row \in Rows
    BY <1>1, <1>3
  <2>2. /\ Sound(Final, next, destroyed) /\ Sends(Final, db2, p, items, money, next, row)
        /\ _mailId' = next + 1
    BY <1>2, <1>4, <1>5, <1>7, <1>8
  <2>3. items \subseteq Carried(Final, p) /\ money \subseteq Final.money[p]
    BY <1>2
  <2>4. Carries(row, money, items)
    BY <1>6
  <2>5. Sending(Final, db2, p, items, money, next, _mailId', row, destroyed)
    BY <2>1, <2>2, <2>3, <2>4 DEF Sending
  <2> QED
    BY ONLY <2>1, <2>5, SendSound
<1>10. /\ m_money' = [m_money EXCEPT ![p] = @ \ money]
       /\ m_items' = [m_items EXCEPT ![p] = @ \ items]
       /\ m_mail' = Delivered(m_mail, next, row, items)
       /\ asyncQueue' = Append(asyncQueue, Queued(t))
       /\ database' = database /\ online' = online /\ m_mailsLoaded' = m_mailsLoaded
       /\ loading' = Nobody /\ destroyed' = destroyed
  BY <1>1, <1>5, <1>6, <1>7 DEF HandleSendMail, SendStatements
<1>11. m_mail \in [Players -> Boxes]
  BY <1>1 DEF TypeOK, Boxes
<1>12. TypeOK'
  <2>1. m_mail' \in [Players -> Boxes]
    BY <1>3, <1>10, <1>11, DeliveredParts
  <2>2. asyncQueue' \in Seq(Elements)
    <3>1. PICK e \in Elements : e = Queued(t)
      BY QueuedElement
    <3>2. Append(asyncQueue, e) \in Seq(Elements)
      BY <1>1
    <3> QED
      BY <1>10, <3>1, <3>2
  <2>3. m_money' \in [Players -> SUBSET Coins] /\ m_items' \in [Players -> SUBSET Items]
    BY <1>1, <1>3, <1>10 DEF TypeOK
  <2> QED
    BY <1>1, <1>4, <1>10, <2>1, <2>2, <2>3 DEF TypeOK, Boxes
<1>13. /\ m_money'[p] = db2.money[p] /\ m_items'[p] = Carried(db2, p)
       /\ \A r \in Players : r # p => Untouched(r, m_mail)
  BY <1>1, <1>2, <1>7, <1>8, <1>9, <1>10 DEF Sends, Untouched, TypeOK
<1>14. Delivers(m_mail, db2)
  BY <1>3, <1>7, <1>8, <1>9, <1>10 DEF Delivers, Sends
<1>15. Sound(db2, _mailId', destroyed) /\ _mailId <= _mailId'
  BY <1>4, <1>5, <1>9
<1>16. \A id \in Addressed(Final, p) : Same(Final, db2, id)
  BY <1>9 DEF Addressed
<1>17. \A r \in Players : r # p => Kept(Final, db2, r) /\ Untouched(r, m_mail)
  BY <1>9, <1>13
<1> QED
  BY <1>1, <1>8, <1>9, <1>10, <1>11, <1>12, <1>13, <1>14, <1>15, <1>16, <1>17,
     TransactionKeeps

-----------------------------------------------------------------------------
(* The handlers which save the mailbox.                                    *)

Saving(db, db2, p, a, b, id0, taken, paid, ti, next, next2, row, gone) ==
    /\ db \in Databases /\ db2 \in Databases /\ a \in Boxes /\ b \in Boxes
    /\ ti \in SUBSET Items /\ next \in Nat
    /\ MailboxOK(a, p, db, gone) /\ Touched(a, b, id0, taken, ti)
    /\ Sound(db, next, gone)
    /\ Saves(db, db2, p, b, taken, paid, ti, next, row)
    /\ paid \subseteq db.money[p] /\ Payment(next, row, next2, paid)

\* What the saving of a mailbox does to the database and to each player.
LEMMA SavedStep ==
    ASSUME NEW p \in Players, NEW db, NEW db2, NEW a, NEW b, NEW id0, NEW taken, NEW paid,
           NEW ti, NEW next, NEW next2, NEW row, NEW gone,
           Saving(db, db2, p, a, b, id0, taken, paid, ti, next, next2, row, gone)
    PROVE  /\ Sound(db2, next2, gone)
           /\ \A q \in Players : q # p => Kept(db, db2, q)
           /\ Carried(db2, p) = Carried(db, p) \cup ti
           /\ MailboxOK(Saved(b), p, db2, gone)
           /\ ti = {} => PaidStep(db, db2) /\ Carried(db2, p) = Carried(db, p)
<1>1. /\ db \in Databases /\ db2 \in Databases /\ a \in Boxes /\ b \in Boxes
      /\ ti \in SUBSET Items /\ next \in Nat
  BY DEF Saving
<1>2. /\ MailboxOK(a, p, db, gone) /\ Touched(a, b, id0, taken, ti)
      /\ Sound(db, next, gone)
      /\ Saves(db, db2, p, b, taken, paid, ti, next, row)
      /\ paid \subseteq db.money[p] /\ Payment(next, row, next2, paid)
  BY DEF Saving
<1>3. ItemsApart(db)
  BY <1>2 DEF Sound
<1>4. \A i \in ti : db.inventory[i] = Nobody
  <2> SUFFICES ASSUME NEW i \in ti PROVE db.inventory[i] = Nobody
    OBVIOUS
  <2>1. id0 \in MailIds /\ a[id0] # NoMail /\ i \in a[id0].items
    BY <1>2 DEF Touched, Touches
  <2>2. i \in Attached(db, id0)
    BY <1>2, <2>1 DEF MailboxOK, MailOK
  <2>3. i \in Items /\ db.mailItems[i] # NoMail
    BY <1>1, <2>1, <2>2, NoneApart DEF Attached
  <2> QED
    BY <1>3, <2>3 DEF ItemsApart
<1>5. Sound(db2, next2, gone)
  BY <1>1, <1>2, SavedSound
<1>6. ASSUME NEW q \in Players, q # p PROVE Kept(db, db2, q)
  BY <1>1, <1>2, <1>4, <1>6, SavedForOthers
<1>7. MailboxOK(Saved(b), p, db2, gone) /\ Carried(db2, p) = Carried(db, p) \cup ti
  BY <1>1, <1>2, <1>4, SavedForPlayer
<1>8. ti = {} => PaidStep(db, db2)
  <2> SUFFICES ASSUME ti = {} PROVE PaidStep(db, db2)
    OBVIOUS
  <2>1. \A i \in Items : db2.inventory[i] \in {db.inventory[i], Nobody}
    BY <1>2 DEF Saves
  <2> QED
    BY <1>1, <1>3, <2>1, NothingToPay
<1>9. ti = {} => Carried(db2, p) = Carried(db, p)
  BY <1>7
<1> QED
  BY <1>5, <1>6, <1>7, <1>8, <1>9

MoneyAndBox(db, db2, p, money, b) ==
    /\ db2 \in Databases
    /\ db2.money[p] = money
    /\ \A q \in Players : q # p => db2.money[q] = db.money[q]
    /\ db2.inventory = db.inventory
    /\ \A id \in MailIds : RowSaved(b[id], db.mail[id], db2.mail[id])
    /\ BoxSaved(b, db, db2)

\* What HandleMailTakeMoney and Logout queue: money and mailbox, in either order.
LEMMA MoneyAndBoxSaved ==
    ASSUME NEW db \in Databases, NEW p \in Players, NEW money \in SUBSET Coins,
           NEW b \in Boxes
    PROVE  /\ \E t \in Seq(Statements) : /\ t = SaveGoldToDB(p, money) \o _SaveMail(b)
                                          /\ MoneyAndBox(db, Committed(db, t), p, money, b)
           /\ \E t \in Seq(Statements) : /\ t = _SaveMail(b) \o SaveGoldToDB(p, money)
                                          /\ MoneyAndBox(db, Committed(db, t), p, money, b)
<1>1. PICK x \in Seq(Statements), y \in Seq(Statements) :
        x = SaveGoldToDB(p, money) /\ y = _SaveMail(b)
  BY MoneyIsSaved, BoxIsSaved
<1>2. ASSUME NEW d \in Databases
      PROVE  LET e == Committed(d, x)
             IN /\ e \in Databases
                /\ e.money[p] = money
                /\ \A q \in Players : q # p => e.money[q] = d.money[q]
                /\ e.inventory = d.inventory /\ e.instances = d.instances
                /\ e.mail = d.mail /\ e.mailItems = d.mailItems
  BY <1>1, MoneyIsSaved
<1>3. ASSUME NEW d \in Databases
      PROVE  LET e == Committed(d, y)
             IN /\ e \in Databases
                /\ \A id \in MailIds : RowSaved(b[id], d.mail[id], e.mail[id])
                /\ BoxSaved(b, d, e)
                /\ e.money = d.money /\ e.inventory = d.inventory
  BY <1>1, BoxIsSaved DEF BoxSaved
<1>4. PICK t \in Seq(Statements) : t = x \o y /\ Committed(db, t) = Committed(Committed(db, x), y)
  <2>1. x \o y \in Seq(Statements)
    OBVIOUS
  <2> QED
    BY <2>1, CommittedConcat
<1>5. PICK u \in Seq(Statements) : u = y \o x /\ Committed(db, u) = Committed(Committed(db, y), x)
  <2>1. y \o x \in Seq(Statements)
    OBVIOUS
  <2> QED
    BY <2>1, CommittedConcat
<1>6. MoneyAndBox(db, Committed(db, t), p, money, b)
  <2>1. PICK d \in Databases : /\ d = Committed(db, x) /\ d.money[p] = money
                               /\ \A q \in Players : q # p => d.money[q] = db.money[q]
                               /\ d.inventory = db.inventory /\ d.instances = db.instances
                               /\ d.mail = db.mail /\ d.mailItems = db.mailItems
    BY <1>2
  <2>2. PICK e \in Databases : /\ e = Committed(d, y)
                               /\ \A id \in MailIds : RowSaved(b[id], d.mail[id], e.mail[id])
                               /\ BoxSaved(b, d, e)
                               /\ e.money = d.money /\ e.inventory = d.inventory
    BY <1>3
  <2>3. BoxSaved(b, db, e)
    BY <2>1, <2>2 DEF BoxSaved
  <2> QED
    BY <1>4, <2>1, <2>2, <2>3 DEF MoneyAndBox
<1>7. MoneyAndBox(db, Committed(db, u), p, money, b)
  <2>1. PICK d \in Databases : /\ d = Committed(db, y)
                               /\ \A id \in MailIds : RowSaved(b[id], db.mail[id], d.mail[id])
                               /\ BoxSaved(b, db, d)
                               /\ d.money = db.money /\ d.inventory = db.inventory
    BY <1>3
  <2>2. PICK e \in Databases : /\ e = Committed(d, x) /\ e.money[p] = money
                               /\ \A q \in Players : q # p => e.money[q] = d.money[q]
                               /\ e.inventory = d.inventory /\ e.instances = d.instances
                               /\ e.mail = d.mail /\ e.mailItems = d.mailItems
    BY <1>2
  <2>3. BoxSaved(b, db, e)
    BY <2>1, <2>2 DEF BoxSaved
  <2> QED
    BY <1>5, <2>1, <2>2, <2>3 DEF MoneyAndBox
<1>8. t = SaveGoldToDB(p, money) \o _SaveMail(b) /\ u = _SaveMail(b) \o SaveGoldToDB(p, money)
  BY <1>1, <1>4, <1>5
<1> QED
  BY <1>6, <1>7, <1>8

\* A mailbox out of which the money of a mail was taken.
LEMMA MoneyTakenParts ==
    ASSUME NEW a \in Boxes, NEW id \in MailIds, a[id] # NoMail
    PROVE  /\ MoneyTaken(a, id) \in Boxes
           /\ \A o \in MailIds : o # id => MoneyTaken(a, id)[o] = a[o]
           /\ LET m == MoneyTaken(a, id)[id]
              IN /\ m # NoMail /\ m.sender = a[id].sender /\ m.money = {}
                 /\ m.items = a[id].items
                 /\ m.removedItems = a[id].removedItems /\ m.state = "CHANGED"
<1>1. PICK m \in Mails : m = a[id]
  BY DEF Boxes
<1>2. PICK m2 : m2 = [m EXCEPT !.money = {}, !.state = "CHANGED"]
  OBVIOUS
<1>3. /\ m2 \in Mails /\ m2.sender = m.sender /\ m2.money = {} /\ m2.items = m.items
      /\ m2.removedItems = m.removedItems /\ m2.state = "CHANGED"
  BY <1>2 DEF Mails
<1>4. MoneyTaken(a, id) = [a EXCEPT ![id] = m2]
  BY <1>1, <1>2 DEF MoneyTaken, Boxes
<1> QED
  BY <1>1, <1>3, <1>4, NoneApart DEF Boxes

\* Taking the money of a mail.
LEMMA TakeMoneyKeeps ==
    ASSUME IInv, NEW p \in Players, NEW id \in MailIds, HandleMailTakeMoney(p, id)
    PROVE  IInv'
<1>1. /\ TypeOK /\ online[p] = "in" /\ loading = Nobody /\ Final \in Databases
      /\ asyncQueue \in Seq(Elements) /\ _mailId \in Nat
      /\ m_mail \in [Players -> Boxes]
  BY FinalFacts DEF IInv, HandleMailTakeMoney, Handles, TypeOK, Boxes
<1>2. PICK a \in Boxes : a = m_mail[p]
  BY <1>1
<1>3. /\ m_money[p] = Final.money[p] /\ m_items[p] = Carried(Final, p)
      /\ MailboxOK(a, p, Final, destroyed) /\ Sound(Final, _mailId, destroyed)
      /\ \A o \in MailIds : a[o] # NoMail => m_mailsLoaded[p]
  BY <1>1, <1>2, InWorld, FinalSound
<1>4. a[id] # NoMail /\ a[id].state # "DELETED" /\ a[id] \in Mails /\ m_mailsLoaded[p]
  BY <1>2, <1>3 DEF HandleMailTakeMoney, Live, Has, Boxes
<1>5. PICK b \in Boxes : b = MoneyTaken(a, id)
  BY <1>4, MoneyTakenParts
<1>6. PICK taken \in SUBSET Coins : taken = a[id].money
  BY <1>4 DEF Mails
<1>7. Touched(a, b, id, taken, {})
  <2>1. a[id].removedItems = {}
    BY <1>3, <1>4 DEF MailboxOK, MailOK
  <2>2. /\ \A o \in MailIds : o # id => b[o] = a[o]
        /\ b[id] # NoMail /\ b[id].sender = a[id].sender /\ b[id].money = {}
        /\ b[id].items = a[id].items /\ b[id].removedItems = a[id].removedItems
        /\ b[id].state = "CHANGED"
    BY <1>4, <1>5, MoneyTakenParts
  <2>3. Touches(a[id], b[id], taken, {})
    BY <1>4, <1>6, <2>1, <2>2 DEF Touches
  <2> QED
    BY <2>2, <2>3 DEF Touched
<1>8. PICK money \in SUBSET Coins : money = m_money[p] \cup taken
  BY <1>1, <1>6 DEF TypeOK
<1>9. PICK t \in Seq(Statements) : /\ t = SaveGoldToDB(p, money) \o _SaveMail(b)
                                   /\ MoneyAndBox(Final, Committed(Final, t), p, money, b)
  BY <1>1, MoneyAndBoxSaved
<1>10. PICK db2 \in Databases : db2 = Committed(Final, t)
  BY <1>9 DEF MoneyAndBox
<1>11. Saving(Final, db2, p, a, b, id, taken, {}, {}, _mailId, _mailId, NoMail, destroyed)
  <2>1. _mailId \in MailIds => db2.mail[_mailId] = NoMail
    <3> SUFFICES ASSUME _mailId \in MailIds PROVE db2.mail[_mailId] = NoMail
      OBVIOUS
    <3>1. _mailId \notin MailsOf(Final)
      <4>1. ~(_mailId < _mailId)
        BY <1>1
      <4> QED
        BY <1>3, <4>1 DEF Sound, Fresh
    <3>2. Final.mail[_mailId] = NoMail
      BY <3>1 DEF MailsOf
    <3>3. a[_mailId] = NoMail
      BY <1>3, <3>1 DEF MailboxOK, MailOK, Addressed
    <3>4. b[_mailId] = NoMail
      BY <1>7, <3>3 DEF Touched, Touches
    <3>5. RowSaved(b[_mailId], Final.mail[_mailId], db2.mail[_mailId])
      BY <1>9, <1>10 DEF MoneyAndBox
    <3> QED
      BY <3>2, <3>4, <3>5 DEF RowSaved
  <2>2. Saves(Final, db2, p, b, taken, {}, {}, _mailId, NoMail)
    BY <1>3, <1>8, <1>9, <1>10, <2>1 DEF Saves, MoneyAndBox
  <2>3. Payment(_mailId, NoMail, _mailId, {})
    BY DEF Payment
  <2> QED
    BY <1>1, <1>3, <1>7, <2>2, <2>3 DEF Saving
<1>12. /\ Sound(db2, _mailId, destroyed)
       /\ \A q \in Players : q # p => Kept(Final, db2, q)
       /\ Carried(db2, p) = Carried(Final, p)
       /\ MailboxOK(Saved(b), p, db2, destroyed)
       /\ PaidStep(Final, db2)
  BY <1>11, SavedStep
<1>13. PICK boxes \in [Players -> Boxes] :
        boxes = [m_mail EXCEPT ![p] = Saved(b)] /\ boxes[p] = Saved(b)
  <2>1. PICK s \in Boxes : s = Saved(b)
    BY SavedType
  <2>2. [m_mail EXCEPT ![p] = s] \in [Players -> Boxes] /\ [m_mail EXCEPT ![p] = s][p] = s
    BY <1>1
  <2> QED
    BY ONLY <2>1, <2>2
<1>14. /\ m_money' = [m_money EXCEPT ![p] = money] /\ m_items' = m_items
       /\ m_mail' = boxes
       /\ asyncQueue' = Append(asyncQueue, Queued(t))
       /\ database' = database /\ online' = online /\ m_mailsLoaded' = m_mailsLoaded
       /\ loading' = Nobody /\ destroyed' = destroyed /\ _mailId' = _mailId
  BY <1>1, <1>2, <1>5, <1>6, <1>8, <1>9, <1>13 DEF HandleMailTakeMoney
<1>15. TypeOK'
  <2>1. asyncQueue' \in Seq(Elements)
    <3>1. PICK e \in Elements : e = Queued(t)
      BY QueuedElement
    <3>2. Append(asyncQueue, e) \in Seq(Elements)
      BY <1>1
    <3> QED
      BY <1>14, <3>1, <3>2
  <2> QED
    BY <1>1, <1>14, <2>1 DEF TypeOK, Boxes
<1>16. /\ m_money'[p] = db2.money[p] /\ m_items'[p] = Carried(db2, p)
       /\ \A q \in Players : q # p => Kept(Final, db2, q) /\ Untouched(q, boxes)
  BY <1>1, <1>3, <1>9, <1>10, <1>12, <1>13, <1>14 DEF Untouched, TypeOK, MoneyAndBox
<1>17. Sound(db2, _mailId', destroyed) /\ _mailId <= _mailId'
  BY <1>1, <1>12, <1>14
<1>18. m_mailsLoaded[p] /\ MailboxOK(boxes[p], p, db2, destroyed)
  BY <1>4, <1>12, <1>13
<1> QED
  BY <1>1, <1>10, <1>12, <1>14, <1>15, <1>16, <1>17, <1>18, TransactionKeeps

ItemOut(a, id, item) ==
    [a EXCEPT ![id].items = @ \ {item}, ![id].removedItems = @ \cup {item},
              ![id].COD = 0, ![id].state = "CHANGED"]

\* A mailbox out of which an item of a mail was taken.
LEMMA ItemOutParts ==
    ASSUME NEW a \in Boxes, NEW id \in MailIds, a[id] # NoMail, NEW item \in Items
    PROVE  /\ ItemOut(a, id, item) \in Boxes
           /\ \A o \in MailIds : o # id => ItemOut(a, id, item)[o] = a[o]
           /\ LET m == ItemOut(a, id, item)[id]
              IN /\ m # NoMail /\ m.sender = a[id].sender /\ m.money = a[id].money
                 /\ m.items = a[id].items \ {item}
                 /\ m.removedItems = a[id].removedItems \cup {item} /\ m.state = "CHANGED"
<1>1. PICK m \in Mails : m = a[id]
  BY DEF Boxes
<1>2. PICK m2 : m2 = [m EXCEPT !.items = m.items \ {item},
                               !.removedItems = m.removedItems \cup {item},
                               !.COD = 0, !.state = "CHANGED"]
  OBVIOUS
<1>3. /\ m2 \in Mails /\ m2.sender = m.sender /\ m2.money = m.money
      /\ m2.items = m.items \ {item}
      /\ m2.removedItems = m.removedItems \cup {item} /\ m2.state = "CHANGED"
  <2>1. 0 \in 0 .. MaxCOD
    BY BoundAssumption
  <2> QED
    BY <1>2, <2>1 DEF Mails
<1>4. ItemOut(a, id, item) = [a EXCEPT ![id] = m2]
  BY <1>1, <1>2 DEF ItemOut, Boxes
<1> QED
  BY <1>1, <1>3, <1>4, NoneApart DEF Boxes

\* What HandleMailTakeItem queues after the payment.
ItemStatements(p, item, money, b) ==
    <<[stmt |-> "REP_INVENTORY_ITEM", player |-> p, item |-> item]>>
    \o SaveGoldToDB(p, money) \o _SaveMail(b)

ItemGiven(db, db2, p, item, money, b) ==
    /\ db2 \in Databases
    /\ \A i \in Items : db2.inventory[i] = IF i = item THEN p ELSE db.inventory[i]
    /\ db2.money[p] = money
    /\ \A q \in Players : q # p => db2.money[q] = db.money[q]
    /\ \A id \in MailIds : RowSaved(b[id], db.mail[id], db2.mail[id])
    /\ BoxSaved(b, db, db2)

\* The statements that save an item, the purse and the mailbox.
LEMMA ItemAndBoxSaved ==
    ASSUME NEW db \in Databases, NEW p \in Players, NEW item \in Items,
           NEW money \in SUBSET Coins, NEW b \in Boxes
    PROVE  \E t \in Seq(Statements) : /\ t = ItemStatements(p, item, money, b)
                                     /\ ItemGiven(db, Committed(db, t), p, item, money, b)
<1>1. PICK s : s = [stmt |-> "REP_INVENTORY_ITEM", player |-> p, item |-> item]
  OBVIOUS
<1>2. s \in Statements /\ s.stmt = "REP_INVENTORY_ITEM" /\ s.item = item /\ s.player = p
  BY <1>1 DEF Statements
<1>3. PICK v \in Seq(Statements), x \in Seq(Statements), y \in Seq(Statements) :
        v = <<s>> /\ x = SaveGoldToDB(p, money) /\ y = _SaveMail(b)
  <2>1. <<s>> \in Seq(Statements)
    BY <1>2
  <2> QED
    BY <2>1, MoneyIsSaved, BoxIsSaved
<1>4. PICK d1 \in Databases :
        /\ d1 = Committed(db, v)
        /\ d1.inventory[item] = p
        /\ \A i \in Items : i # item => d1.inventory[i] = db.inventory[i]
        /\ d1.money = db.money /\ d1.instances = db.instances
        /\ d1.mail = db.mail /\ d1.mailItems = db.mailItems
  BY <1>2, <1>3, CommittedOne, ExecuteGiveItem
<1>5. PICK d2 \in Databases :
        /\ d2 = Committed(d1, x)
        /\ d2.money[p] = money
        /\ \A q \in Players : q # p => d2.money[q] = d1.money[q]
        /\ d2.inventory = d1.inventory /\ d2.instances = d1.instances
        /\ d2.mail = d1.mail /\ d2.mailItems = d1.mailItems
  BY <1>3, MoneyIsSaved
<1>6. PICK d3 \in Databases :
        /\ d3 = Committed(d2, y)
        /\ \A id \in MailIds : RowSaved(b[id], d2.mail[id], d3.mail[id])
        /\ BoxSaved(b, d2, d3)
        /\ d3.money = d2.money /\ d3.inventory = d2.inventory
  BY <1>3, BoxIsSaved DEF BoxSaved
<1>7. PICK t \in Seq(Statements) : t = (v \o x) \o y /\ Committed(db, t) = d3
  <2>1. /\ (v \o x) \o y \in Seq(Statements)
        /\ Committed(db, (v \o x) \o y) = Committed(Committed(Committed(db, v), x), y)
    BY CommittedThree
  <2>2. d3 = Committed(Committed(Committed(db, v), x), y)
    BY <1>4, <1>5, <1>6
  <2> QED
    BY ONLY <2>1, <2>2
<1>8. BoxSaved(b, db, d3)
  BY <1>4, <1>5, <1>6 DEF BoxSaved
<1>9. t = ItemStatements(p, item, money, b)
  BY <1>1, <1>3, <1>7 DEF ItemStatements
<1>10. ItemGiven(db, d3, p, item, money, b)
  BY <1>4, <1>5, <1>6, <1>8 DEF ItemGiven
<1> QED
  BY <1>7, <1>9, <1>10

\* With the payment, if there is one.
Pays(db, db2, p, item, money, b, next, row) ==
    /\ db2 \in Databases
    /\ \A i \in Items : db2.inventory[i] = IF i = item THEN p ELSE db.inventory[i]
    /\ db2.money[p] = money
    /\ \A q \in Players : q # p => db2.money[q] = db.money[q]
    /\ \A id \in MailIds : id # next => RowSaved(b[id], db.mail[id], db2.mail[id])
    /\ next \in MailIds => RowSaved(b[next], row, db2.mail[next])
    /\ BoxSaved(b, db, db2)

PaysWith(db, pays, next, row) ==
    \/ pays /\ next \in MailIds /\ row \in Rows
    \/ ~pays /\ (next \in MailIds => db.mail[next] = row)

\* The transaction of a taken item, with the payment or without it.
LEMMA TakeItemEffect ==
    ASSUME NEW db \in Databases, NEW p \in Players, NEW item \in Items,
           NEW money \in SUBSET Coins, NEW b \in Boxes, NEW next, NEW row,
           NEW pays \in BOOLEAN, PaysWith(db, pays, next, row)
    PROVE  \E t \in Seq(Statements) :
              /\ t = (IF pays THEN SendMailTo(next, row, {}) ELSE <<>>)
                     \o ItemStatements(p, item, money, b)
              /\ Pays(db, Committed(db, t), p, item, money, b, next, row)
<1>1. PICK pay \in Seq(Statements) :
        /\ pay = IF pays THEN SendMailTo(next, row, {}) ELSE <<>>
        /\ Committed(db, pay) \in Databases
        /\ next \in MailIds => Committed(db, pay).mail[next] = row
        /\ \A o \in MailIds : o # next => Committed(db, pay).mail[o] = db.mail[o]
        /\ \A i \in Items : Committed(db, pay).mailItems[i] = db.mailItems[i]
        /\ Committed(db, pay).money = db.money
        /\ Committed(db, pay).inventory = db.inventory
        /\ Committed(db, pay).instances = db.instances
  <2>1. CASE pays
    <3>1. PICK none \in SUBSET Items : none = {}
      OBVIOUS
    <3>2. next \in MailIds /\ row \in Rows
      BY <2>1 DEF PaysWith
    <3>3. PICK u \in Seq(Statements) :
            /\ u = SendMailTo(next, row, none)
            /\ Committed(db, u) \in Databases
            /\ Committed(db, u).mail[next] = row
            /\ \A o \in MailIds : o # next => Committed(db, u).mail[o] = db.mail[o]
            /\ \A i \in Items :
                    Committed(db, u).mailItems[i] = IF i \in none THEN next ELSE db.mailItems[i]
            /\ Committed(db, u).money = db.money
            /\ Committed(db, u).inventory = db.inventory
            /\ Committed(db, u).instances = db.instances
      BY <3>2, MailIsSent
    <3> QED
      BY <2>1, <3>1, <3>3
  <2>2. CASE ~pays
    <3>1. <<>> \in Seq(Statements) /\ Committed(db, <<>>) = db
      BY CommittedNone
    <3> QED
      BY <2>2, <3>1 DEF PaysWith
  <2> QED
    BY <2>1, <2>2
<1>2. PICK d1 \in Databases :
        /\ d1 = Committed(db, pay)
        /\ next \in MailIds => d1.mail[next] = row
        /\ \A o \in MailIds : o # next => d1.mail[o] = db.mail[o]
        /\ \A i \in Items : d1.mailItems[i] = db.mailItems[i]
        /\ d1.money = db.money /\ d1.inventory = db.inventory /\ d1.instances = db.instances
  BY <1>1
<1>3. PICK saved \in Seq(Statements) : /\ saved = ItemStatements(p, item, money, b)
                                       /\ ItemGiven(d1, Committed(d1, saved), p, item, money, b)
  BY ItemAndBoxSaved
<1>4. PICK d2 \in Databases : d2 = Committed(d1, saved)
  BY <1>3 DEF ItemGiven
<1>5. PICK t \in Seq(Statements) : t = pay \o saved /\ Committed(db, t) = d2
  <2>1. pay \o saved \in Seq(Statements)
    OBVIOUS
  <2>2. Committed(db, pay \o saved) = Committed(Committed(db, pay), saved)
    BY CommittedConcat
  <2> QED
    BY <1>2, <1>4, <2>1, <2>2
<1>6. BoxSaved(b, db, d2)
  BY <1>2, <1>3, <1>4 DEF BoxSaved, ItemGiven
<1>7. Pays(db, d2, p, item, money, b, next, row)
  BY <1>2, <1>3, <1>4, <1>6 DEF Pays, ItemGiven
<1> QED
  BY <1>1, <1>3, <1>5, <1>7

\* Taking an item pays for it.
LEMMA ItemIsPaid ==
    ASSUME NEW db \in Databases, NEW db2, NEW p \in Players, NEW item \in Items,
           NEW id \in MailIds, NEW next, NEW row, NEW paid, NEW cod,
           ItemsApart(db), item \in Attached(db, id), db.mail[id] # NoMail,
           db.mail[id].COD = cod,
           \A i \in Items : db2.inventory[i] = IF i = item THEN p ELSE db.inventory[i],
           cod > 0 => /\ next \in MailIds /\ db.mail[next] = NoMail
                      /\ db2.mail[next] = row /\ row \in Rows
                      /\ row.receiver = db.mail[id].sender /\ row.money = paid
                      /\ Cardinality(paid) = cod
    PROVE  PaidStep(db, db2)
<1> SUFFICES ASSUME NEW i \in Items, NEW o \in MailsOf(db), db.mailItems[i] = o,
                    db.mail[o].COD > 0, db2.inventory[i] = db.mail[o].receiver
             PROVE  \E pay \in MailIds :
                        /\ db.mail[pay] = NoMail
                        /\ db2.mail[pay] # NoMail
                        /\ db2.mail[pay].receiver = db.mail[o].sender
                        /\ Cardinality(db2.mail[pay].money) = db.mail[o].COD
  BY DEF PaidStep
<1>1. o # NoMail /\ db.mail[o].receiver \in Players
  BY NoneApart, DatabaseParts DEF Rows
<1>2. db.inventory[i] = Nobody
  BY <1>1 DEF ItemsApart
<1>3. i = item
  BY <1>1, <1>2, NoneApart
<1>4. o = id
  BY <1>3 DEF Attached
<1>5. /\ next \in MailIds /\ db.mail[next] = NoMail
      /\ db2.mail[next] = row /\ row \in Rows
      /\ row.receiver = db.mail[id].sender /\ row.money = paid
      /\ Cardinality(paid) = cod
  BY <1>4
<1> QED
  BY <1>4, <1>5, NoneApart

\* Taking an item of a mail.
LEMMA TakeItemKeeps ==
    ASSUME IInv, NEW p \in Players, NEW id \in MailIds, NEW item \in Items,
           NEW paid \in SUBSET m_money[p], HandleMailTakeItem(p, id, item, paid)
    PROVE  IInv'
<1>1. /\ TypeOK /\ online[p] = "in" /\ loading = Nobody /\ Final \in Databases
      /\ asyncQueue \in Seq(Elements) /\ _mailId \in Nat /\ _mailId \in 1 .. MaxMails + 1
      /\ m_mail \in [Players -> Boxes]
  BY FinalFacts DEF IInv, HandleMailTakeItem, Handles, TypeOK, Boxes
<1>2. PICK a \in Boxes : a = m_mail[p]
  BY <1>1
<1>3. /\ m_money[p] = Final.money[p] /\ m_items[p] = Carried(Final, p)
      /\ MailboxOK(a, p, Final, destroyed) /\ Sound(Final, _mailId, destroyed)
      /\ \A o \in MailIds : a[o] # NoMail => m_mailsLoaded[p]
  BY <1>1, <1>2, InWorld, FinalSound
<1>4. a[id] # NoMail /\ a[id].state # "DELETED" /\ m_mailsLoaded[p]
  BY <1>2, <1>3 DEF HandleMailTakeItem, Live, Has
<1>5. PICK m \in Mails : m = a[id]
  BY <1>4 DEF Boxes
<1>6. /\ m.sender \in Players /\ m.COD \in 0 .. MaxCOD /\ m.items \in SUBSET Items
      /\ item \in m.items /\ Cardinality(paid) = m.COD /\ (m.COD > 0 => _mailId <= MaxMails)
      /\ MaxCOD \in Nat /\ MaxMails \in Nat
  BY <1>2, <1>5, BoundAssumption DEF HandleMailTakeItem, Mails
<1>7. PICK b \in Boxes : b = ItemOut(a, id, item)
  BY <1>4, ItemOutParts
<1>8. PICK money \in SUBSET Coins : money = m_money[p] \ paid
  BY <1>1 DEF TypeOK
<1>9. paid \in SUBSET Coins /\ paid \subseteq Final.money[p] /\ 0 \in 0 .. MaxCOD
  BY <1>1, <1>3, <1>6 DEF TypeOK
<1>10. m.COD = 0 => paid = {}
  BY <1>6, <1>9, FiniteAssumption, FS_Subset, FS_EmptySet
<1>11. PICK row \in Rows :
        /\ row = [sender |-> p, receiver |-> m.sender, has_items |-> FALSE, money |-> paid,
                  COD |-> 0, checked |-> "COD_PAYMENT"]
        /\ row.receiver = m.sender /\ row.money = paid /\ row.has_items = FALSE
  <2>1. [sender |-> p, receiver |-> m.sender, has_items |-> FALSE, money |-> paid,
         COD |-> 0, checked |-> "COD_PAYMENT"] \in Rows
    BY <1>6, <1>9 DEF Rows, Checks
  <2> QED
    BY <2>1
<1>12. PICK pays \in BOOLEAN : pays <=> m.COD > 0
  <2>1. (m.COD > 0) \in BOOLEAN
    OBVIOUS
  <2> QED
    BY <2>1
<1>13. PICK new : new = IF pays THEN row ELSE NoMail
  OBVIOUS
<1>14. pays => _mailId \in MailIds /\ new \in Rows /\ new = row
  BY <1>1, <1>6, <1>12, <1>13 DEF MailIds
<1>15. ~pays => m.COD = 0 /\ new = NoMail
  BY <1>6, <1>12, <1>13
<1>16. _mailId \in MailIds => Final.mail[_mailId] = NoMail /\ a[_mailId] = NoMail /\ _mailId # id
  <2> SUFFICES ASSUME _mailId \in MailIds
               PROVE  Final.mail[_mailId] = NoMail /\ a[_mailId] = NoMail /\ _mailId # id
    OBVIOUS
  <2>1. _mailId \notin MailsOf(Final)
    <3>1. ~(_mailId < _mailId)
      BY <1>1
    <3> QED
      BY <1>3, <3>1 DEF Sound, Fresh
  <2>2. Final.mail[_mailId] = NoMail
    BY <2>1 DEF MailsOf
  <2>3. a[_mailId] = NoMail
    BY <1>3, <2>1 DEF MailboxOK, MailOK, Addressed
  <2> QED
    BY <1>4, <2>2, <2>3
<1>17. PICK t \in Seq(Statements) :
        /\ t = (IF pays THEN SendMailTo(_mailId, new, {}) ELSE <<>>)
               \o ItemStatements(p, item, money, b)
        /\ Pays(Final, Committed(Final, t), p, item, money, b, _mailId, new)
  <2>1. PaysWith(Final, pays, _mailId, new)
    BY <1>14, <1>15, <1>16 DEF PaysWith
  <2>2. /\ Final \in Databases /\ p \in Players /\ item \in Items /\ money \in SUBSET Coins
        /\ b \in Boxes /\ pays \in BOOLEAN
    BY <1>1
  <2> QED
    BY ONLY <2>1, <2>2, TakeItemEffect
<1>18. PICK db2 \in Databases : /\ db2 = Committed(Final, t)
                                /\ Pays(Final, db2, p, item, money, b, _mailId, new)
  BY <1>17 DEF Pays
<1>19. PICK ti \in SUBSET Items : ti = {item}
  OBVIOUS
<1>20. MailOK(m, id, p, Final, TRUE, destroyed)
  BY <1>3, <1>4, <1>5 DEF MailboxOK
<1>21. Touched(a, b, id, {}, ti)
  <2>1. a[id].removedItems = {}
    BY <1>5, <1>20 DEF MailOK
  <2>2. /\ \A o \in MailIds : o # id => b[o] = a[o]
        /\ b[id] # NoMail /\ b[id].sender = a[id].sender /\ b[id].money = a[id].money
        /\ b[id].items = a[id].items \ {item}
        /\ b[id].removedItems = a[id].removedItems \cup {item}
        /\ b[id].state = "CHANGED"
    BY <1>4, <1>7, ItemOutParts
  <2>3. Touches(a[id], b[id], {}, ti)
    BY <1>4, <1>5, <1>6, <1>19, <2>1, <2>2 DEF Touches
  <2> QED
    BY <2>2, <2>3 DEF Touched
<1>22. _mailId' = IF pays THEN _mailId + 1 ELSE _mailId
  BY <1>2, <1>5, <1>12 DEF HandleMailTakeItem
<1>23. Saving(Final, db2, p, a, b, id, {}, paid, ti, _mailId, _mailId', new, destroyed)
  <2>1. _mailId \in MailIds => db2.mail[_mailId] = new
    <3>1. _mailId \in MailIds => b[_mailId] = NoMail
      BY <1>16, <1>21 DEF Touched
    <3> QED
      BY <1>18, <3>1 DEF Pays, RowSaved
  <2>2. Saves(Final, db2, p, b, {}, paid, ti, _mailId, new)
    BY <1>3, <1>8, <1>18, <1>19, <2>1 DEF Saves, Pays
  <2>3. Payment(_mailId, new, _mailId', paid)
    BY <1>10, <1>11, <1>14, <1>15, <1>22, NoneApart DEF Payment
  <2> QED
    BY <1>1, <1>3, <1>9, <1>21, <2>2, <2>3 DEF Saving
<1>24. /\ Sound(db2, _mailId', destroyed)
       /\ \A q \in Players : q # p => Kept(Final, db2, q)
       /\ Carried(db2, p) = Carried(Final, p) \cup ti
       /\ MailboxOK(Saved(b), p, db2, destroyed)
  BY <1>23, SavedStep
<1>25. PaidStep(Final, db2)
  <2>1. /\ id \in MailsOf(Final) /\ Final.mail[id].sender = m.sender
        /\ Final.mail[id].COD = m.COD /\ item \in Attached(Final, id)
    BY <1>6, <1>20 DEF MailOK, Addressed
  <2>2. \A i \in Items : db2.inventory[i] = IF i = item THEN p ELSE Final.inventory[i]
    BY <1>18 DEF Pays
  <2>3. m.COD > 0 => /\ _mailId \in MailIds /\ Final.mail[_mailId] = NoMail
                     /\ db2.mail[_mailId] = row /\ row.receiver = Final.mail[id].sender
    <3>1. _mailId \in MailIds => db2.mail[_mailId] = new
      BY <1>23 DEF Saving, Saves
    <3> QED
      BY <1>11, <1>12, <1>14, <1>16, <2>1, <3>1
  <2>4. ItemsApart(Final) /\ Final.mail[id] # NoMail
    BY <1>3, <2>1 DEF Sound, MailsOf
  <2> QED
    BY <1>1, <1>6, <1>11, <2>1, <2>2, <2>3, <2>4, ItemIsPaid
<1>26. PICK boxes \in [Players -> Boxes] :
        boxes = [m_mail EXCEPT ![p] = Saved(b)] /\ boxes[p] = Saved(b)
  <2>1. PICK s \in Boxes : s = Saved(b)
    BY SavedType
  <2>2. [m_mail EXCEPT ![p] = s] \in [Players -> Boxes] /\ [m_mail EXCEPT ![p] = s][p] = s
    BY <1>1
  <2> QED
    BY ONLY <2>1, <2>2
<1>27. /\ m_money' = [m_money EXCEPT ![p] = money]
       /\ m_items' = [m_items EXCEPT ![p] = @ \cup {item}]
       /\ m_mail' = IF pays THEN Delivered(boxes, _mailId, row, {}) ELSE boxes
       /\ database' = database /\ online' = online /\ m_mailsLoaded' = m_mailsLoaded
       /\ loading' = Nobody /\ destroyed' = destroyed
  <2>1. m_money' = [m_money EXCEPT ![p] = money] /\ m_items' = [m_items EXCEPT ![p] = @ \cup {item}]
    BY <1>8 DEF HandleMailTakeItem
  <2>2. /\ database' = database /\ online' = online /\ m_mailsLoaded' = m_mailsLoaded
        /\ loading' = Nobody /\ destroyed' = destroyed
    BY <1>1 DEF HandleMailTakeItem
  <2>3. boxes = [m_mail EXCEPT ![p] = Saved(ItemOut(m_mail[p], id, item))]
    BY <1>2, <1>7, <1>26
  <2>4. m_mail' = IF m.COD > 0 THEN Delivered(boxes, _mailId, row, {}) ELSE boxes
    <3>1. m_mail' =
            IF m_mail[p][id].COD > 0
            THEN Delivered([m_mail EXCEPT ![p] = Saved(ItemOut(m_mail[p], id, item))], _mailId,
                           [sender |-> p, receiver |-> m_mail[p][id].sender, has_items |-> FALSE,
                            money |-> paid, COD |-> 0, checked |-> "COD_PAYMENT"], {})
            ELSE [m_mail EXCEPT ![p] = Saved(ItemOut(m_mail[p], id, item))]
      BY DEF HandleMailTakeItem, ItemOut
    <3>2. m = m_mail[p][id]
      BY <1>2, <1>5
    <3>3. row = [sender |-> p, receiver |-> m_mail[p][id].sender, has_items |-> FALSE,
                 money |-> paid, COD |-> 0, checked |-> "COD_PAYMENT"]
      BY <1>11, <3>2
    <3> QED
      BY ONLY <2>3, <3>1, <3>2, <3>3
  <2> QED
    BY <1>12, <2>1, <2>2, <2>4
<1>28. asyncQueue' = Append(asyncQueue, Queued(t))
  <2>1. PICK e \in Elements : e = Queued(t)
    BY QueuedElement
  <2>2. ItemTaken(IF pays THEN SendMailTo(_mailId, row, {}) ELSE <<>>,
                  ItemStatements(p, item, money, b)) = <<e>>
    BY <1>14, <1>17, <2>1 DEF ItemTaken
  <2>3. asyncQueue' = asyncQueue \o <<e>>
    BY <1>2, <1>5, <1>7, <1>8, <1>11, <1>12, <2>2 DEF HandleMailTakeItem, ItemOut,
       ItemStatements
  <2>4. asyncQueue \o <<e>> = Append(asyncQueue, e)
    BY <1>1
  <2> QED
    BY <2>1, <2>3, <2>4
<1>29. PICK none \in SUBSET Items : none = {}
  OBVIOUS
<1>30. TypeOK'
  <2>1. m_mail' \in [Players -> Boxes]
    <3>1. pays => Delivered(boxes, _mailId, row, none) \in [Players -> Boxes]
      BY <1>14, DeliveredParts
    <3> QED
      BY <1>27, <1>29, <3>1
  <2>2. asyncQueue' \in Seq(Elements)
    <3>1. PICK e \in Elements : e = Queued(t)
      BY QueuedElement
    <3>2. Append(asyncQueue, e) \in Seq(Elements)
      BY <1>1
    <3> QED
      BY <1>28, <3>1, <3>2
  <2>3. m_money' \in [Players -> SUBSET Coins] /\ m_items' \in [Players -> SUBSET Items]
    BY <1>1, <1>27 DEF TypeOK
  <2>4. _mailId' \in 1 .. MaxMails + 1
    BY <1>1, <1>6, <1>12, <1>22
  <2> QED
    BY <1>1, <1>27, <2>1, <2>2, <2>3, <2>4 DEF TypeOK, Boxes
<1>31. /\ m_money'[p] = db2.money[p] /\ m_items'[p] = Carried(db2, p)
       /\ \A q \in Players : q # p => Untouched(q, boxes)
  BY <1>1, <1>3, <1>18, <1>19, <1>24, <1>26, <1>27 DEF Untouched, TypeOK, Pays
<1>32. \A q \in Players : q # p => Kept(Final, db2, q) /\ Untouched(q, boxes)
  BY <1>24, <1>31
<1>33. m_mail' = boxes \/ Delivers(boxes, db2)
  <2>1. CASE pays
    <3>1. db2.mail[_mailId] = row /\ _mailId \in MailIds
      BY <1>14, <1>23, <2>1 DEF Saving, Saves
    <3>2. Attached(db2, _mailId) = none
      <4>1. Attaches(db2)
        BY <1>24 DEF Sound
      <4>2. ASSUME NEW i \in Attached(db2, _mailId) PROVE FALSE
        <5>1. i \in db2.instances /\ db2.mailItems[i] = _mailId
          BY <4>2 DEF Attached
        <5>2. db2.mailItems[i] # NoMail
          BY <3>1, <5>1, NoneApart
        <5>3. db2.mail[_mailId].has_items
          BY <4>1, <5>1, <5>2 DEF Attaches
        <5> QED
          BY <1>11, <3>1, <5>3
      <4> QED
        BY <1>29, <4>2
    <3>3. m_mail' = Delivered(boxes, _mailId, row, none)
      BY <1>27, <1>29, <2>1
    <3> QED
      BY <3>1, <3>2, <3>3 DEF Delivers
  <2>2. CASE ~pays
    BY <1>27, <2>2
  <2> QED
    BY <2>1, <2>2
<1>34. _mailId <= _mailId'
  BY <1>1, <1>22
<1>35. m_mailsLoaded[p] /\ MailboxOK(boxes[p], p, db2, destroyed)
  BY <1>4, <1>24, <1>26
<1>36. Sound(db2, _mailId', destroyed)
  BY <1>24
<1> QED
  BY <1>1, <1>18, <1>25, <1>27, <1>28, <1>30, <1>31, <1>32, <1>33, <1>34, <1>35, <1>36,
     TransactionKeeps

-----------------------------------------------------------------------------
(* HandleMailReturnToSender.                                               *)

Returns(db, db2, id, items, next, row) ==
    /\ db2.money = db.money /\ db2.inventory = db.inventory /\ db2.instances = db.instances
    /\ db2.mail[id] = NoMail /\ db2.mail[next] = row
    /\ \A o \in MailIds : o # id /\ o # next => db2.mail[o] = db.mail[o]
    /\ \A i \in Items :
            db2.mailItems[i] = IF i \in items THEN next
                               ELSE IF db.mailItems[i] = id THEN NoMail ELSE db.mailItems[i]

\* The transaction that replaces a mail by one to its sender.
LEMMA ReturnEffect ==
    ASSUME NEW db \in Databases, NEW id \in MailIds, NEW items \in SUBSET Items,
           NEW next \in MailIds, NEW row \in Rows, next # id
    PROVE  \E t \in Seq(Statements) :
              /\ t = DeleteMail(id) \o SendMailTo(next, row, items)
              /\ Committed(db, t) \in Databases
              /\ Returns(db, Committed(db, t), id, items, next, row)
<1>1. PICK x \in Seq(Statements), y \in Seq(Statements) :
        x = DeleteMail(id) /\ y = SendMailTo(next, row, items)
  BY MailIsDeleted, MailIsSent
<1>2. PICK d1 \in Databases :
        /\ d1 = Committed(db, x)
        /\ d1.mail[id] = NoMail
        /\ \A o \in MailIds : o # id => d1.mail[o] = db.mail[o]
        /\ \A i \in Items :
               d1.mailItems[i] = IF db.mailItems[i] = id THEN NoMail ELSE db.mailItems[i]
        /\ d1.money = db.money /\ d1.inventory = db.inventory /\ d1.instances = db.instances
  BY <1>1, MailIsDeleted
<1>3. PICK d2 \in Databases :
        /\ d2 = Committed(d1, y)
        /\ d2.mail[next] = row
        /\ \A o \in MailIds : o # next => d2.mail[o] = d1.mail[o]
        /\ \A i \in Items : d2.mailItems[i] = IF i \in items THEN next ELSE d1.mailItems[i]
        /\ d2.money = d1.money /\ d2.inventory = d1.inventory /\ d2.instances = d1.instances
  BY <1>1, MailIsSent
<1>4. PICK t \in Seq(Statements) : t = x \o y /\ Committed(db, t) = d2
  <2>1. x \o y \in Seq(Statements)
    OBVIOUS
  <2>2. Committed(db, x \o y) = Committed(Committed(db, x), y)
    BY CommittedConcat
  <2> QED
    BY <1>2, <1>3, <2>1, <2>2
<1>5. Returns(db, d2, id, items, next, row)
  BY <1>2, <1>3 DEF Returns
<1> QED
  BY <1>1, <1>4, <1>5

Returning(db, db2, p, m, id, next, next2, row, gone) ==
    /\ db \in Databases /\ db2 \in Databases
    /\ id \in MailIds /\ next \in MailIds /\ next2 = next + 1 /\ row \in Rows
    /\ Sound(db, next, gone)
    /\ MailOK(m, id, p, db, TRUE, gone)
    /\ Returns(db, db2, id, m.items, next, row)
    /\ Carries(row, m.money, m.items)

\* The database is sound after it, and the other players keep what they have.
LEMMA ReturnSound ==
    ASSUME NEW p \in Players, NEW db, NEW db2, NEW m, NEW id, NEW next, NEW next2,
           NEW row, NEW gone, Returning(db, db2, p, m, id, next, next2, row, gone)
    PROVE  /\ Sound(db2, next2, gone)
           /\ PaidStep(db, db2)
           /\ \A q \in Players : q # p => Kept(db, db2, q)
           /\ Carried(db2, p) = Carried(db, p)
           /\ \A o \in MailsOf(db) : o # id => Same(db, db2, o)
           /\ Attached(db2, next) = m.items
<1> USE DEF Returning
<1>1. /\ Fresh(db, next) /\ CoinsApart(db) /\ ItemsApart(db) /\ Attaches(db)
      /\ CoinsKept(db, gone) /\ ItemsKept(db, gone)
  BY DEF Sound
<1>2. next \notin MailsOf(db) /\ next \in Nat /\ \A o \in MailIds : o \in Int
  <2>1. next \in Nat /\ ~(next < next) /\ \A o \in MailIds : o \in Int
    BY NoneApart, BoundAssumption DEF MailIds
  <2> QED
    BY <1>1, <2>1 DEF Fresh
<1>3. /\ id \in MailsOf(db) /\ db.mail[id].receiver = p /\ db.mail[id].money = m.money
      /\ m.items = Attached(db, id)
  BY DEF MailOK, Addressed
<1>4. /\ \A o \in MailIds : o \in MailsOf(db2) <=> o = next \/ (o \in MailsOf(db) /\ o # id)
      /\ id # next /\ next \in MailsOf(db2)
  BY <1>2, <1>3, NoneApart DEF Returns, MailsOf
<1>5. /\ \A o \in MailsOf(db) : o # id => o \in MailIds /\ o # next /\ db2.mail[o] = db.mail[o]
      /\ db2.mail[next].money = db.mail[id].money
      /\ db2.money = db.money
  BY <1>2, <1>3 DEF Returns, MailsOf, Carries
<1>6. Fresh(db2, next2)
  <2> SUFFICES ASSUME NEW o \in MailsOf(db2) PROVE o < next2
    BY DEF Fresh
  <2>1. o \in MailIds /\ o \in Int
    BY <1>2 DEF MailsOf
  <2>2. o = next \/ o < next
    BY <1>1, <1>4, <2>1 DEF Fresh
  <2> QED
    BY <1>2, <2>1, <2>2
<1>7. ASSUME NEW o \in MailsOf(db2)
      PROVE  \E x \in MailsOf(db) : /\ db2.mail[o].money = db.mail[x].money
                                    /\ x = id <=> o = next
                                    /\ x # id => x = o
  <2>1. o \in MailIds /\ (o = next \/ (o \in MailsOf(db) /\ o # id))
    BY <1>4 DEF MailsOf
  <2>2. CASE o = next
    BY <1>3, <1>5, <2>2
  <2>3. CASE o # next
    BY <1>5, <2>1, <2>3
  <2> QED
    BY <2>2, <2>3
<1>8. CoinsApart(db2)
  <2>1. \A q \in Players, r \in Players : q # r => db2.money[q] \cap db2.money[r] = {}
    BY <1>1, <1>5 DEF CoinsApart
  <2>2. ASSUME NEW q \in Players, NEW o \in MailsOf(db2)
        PROVE  db2.money[q] \cap db2.mail[o].money = {}
    BY <1>1, <1>5, <1>7 DEF CoinsApart
  <2>3. ASSUME NEW o \in MailsOf(db2), NEW u \in MailsOf(db2), o # u
        PROVE  db2.mail[o].money \cap db2.mail[u].money = {}
    <3>1. PICK x \in MailsOf(db) : /\ db2.mail[o].money = db.mail[x].money
                                   /\ x = id <=> o = next
                                   /\ x # id => x = o
      BY <1>7
    <3>2. PICK y \in MailsOf(db) : /\ db2.mail[u].money = db.mail[y].money
                                   /\ y = id <=> u = next
                                   /\ y # id => y = u
      BY <1>7
    <3>3. x # y
      BY <2>3, <3>1, <3>2
    <3>4. db.mail[x].money \cap db.mail[y].money = {}
      BY <1>1, <3>3 DEF CoinsApart
    <3> QED
      BY <3>1, <3>2, <3>4
  <2> QED
    BY <2>1, <2>2, <2>3 DEF CoinsApart
<1>9. ItemsApart(db2)
  <2> SUFFICES ASSUME NEW i \in Items PROVE db2.inventory[i] = Nobody \/ db2.mailItems[i] = NoMail
    BY DEF ItemsApart
  <2>1. db.inventory[i] = Nobody \/ db.mailItems[i] = NoMail
    BY <1>1 DEF ItemsApart
  <2> QED
    BY <1>3, <2>1, NoneApart DEF Returns, Attached
<1>10. Attaches(db2)
  <2> SUFFICES ASSUME NEW i \in db2.instances, db2.mailItems[i] # NoMail
               PROVE  db2.mailItems[i] \in MailsOf(db2) /\ db2.mail[db2.mailItems[i]].has_items
    BY DEF Attaches
  <2>1. i \in Items /\ i \in db.instances
    BY DatabaseParts DEF Returns
  <2>2. CASE i \in m.items
    <3>1. db2.mailItems[i] = next /\ db2.mail[next] = row /\ row.has_items
      BY <2>1, <2>2 DEF Returns, Carries
    <3> QED
      BY <1>4, <3>1
  <2>3. CASE i \notin m.items
    <3>1. db2.mailItems[i] = db.mailItems[i] /\ db.mailItems[i] # id
      BY <2>1, <2>3 DEF Returns
    <3>2. db.mailItems[i] \in MailsOf(db) /\ db.mail[db.mailItems[i]].has_items
      BY <1>1, <2>1, <3>1 DEF Attaches
    <3> QED
      BY <1>4, <1>5, <3>1, <3>2
  <2> QED
    BY <2>2, <2>3
<1>11. CoinsKept(db2, gone)
  <2> SUFFICES ASSUME NEW c \in Coins \ gone
               PROVE  \/ \E q \in Players : c \in db2.money[q]
                      \/ \E o \in MailsOf(db2) : c \in db2.mail[o].money
    BY DEF CoinsKept
  <2>1. CASE \E o \in MailsOf(db) : c \in db.mail[o].money
    <3>1. PICK o \in MailsOf(db) : c \in db.mail[o].money
      BY <2>1
    <3>2. CASE o = id
      BY <1>4, <1>5, <3>1, <3>2
    <3>3. CASE o # id
      BY <1>4, <1>5, <3>1, <3>3
    <3> QED
      BY <3>2, <3>3
  <2> QED
    BY <1>1, <1>5, <2>1 DEF CoinsKept
<1>12. ItemsKept(db2, gone)
  <2> SUFFICES ASSUME NEW i \in Items \ gone
               PROVE  i \in db2.instances /\ (db2.inventory[i] # Nobody \/ db2.mailItems[i] # NoMail)
    BY DEF ItemsKept
  <2>1. i \in db.instances /\ (db.inventory[i] # Nobody \/ db.mailItems[i] # NoMail)
    BY <1>1 DEF ItemsKept
  <2> QED
    BY <1>3, <2>1, NoneApart DEF Returns, Attached
<1>13. PaidStep(db, db2)
  <2>1. \A i \in Items : db2.inventory[i] \in {db.inventory[i], Nobody}
    BY DEF Returns
  <2> QED
    BY <1>1, <2>1, NothingToPay
<1>14. ASSUME NEW o \in MailsOf(db), o # id PROVE Same(db, db2, o)
  <2>1. o \in MailIds /\ o # next
    BY <1>5, <1>14
  <2>2. ASSUME NEW i \in Items PROVE i \in Attached(db2, o) <=> i \in Attached(db, o)
    BY <1>3, <1>14, <2>1, NoneApart DEF Attached, Returns
  <2>3. Attached(db2, o) \subseteq Items /\ Attached(db, o) \subseteq Items
    BY DatabaseParts DEF Attached
  <2> QED
    BY <1>5, <1>14, <2>2, <2>3 DEF Same
<1>15. \A q \in Players : Carried(db2, q) = Carried(db, q)
  BY DEF Carried, Returns
<1>16. ASSUME NEW q \in Players, q # p PROVE Kept(db, db2, q)
  <2>1. \A o \in Addressed(db, q) : o \in MailsOf(db) /\ o # id
    BY <1>3, <1>16 DEF Addressed
  <2> QED
    BY <1>5, <1>14, <1>15, <2>1 DEF Kept
<1>17. Attached(db2, next) = m.items
  <2>1. ASSUME NEW i \in Items PROVE i \in Attached(db2, next) <=> i \in m.items
    <3>1. i \in db.instances => db.mailItems[i] # next
      BY <1>1, <1>2, NoneApart DEF Attaches
    <3> QED
      BY <1>3, <3>1, NoneApart DEF Attached, Returns
  <2>2. Attached(db2, next) \subseteq Items /\ m.items \subseteq Items
    BY <1>3, DatabaseParts DEF Attached
  <2> QED
    BY <2>1, <2>2
<1> QED
  BY <1>6, <1>8, <1>9, <1>10, <1>11, <1>12, <1>13, <1>14, <1>15, <1>16, <1>17 DEF Sound

\* Returning a mail to its sender.
LEMMA ReturnToSenderKeeps ==
    ASSUME IInv, NEW p \in Players, NEW id \in MailIds, HandleMailReturnToSender(p, id)
    PROVE  IInv'
<1>1. /\ TypeOK /\ online[p] = "in" /\ loading = Nobody /\ Final \in Databases
      /\ asyncQueue \in Seq(Elements) /\ _mailId \in Nat /\ _mailId \in 1 .. MaxMails + 1
      /\ m_mail \in [Players -> Boxes] /\ _mailId <= MaxMails /\ _mailId' = _mailId + 1
  BY FinalFacts DEF IInv, HandleMailReturnToSender, Handles, TypeOK, Boxes
<1>2. PICK a \in Boxes : a = m_mail[p]
  BY <1>1
<1>3. /\ m_money[p] = Final.money[p] /\ m_items[p] = Carried(Final, p)
      /\ MailboxOK(a, p, Final, destroyed) /\ Sound(Final, _mailId, destroyed)
      /\ \A o \in MailIds : a[o] # NoMail => m_mailsLoaded[p]
  BY <1>1, <1>2, InWorld, FinalSound
<1>4. a[id] # NoMail /\ m_mailsLoaded[p]
  BY <1>2, <1>3 DEF HandleMailReturnToSender, Live, Has
<1>5. PICK m \in Mails : m = a[id]
  BY <1>4 DEF Boxes
<1>6. m.sender \in Players /\ m.items \in SUBSET Items /\ m.money \in SUBSET Coins
  BY DEF Mails
<1>7. MailOK(m, id, p, Final, TRUE, destroyed)
  BY <1>3, <1>4, <1>5 DEF MailboxOK
<1>8. PICK next \in MailIds : next = _mailId /\ next \in Nat /\ next + 1 \in 1 .. MaxMails + 1
  BY <1>1, BoundAssumption DEF MailIds
<1>9. next # id
  <2>1. next \notin MailsOf(Final)
    <3>1. ~(next < next)
      BY <1>8
    <3> QED
      BY <1>3, <1>8, <3>1 DEF Sound, Fresh
  <2> QED
    BY <1>7, <2>1 DEF MailOK, Addressed
<1>10. PICK row \in Rows :
        /\ row = [sender |-> p, receiver |-> m.sender, has_items |-> m.items # {},
                  money |-> m.money, COD |-> 0, checked |-> "RETURNED"]
        /\ Carries(row, m.money, m.items)
  <2>1. 0 \in 0 .. MaxCOD
    BY BoundAssumption
  <2>2. PICK has \in BOOLEAN : has = (m.items # {})
    OBVIOUS
  <2>3. [sender |-> p, receiver |-> m.sender, has_items |-> has, money |-> m.money,
         COD |-> 0, checked |-> "RETURNED"] \in Rows
    BY <1>6, <2>1 DEF Rows, Checks
  <2> QED
    BY <2>2, <2>3 DEF Carries
<1>11. PICK items \in SUBSET Items : items = m.items
  BY <1>6
<1>12. PICK t \in Seq(Statements) :
        /\ t = DeleteMail(id) \o SendMailTo(next, row, items)
        /\ Committed(Final, t) \in Databases
        /\ Returns(Final, Committed(Final, t), id, items, next, row)
  BY <1>1, <1>9, ReturnEffect
<1>13. PICK db2 \in Databases : db2 = Committed(Final, t)
  BY <1>12
<1>14. Returning(Final, db2, p, m, id, next, _mailId', row, destroyed)
  BY <1>1, <1>3, <1>7, <1>8, <1>10, <1>11, <1>12, <1>13 DEF Returning
<1>15. /\ Sound(db2, _mailId', destroyed) /\ PaidStep(Final, db2)
       /\ \A q \in Players : q # p => Kept(Final, db2, q)
       /\ Carried(db2, p) = Carried(Final, p)
       /\ \A o \in MailsOf(Final) : o # id => Same(Final, db2, o)
       /\ Attached(db2, next) = m.items
  BY ONLY <1>14, p \in Players, ReturnSound
<1>16. PICK less \in Boxes : less = [a EXCEPT ![id] = NoMail]
  <2>1. [a EXCEPT ![id] = NoMail] \in Boxes
    BY DEF Boxes
  <2> QED
    BY <2>1
<1>17. MailboxOK(less, p, db2, destroyed)
  <2> SUFFICES ASSUME NEW o \in MailIds, less[o] # NoMail
               PROVE  MailOK(less[o], o, p, db2, TRUE, destroyed)
    BY DEF MailboxOK
  <2>1. o # id /\ less[o] = a[o]
    BY <1>16 DEF Boxes
  <2>2. MailOK(a[o], o, p, Final, TRUE, destroyed)
    BY <1>3, <2>1 DEF MailboxOK
  <2>3. Same(Final, db2, o)
    BY <1>15, <2>1, <2>2 DEF MailOK, Addressed
  <2> QED
    BY <2>1, <2>2, <2>3 DEF MailOK, Same, Addressed, MailsOf
<1>18. PICK boxes \in [Players -> Boxes] :
        boxes = [m_mail EXCEPT ![p] = less] /\ boxes[p] = less
  <2>1. [m_mail EXCEPT ![p] = less] \in [Players -> Boxes] /\ [m_mail EXCEPT ![p] = less][p] = less
    BY <1>1
  <2> QED
    BY ONLY <2>1
<1>19. m_mail' = Delivered(boxes, next, row, items)
  <2>1. m_mail' = Delivered([m_mail EXCEPT ![p] = [m_mail[p] EXCEPT ![id] = NoMail]], _mailId,
                            [sender |-> p, receiver |-> m_mail[p][id].sender,
                             has_items |-> m_mail[p][id].items # {},
                             money |-> m_mail[p][id].money, COD |-> 0, checked |-> "RETURNED"],
                            m_mail[p][id].items)
    BY DEF HandleMailReturnToSender
  <2>2. m = m_mail[p][id] /\ a = m_mail[p]
    BY <1>2, <1>5
  <2> QED
    BY ONLY <2>1, <2>2, <1>8, <1>10, <1>11, <1>16, <1>18
<1>20. asyncQueue' = Append(asyncQueue, Queued(t))
  <2>1. asyncQueue' = Append(asyncQueue, Queued(DeleteMail(id) \o SendMailTo(_mailId,
                            [sender |-> p, receiver |-> m_mail[p][id].sender,
                             has_items |-> m_mail[p][id].items # {},
                             money |-> m_mail[p][id].money, COD |-> 0, checked |-> "RETURNED"],
                            m_mail[p][id].items)))
    BY DEF HandleMailReturnToSender
  <2>2. m = m_mail[p][id]
    BY <1>2, <1>5
  <2> QED
    BY ONLY <2>1, <2>2, <1>8, <1>10, <1>11, <1>12
<1>21. /\ database' = database /\ online' = online /\ m_mailsLoaded' = m_mailsLoaded
       /\ loading' = Nobody /\ destroyed' = destroyed
       /\ m_money' = m_money /\ m_items' = m_items
  BY <1>1 DEF HandleMailReturnToSender
<1>22. TypeOK'
  <2>1. m_mail' \in [Players -> Boxes]
    BY <1>19, DeliveredParts
  <2>2. asyncQueue' \in Seq(Elements)
    <3>1. PICK e \in Elements : e = Queued(t)
      BY QueuedElement
    <3>2. Append(asyncQueue, e) \in Seq(Elements)
      BY <1>1
    <3> QED
      BY <1>20, <3>1, <3>2
  <2> QED
    BY <1>1, <1>8, <1>21, <2>1, <2>2 DEF TypeOK, Boxes
<1>23. \A q \in Players : q # p => Kept(Final, db2, q) /\ Untouched(q, boxes)
  BY <1>1, <1>15, <1>18, <1>21 DEF Untouched
<1>24. /\ m_money'[p] = db2.money[p] /\ m_items'[p] = Carried(db2, p)
       /\ m_mailsLoaded[p] /\ MailboxOK(boxes[p], p, db2, destroyed)
  BY <1>3, <1>4, <1>12, <1>13, <1>15, <1>17, <1>18, <1>21 DEF Returns
<1>25. Delivers(boxes, db2)
  BY <1>11, <1>12, <1>13, <1>15, <1>19 DEF Delivers, Returns
<1>26. _mailId <= _mailId'
  BY <1>1
<1> QED
  BY <1>1, <1>13, <1>15, <1>20, <1>21, <1>22, <1>23, <1>24, <1>25, <1>26, TransactionKeeps

-----------------------------------------------------------------------------
(* Logout.                                                                 *)

\* Logging out.
LEMMA LogoutKeeps ==
    ASSUME IInv, NEW p \in Players, Logout(p)
    PROVE  IInv'
<1>1. /\ TypeOK /\ MemoryOK /\ online[p] = "in" /\ loading = Nobody /\ Final \in Databases
      /\ QueueOK(Stages(database, asyncQueue), asyncQueue, online, _mailId, destroyed)
      /\ database \in Databases /\ asyncQueue \in Seq(Elements) /\ _mailId \in Nat
      /\ m_mail \in [Players -> Boxes]
  BY FinalFacts DEF IInv, Logout, Handles, TypeOK, Boxes
<1>2. PICK a \in Boxes : a = m_mail[p]
  BY <1>1
<1>3. /\ m_money[p] = Final.money[p] /\ MailboxOK(a, p, Final, destroyed)
      /\ Sound(Final, _mailId, destroyed)
  BY <1>1, <1>2, InWorld, FinalSound
<1>4. PICK money \in SUBSET Coins : money = m_money[p]
  BY <1>1 DEF TypeOK
<1>5. PICK t \in Seq(Statements) : /\ t = _SaveMail(a) \o SaveGoldToDB(p, money)
                                   /\ MoneyAndBox(Final, Committed(Final, t), p, money, a)
  BY <1>1, MoneyAndBoxSaved
<1>6. PICK db2 \in Databases : db2 = Committed(Final, t)
  BY <1>5 DEF MoneyAndBox
<1>7. Saving(Final, db2, p, a, a, NoMail, {}, {}, {}, _mailId, _mailId, NoMail, destroyed)
  <2>1. _mailId \in MailIds => db2.mail[_mailId] = NoMail
    <3> SUFFICES ASSUME _mailId \in MailIds PROVE db2.mail[_mailId] = NoMail
      OBVIOUS
    <3>1. _mailId \notin MailsOf(Final)
      <4>1. ~(_mailId < _mailId)
        BY <1>1
      <4> QED
        BY <1>3, <4>1 DEF Sound, Fresh
    <3>2. Final.mail[_mailId] = NoMail
      BY <3>1 DEF MailsOf
    <3>3. a[_mailId] = NoMail
      BY <1>3, <3>1 DEF MailboxOK, MailOK, Addressed
    <3>4. RowSaved(a[_mailId], Final.mail[_mailId], db2.mail[_mailId])
      BY <1>5, <1>6 DEF MoneyAndBox
    <3> QED
      BY <3>2, <3>3, <3>4 DEF RowSaved
  <2>2. Saves(Final, db2, p, a, {}, {}, {}, _mailId, NoMail)
    BY <1>3, <1>4, <1>5, <1>6, <2>1 DEF Saves, MoneyAndBox
  <2>3. Payment(_mailId, NoMail, _mailId, {}) /\ Touched(a, a, NoMail, {}, {})
    BY DEF Payment, Touched
  <2> QED
    BY <1>1, <1>3, <2>2, <2>3 DEF Saving
<1>8. /\ Sound(db2, _mailId, destroyed)
      /\ \A q \in Players : q # p => Kept(Final, db2, q)
      /\ PaidStep(Final, db2)
  BY <1>7, SavedStep
<1>9. PICK n \in Nat, st \in [0 .. Len(asyncQueue) -> Databases], e \in Elements :
        /\ n = Len(asyncQueue) /\ st = Stages(database, asyncQueue)
        /\ st[Len(asyncQueue)] = Final
        /\ e = Queued(t) /\ e.what = "transaction" /\ db2 = Effect(Final, e)
  BY <1>1, <1>6, FinalFacts, QueuedElement
<1>10. PICK q2 \in Seq(Elements) : q2 = Append(asyncQueue, e) /\ Len(q2) = n + 1
  <2>1. Append(asyncQueue, e) \in Seq(Elements) /\ Len(Append(asyncQueue, e)) = Len(asyncQueue) + 1
    BY <1>1
  <2> QED
    BY <1>9, <2>1
<1>11. PICK st2 : /\ st2 = Stages(database, q2)
                  /\ \A k \in 0 .. Len(asyncQueue) : st2[k] = st[k]
                  /\ st2[Len(asyncQueue) + 1] = db2
  BY <1>1, <1>9, <1>10, StagesAppend
<1>12. /\ asyncQueue' = q2 /\ database' = database /\ destroyed' = destroyed
       /\ _mailId' = _mailId /\ loading' = Nobody
       /\ online' = [online EXCEPT ![p] = "out"]
       /\ m_money' = [m_money EXCEPT ![p] = {}] /\ m_items' = [m_items EXCEPT ![p] = {}]
       /\ m_mail' = [m_mail EXCEPT ![p] = NoBox]
       /\ m_mailsLoaded' = [m_mailsLoaded EXCEPT ![p] = FALSE]
  BY <1>1, <1>2, <1>4, <1>5, <1>9, <1>10 DEF Logout
<1>13. /\ online'[p] = "out" /\ m_money'[p] = {} /\ m_items'[p] = {} /\ m_mail'[p] = NoBox
       /\ m_mailsLoaded'[p] = FALSE
       /\ \A q \in Players : q # p =>
            /\ online'[q] = online[q] /\ m_money'[q] = m_money[q]
            /\ m_items'[q] = m_items[q]
            /\ m_mail'[q] = m_mail[q] /\ m_mailsLoaded'[q] = m_mailsLoaded[q]
  BY <1>1, <1>12 DEF TypeOK
<1>14. QueueOK(st2, q2, online', _mailId', destroyed')
  <2>1. \A q \in Players : online[q] = "loading" =>
            online'[q] = "loading" /\ Kept(st[Len(asyncQueue)], st2[Len(asyncQueue) + 1], q)
    BY <1>1, <1>8, <1>9, <1>11, <1>13
  <2>2. QueueOK(st, asyncQueue, online, _mailId, destroyed) /\ _mailId \in Nat /\ _mailId <= _mailId
    BY <1>1, <1>9
  <2>3. QueueOK(st2, Append(asyncQueue, e), online', _mailId, destroyed)
    BY <1>1, <1>8, <1>9, <1>11, <2>1, <2>2, QueueGrows
  <2> QED
    BY <1>10, <1>12, <2>3
<1>15. ASSUME NEW q \in Players
       PROVE  PlayerOK(st2, n + 1, q, online'[q], m_money'[q], m_items'[q], m_mailsLoaded'[q],
                       m_mail'[q], Nobody, destroyed)
  <2>1. CASE q = p
    BY <1>13, <2>1, NoneApart DEF PlayerOK, NoBox
  <2>2. CASE q # p
    <3>1. PlayerOK(st, n, q, online[q], m_money[q], m_items[q], m_mailsLoaded[q], m_mail[q],
                   Nobody, destroyed)
      BY <1>1, <1>9 DEF MemoryOK
    <3>2. /\ \A id \in Addressed(st[n], q) : Same(st[n], st2[n + 1], id)
          /\ st2[n + 1].money[q] = st[n].money[q]
          /\ Carried(st2[n + 1], q) = Carried(st[n], q)
      BY <1>8, <1>9, <1>11, <2>2 DEF Kept
    <3>3. online[q] = "in" => m_money[q] = st2[n + 1].money[q] /\ m_items[q] = Carried(st2[n + 1], q)
      BY <3>1, <3>2 DEF PlayerOK
    <3>4. PlayerOK(st2, n + 1, q, online[q], m_money[q], m_items[q], m_mailsLoaded[q], m_mail[q],
                   Nobody, destroyed)
      <4>1. /\ destroyed \subseteq destroyed /\ n \in Nat
            /\ online[q] # "in" => m_money[q] = m_money[q] /\ m_items[q] = m_items[q]
            /\ \A k \in 0 .. n : st2[k] = st[k]
        BY <1>9, <1>11
      <4> QED
        BY ONLY <3>1, <3>2, <3>3, <4>1, PlayerGrows
    <3> QED
      BY <1>13, <2>2, <3>4
  <2> QED
    BY <2>1, <2>2
<1>16. TypeOK'
  <2>1. NoBox \in Boxes
    BY DEF NoBox, Boxes
  <2>2. m_mail' \in [Players -> Boxes]
    BY <1>1, <1>12, <2>1
  <2> QED
    BY <1>1, <1>12, <2>2 DEF TypeOK, Boxes
<1>17. /\ Stages(database', asyncQueue') = st2 /\ Len(asyncQueue') = n + 1
       /\ loading' = Nobody /\ destroyed' = destroyed
  BY <1>10, <1>11, <1>12
<1>18. MemoryOK'
  BY <1>15, <1>17 DEF MemoryOK
<1>19. QueueOK(Stages(database', asyncQueue'), asyncQueue', online', _mailId', destroyed')
  BY <1>12, <1>14, <1>17
<1> QED
  BY <1>16, <1>18, <1>19 DEF IInv

-----------------------------------------------------------------------------
(* Login, and what changes memory only.                                    *)

\* Logging in: the query waits behind everything that is queued.
LEMMA LoginKeeps ==
    ASSUME IInv, NEW p \in Players, Login(p)
    PROVE  IInv'
<1>1. /\ TypeOK /\ MemoryOK /\ online[p] = "out" /\ loading = Nobody /\ Final \in Databases
      /\ QueueOK(Stages(database, asyncQueue), asyncQueue, online, _mailId, destroyed)
      /\ database \in Databases /\ asyncQueue \in Seq(Elements) /\ _mailId \in Nat
  BY FinalFacts DEF IInv, Login, TypeOK
<1>2. PICK e \in Elements : /\ e = [what |-> "login", player |-> p]
                            /\ e.what = "login" /\ e.player = p
                            /\ Effect(Final, e) = Final
  <2>1. [what |-> "login", player |-> p] \in Elements
    BY DEF Elements
  <2> QED
    BY <2>1 DEF Effect
<1>3. PICK n \in Nat, st \in [0 .. Len(asyncQueue) -> Databases] :
        /\ n = Len(asyncQueue) /\ st = Stages(database, asyncQueue)
        /\ st[Len(asyncQueue)] = Final
  BY <1>1, FinalFacts
<1>4. PICK q2 \in Seq(Elements) : q2 = Append(asyncQueue, e) /\ Len(q2) = n + 1
  <2>1. Append(asyncQueue, e) \in Seq(Elements) /\ Len(Append(asyncQueue, e)) = Len(asyncQueue) + 1
    BY <1>1
  <2> QED
    BY <1>3, <2>1
<1>5. PICK st2 : /\ st2 = Stages(database, q2)
                 /\ \A k \in 0 .. Len(asyncQueue) : st2[k] = st[k]
                 /\ st2[Len(asyncQueue) + 1] = Final
  BY <1>1, <1>2, <1>3, <1>4, StagesAppend
<1>6. /\ asyncQueue' = q2 /\ database' = database /\ destroyed' = destroyed
      /\ _mailId' = _mailId /\ loading' = Nobody
      /\ online' = [online EXCEPT ![p] = "loading"]
      /\ m_money' = m_money /\ m_items' = m_items /\ m_mail' = m_mail
      /\ m_mailsLoaded' = m_mailsLoaded
  BY <1>1, <1>2, <1>4 DEF Login
<1>7. online'[p] = "loading" /\ \A q \in Players : q # p => online'[q] = online[q]
  BY <1>1, <1>6 DEF TypeOK
<1>8. Sound(Final, _mailId, destroyed) /\ PaidStep(Final, Final)
  <2>1. Sound(Final, _mailId, destroyed)
    BY FinalSound
  <2> QED
    BY <1>1, <2>1, NothingToPay DEF Sound
<1>9. QueueOK(st2, q2, online', _mailId', destroyed')
  <2>1. \A q \in Players : online[q] = "loading" =>
            online'[q] = "loading" /\ Kept(st[Len(asyncQueue)], st2[Len(asyncQueue) + 1], q)
    BY <1>1, <1>3, <1>5, <1>7 DEF Kept, Same
  <2>2. QueueOK(st, asyncQueue, online, _mailId, destroyed) /\ _mailId \in Nat /\ _mailId <= _mailId
    BY <1>1, <1>3
  <2>3. QueueOK(st2, Append(asyncQueue, e), online', _mailId, destroyed)
    BY <1>1, <1>2, <1>3, <1>5, <1>7, <1>8, <2>1, <2>2, QueueGrows
  <2> QED
    BY <1>4, <1>6, <2>3
<1>10. ASSUME NEW q \in Players
       PROVE  PlayerOK(st2, n + 1, q, online'[q], m_money[q], m_items[q], m_mailsLoaded[q],
                       m_mail[q], Nobody, destroyed)
  <2>1. PlayerOK(st, n, q, online[q], m_money[q], m_items[q], m_mailsLoaded[q], m_mail[q],
                 Nobody, destroyed)
    BY <1>1, <1>3 DEF MemoryOK
  <2>2. CASE q = p
    BY <1>1, <1>7, <2>1, <2>2, NoneApart DEF PlayerOK, NoBox
  <2>3. CASE q # p
    <3>1. /\ \A id \in Addressed(st[n], q) : Same(st[n], st2[n + 1], id)
          /\ st2[n + 1] = st[n]
      BY <1>3, <1>5 DEF Same
    <3>2. online[q] = "in" => m_money[q] = st2[n + 1].money[q] /\ m_items[q] = Carried(st2[n + 1], q)
      BY <2>1, <3>1 DEF PlayerOK
    <3>3. /\ destroyed \subseteq destroyed /\ n \in Nat
          /\ online[q] # "in" => m_money[q] = m_money[q] /\ m_items[q] = m_items[q]
          /\ \A k \in 0 .. n : st2[k] = st[k]
      BY <1>3, <1>5
    <3>4. PlayerOK(st2, n + 1, q, online[q], m_money[q], m_items[q], m_mailsLoaded[q], m_mail[q],
                   Nobody, destroyed)
      BY ONLY <2>1, <3>1, <3>2, <3>3, PlayerGrows
    <3> QED
      BY <1>7, <2>3, <3>4
  <2> QED
    BY <2>2, <2>3
<1>11. TypeOK'
  BY <1>1, <1>6 DEF TypeOK
<1>12. /\ Stages(database', asyncQueue') = st2 /\ Len(asyncQueue') = n + 1
  BY <1>4, <1>5, <1>6
<1>13. MemoryOK'
  BY <1>6, <1>10, <1>12 DEF MemoryOK
<1>14. QueueOK(Stages(database', asyncQueue'), asyncQueue', online', _mailId', destroyed')
  BY <1>6, <1>9, <1>12
<1> QED
  BY <1>11, <1>13, <1>14 DEF IInv

\* A handler that changes only the mailbox of a player who has listed his mails.
LEMMA BoxKeeps ==
    ASSUME IInv, TypeOK', NEW p \in Players, NEW box \in Boxes,
           database' = database, asyncQueue' = asyncQueue, online' = online,
           m_money' = m_money, m_items' = m_items, m_mailsLoaded' = m_mailsLoaded,
           m_mail' = [m_mail EXCEPT ![p] = box], loading = Nobody, loading' = Nobody,
           _mailId' = _mailId, destroyed \subseteq destroyed',
           online[p] = "in", m_mailsLoaded[p],
           MailboxOK(box, p, Final, destroyed')
    PROVE  IInv'
<1>1. /\ TypeOK /\ MemoryOK
      /\ QueueOK(Stages(database, asyncQueue), asyncQueue, online, _mailId, destroyed)
      /\ database \in Databases /\ asyncQueue \in Seq(Elements) /\ _mailId \in Nat
      /\ m_mailsLoaded \in [Players -> BOOLEAN] /\ m_mail \in [Players -> Boxes]
  BY FinalFacts DEF IInv, TypeOK, Boxes
<1>2. PICK n \in Nat, st \in [0 .. Len(asyncQueue) -> Databases] :
        /\ n = Len(asyncQueue) /\ st = Stages(database, asyncQueue)
        /\ st[n] = Final
  BY <1>1, FinalFacts
<1>3. QueueOK(st, asyncQueue, online, _mailId, destroyed')
  <2>1. \A k \in 0 .. Len(asyncQueue) : Sound(st[k], _mailId, destroyed')
    <3> SUFFICES ASSUME NEW k \in 0 .. Len(asyncQueue) PROVE Sound(st[k], _mailId, destroyed')
      OBVIOUS
    <3>1. Sound(st[k], _mailId, destroyed) /\ st[k] \in Databases /\ _mailId <= _mailId
      BY <1>1, <1>2 DEF QueueOK
    <3> QED
      BY <1>1, <3>1, SoundGrows
  <2> QED
    BY <1>1, <1>2, <2>1 DEF QueueOK
<1>4. ASSUME NEW q \in Players
      PROVE  PlayerOK(st, n, q, online[q], m_money[q], m_items[q], m_mailsLoaded[q],
                      m_mail'[q], Nobody, destroyed')
  <2>1. PlayerOK(st, n, q, online[q], m_money[q], m_items[q], m_mailsLoaded[q], m_mail[q],
                 Nobody, destroyed)
    BY <1>1, <1>2 DEF MemoryOK
  <2>2. CASE q = p
    <3>1. m_mail'[q] = box /\ m_mailsLoaded[q] = TRUE /\ Nobody # q
      BY <1>1, <2>2, NoneApart
    <3>2. m_money[q] = st[n].money[q] /\ m_items[q] = Carried(st[n], q)
      BY <2>1, <2>2 DEF PlayerOK
    <3>3. PlayerOK(st, n, q, "in", st[n].money[q], Carried(st[n], q), TRUE, box, Nobody, destroyed')
      BY <1>2, <2>2, <3>1, ListedPlayer
    <3> QED
      BY <2>2, <3>1, <3>2, <3>3
  <2>3. CASE q # p
    <3>1. m_mail'[q] = m_mail[q]
      BY <1>1, <2>3
    <3>2. \A id \in MailIds : m_mail[q][id] # NoMail =>
            MailOK(m_mail[q][id], id, q, st[n], m_mailsLoaded[q], destroyed')
      BY <2>1 DEF PlayerOK, MailOK
    <3>3. PlayerOK(st, n, q, online[q], m_money[q], m_items[q], m_mailsLoaded[q], m_mail[q],
                   Nobody, destroyed')
      BY <2>1, <3>2 DEF PlayerOK
    <3> QED
      BY <3>1, <3>3
  <2> QED
    BY <2>2, <2>3
<1>5. Stages(database', asyncQueue') = st /\ Len(asyncQueue') = n
  BY <1>2
<1>6. MemoryOK'
  BY <1>4, <1>5 DEF MemoryOK
<1>7. QueueOK(Stages(database', asyncQueue'), asyncQueue', online', _mailId', destroyed')
  BY <1>2, <1>3
<1> QED
  BY <1>6, <1>7 DEF IInv

\* A mailbox in which one mail gets another state.
LEMMA StateChanged ==
    ASSUME NEW a \in Boxes, NEW id \in MailIds, a[id] # NoMail,
           NEW state \in {"CHANGED", "DELETED"}
    PROVE  \E b \in Boxes :
              /\ b = [a EXCEPT ![id].state = state]
              /\ \A o \in MailIds : o # id => b[o] = a[o]
              /\ b[id] # NoMail /\ b[id].state = state
              /\ b[id].sender = a[id].sender /\ b[id].money = a[id].money
              /\ b[id].COD = a[id].COD /\ b[id].items = a[id].items
              /\ b[id].removedItems = a[id].removedItems
<1>1. PICK m \in Mails : m = a[id]
  BY DEF Boxes
<1>2. PICK m2 : m2 = [m EXCEPT !.state = state]
  OBVIOUS
<1>3. /\ m2 \in Mails /\ m2.state = state
      /\ m2.sender = m.sender /\ m2.money = m.money /\ m2.COD = m.COD
      /\ m2.items = m.items /\ m2.removedItems = m.removedItems
  <2>1. state \in {"UNCHANGED", "CHANGED", "DELETED"}
    OBVIOUS
  <2> QED
    BY <1>2, <2>1 DEF Mails
<1>4. PICK b \in Boxes : b = [a EXCEPT ![id] = m2]
  <2>1. [a EXCEPT ![id] = m2] \in Boxes
    BY <1>3 DEF Boxes
  <2> QED
    BY <2>1
<1>5. b = [a EXCEPT ![id].state = state]
  BY <1>1, <1>2, <1>4
<1>6. b[id] = m2 /\ \A o \in MailIds : o # id => b[o] = a[o]
  BY <1>4 DEF Boxes
<1> QED
  BY <1>1, <1>5, <1>6, <1>3, NoneApart

\* Marking a mail as read.
LEMMA MarkAsReadKeeps ==
    ASSUME IInv, NEW p \in Players, NEW id \in MailIds, HandleMailMarkAsRead(p, id)
    PROVE  IInv'
<1>1. /\ TypeOK /\ online[p] = "in" /\ loading = Nobody /\ m_mail \in [Players -> Boxes]
  BY DEF IInv, HandleMailMarkAsRead, Handles, TypeOK, Boxes
<1>2. PICK a \in Boxes : a = m_mail[p]
  BY <1>1
<1>3. /\ MailboxOK(a, p, Final, destroyed)
      /\ \A o \in MailIds : a[o] # NoMail => m_mailsLoaded[p]
  BY <1>1, <1>2, InWorld
<1>4. a[id] # NoMail /\ m_mailsLoaded[p]
  BY <1>2, <1>3 DEF HandleMailMarkAsRead, Live, Has
<1>5. PICK b \in Boxes :
        /\ b = [a EXCEPT ![id].state = "CHANGED"]
        /\ \A o \in MailIds : o # id => b[o] = a[o]
        /\ b[id] # NoMail /\ b[id].state = "CHANGED"
        /\ b[id].sender = a[id].sender /\ b[id].money = a[id].money
        /\ b[id].COD = a[id].COD /\ b[id].items = a[id].items
        /\ b[id].removedItems = a[id].removedItems
  BY <1>4, StateChanged
<1>6. /\ database' = database /\ asyncQueue' = asyncQueue /\ online' = online
      /\ m_money' = m_money /\ m_items' = m_items /\ m_mailsLoaded' = m_mailsLoaded
      /\ loading' = Nobody /\ _mailId' = _mailId /\ destroyed' = destroyed
      /\ m_mail' = [m_mail EXCEPT ![p] = b]
  BY <1>1, <1>2, <1>5 DEF HandleMailMarkAsRead
<1>7. MailboxOK(b, p, Final, destroyed)
  <2> SUFFICES ASSUME NEW o \in MailIds, b[o] # NoMail
               PROVE  MailOK(b[o], o, p, Final, TRUE, destroyed)
    BY DEF MailboxOK
  <2>1. a[o] # NoMail
    BY <1>4, <1>5
  <2>2. MailOK(a[o], o, p, Final, TRUE, destroyed)
    BY <1>3, <2>1 DEF MailboxOK
  <2> QED
    BY <1>5, <2>2 DEF MailOK
<1>8. TypeOK'
  <2>1. m_mail' \in [Players -> Boxes]
    BY <1>1, <1>6
  <2> QED
    BY <1>1, <1>6, <2>1 DEF TypeOK, Boxes
<1>9. destroyed \subseteq destroyed' /\ MailboxOK(b, p, Final, destroyed')
  BY <1>6, <1>7
<1> QED
  BY <1>1, <1>4, <1>6, <1>8, <1>9, BoxKeeps

\* Deleting a mail: it stays in the database until the mailbox is saved.
LEMMA DeleteKeeps ==
    ASSUME IInv, NEW p \in Players, NEW id \in MailIds, HandleMailDelete(p, id)
    PROVE  IInv'
<1>1. /\ TypeOK /\ online[p] = "in" /\ loading = Nobody /\ m_mail \in [Players -> Boxes]
  BY DEF IInv, HandleMailDelete, Handles, TypeOK, Boxes
<1>2. PICK a \in Boxes : a = m_mail[p]
  BY <1>1
<1>3. /\ MailboxOK(a, p, Final, destroyed)
      /\ \A o \in MailIds : a[o] # NoMail => m_mailsLoaded[p]
  BY <1>1, <1>2, InWorld
<1>4. a[id] # NoMail /\ m_mailsLoaded[p]
  BY <1>2, <1>3 DEF HandleMailDelete, Has
<1>5. PICK b \in Boxes :
        /\ b = [a EXCEPT ![id].state = "DELETED"]
        /\ \A o \in MailIds : o # id => b[o] = a[o]
        /\ b[id] # NoMail /\ b[id].state = "DELETED"
        /\ b[id].sender = a[id].sender /\ b[id].money = a[id].money
        /\ b[id].COD = a[id].COD /\ b[id].items = a[id].items
        /\ b[id].removedItems = a[id].removedItems
  BY <1>4, StateChanged
<1>6. /\ database' = database /\ asyncQueue' = asyncQueue /\ online' = online
      /\ m_money' = m_money /\ m_items' = m_items /\ m_mailsLoaded' = m_mailsLoaded
      /\ loading' = Nobody /\ _mailId' = _mailId
      /\ destroyed' = destroyed \cup a[id].money \cup a[id].items
      /\ m_mail' = [m_mail EXCEPT ![p] = b]
  BY <1>1, <1>2, <1>5 DEF HandleMailDelete
<1>7. MailboxOK(b, p, Final, destroyed')
  <2> SUFFICES ASSUME NEW o \in MailIds, b[o] # NoMail
               PROVE  MailOK(b[o], o, p, Final, TRUE, destroyed')
    BY DEF MailboxOK
  <2>1. a[o] # NoMail
    BY <1>4, <1>5
  <2>2. MailOK(a[o], o, p, Final, TRUE, destroyed)
    BY <1>3, <2>1 DEF MailboxOK
  <2> QED
    BY <1>5, <1>6, <2>2 DEF MailOK
<1>8. TypeOK'
  <2>1. m_mail' \in [Players -> Boxes]
    BY <1>1, <1>6
  <2>2. a[id].money \subseteq Coins /\ a[id].items \subseteq Items
    BY <1>4 DEF Boxes, Mails
  <2>3. destroyed' \subseteq Things
    BY <1>1, <1>6, <2>2 DEF TypeOK, Things
  <2> QED
    BY <1>1, <1>6, <2>1, <2>3 DEF TypeOK, Boxes
<1>9. destroyed \subseteq destroyed'
  BY <1>6
<1> QED
  BY <1>1, <1>4, <1>6, <1>7, <1>8, <1>9, BoxKeeps

\* A row of the database as the first query of a mailbox gives it.
Read(row, p) ==
    IF row = NoMail THEN NoMail
    ELSE IF row.receiver # p THEN NoMail
    ELSE [sender |-> row.sender, receiver |-> p, money |-> row.money,
          COD |-> row.COD, items |-> {}, removedItems |-> {},
          state |-> "UNCHANGED"]

\* The mails a player finds with the first query are his to the end of the queue.
LEMMA ReadMail ==
    ASSUME NEW db \in Databases, NEW p \in Players, NEW id \in MailIds,
           Read(db.mail[id], p) # NoMail
    PROVE  \E m \in Mails :
              /\ m = Read(db.mail[id], p)
              /\ id \in Addressed(db, p)
              /\ m.sender = db.mail[id].sender /\ m.money = db.mail[id].money
              /\ m.COD = db.mail[id].COD /\ m.items = {} /\ m.removedItems = {}
              /\ m.state = "UNCHANGED"
<1>1. PICK row \in Rows : row = db.mail[id] /\ row # NoMail /\ row.receiver = p
  BY DatabaseParts, NoneApart DEF Read
<1>2. id \in Addressed(db, p)
  BY <1>1 DEF Addressed, MailsOf
<1>3. PICK m : m = [sender |-> row.sender, receiver |-> p, money |-> row.money,
                    COD |-> row.COD, items |-> {}, removedItems |-> {},
                    state |-> "UNCHANGED"]
  OBVIOUS
<1>4. m = Read(db.mail[id], p)
  BY <1>1, <1>3 DEF Read
<1>5. m \in Mails
  BY <1>1, <1>3 DEF Mails, Rows
<1> QED
  BY <1>1, <1>2, <1>3, <1>4, <1>5

\* The first query of a mailbox.
LEMMA LoadMailsKeeps ==
    ASSUME IInv, NEW p \in Players, LoadMails(p)
    PROVE  IInv'
<1>1. /\ TypeOK /\ MemoryOK /\ online[p] = "in" /\ loading = Nobody
      /\ m_mailsLoaded[p] = FALSE
      /\ QueueOK(Stages(database, asyncQueue), asyncQueue, online, _mailId, destroyed)
      /\ database \in Databases /\ asyncQueue \in Seq(Elements)
      /\ m_mail \in [Players -> Boxes]
  BY DEF IInv, LoadMails, Handles, TypeOK, Boxes
<1>2. PICK n \in Nat, st \in [0 .. Len(asyncQueue) -> Databases] :
        /\ n = Len(asyncQueue) /\ st = Stages(database, asyncQueue)
        /\ st[0] = database
  BY <1>1, StagesSteps
<1>3. PICK box : box = [id \in MailIds |-> Read(database.mail[id], p)]
  OBVIOUS
<1>4. \A id \in MailIds : box[id] = Read(database.mail[id], p)
  BY <1>3
<1>5. box \in Boxes
  <2>1. \A id \in MailIds : Read(database.mail[id], p) \in Mails \cup {NoMail}
    BY <1>1, ReadMail
  <2> QED
    BY <1>3, <2>1 DEF Boxes
<1>6. /\ asyncQueue' = asyncQueue /\ database' = database /\ destroyed' = destroyed
      /\ _mailId' = _mailId /\ loading' = p /\ online' = online
      /\ m_money' = m_money /\ m_items' = m_items /\ m_mailsLoaded' = m_mailsLoaded
      /\ m_mail' = [m_mail EXCEPT ![p] = box]
  <2>1. m_mail' = [m_mail EXCEPT ![p] = [id \in MailIds |-> Read(database.mail[id], p)]]
    BY DEF LoadMails, Read
  <2> QED
    BY <1>3, <2>1 DEF LoadMails
<1>7. TypeOK'
  <2>1. m_mail' \in [Players -> Boxes]
    BY <1>1, <1>5, <1>6
  <2> QED
    BY <1>1, <1>6, <2>1 DEF TypeOK, Boxes
<1>8. ASSUME NEW q \in Players
      PROVE  PlayerOK(st, n, q, online[q], m_money[q], m_items[q], m_mailsLoaded[q],
                      m_mail'[q], p, destroyed)
  <2>1. PlayerOK(st, n, q, online[q], m_money[q], m_items[q], m_mailsLoaded[q], m_mail[q],
                 Nobody, destroyed)
    BY <1>1, <1>2 DEF MemoryOK
  <2>2. CASE q # p
    <3>1. m_mail'[q] = m_mail[q] /\ q # Nobody
      BY <1>1, <1>6, <2>2, NoneApart
    <3> QED
      BY <2>1, <2>2, <3>1 DEF PlayerOK
  <2>3. CASE q = p
    <3>1. m_mail'[q] = box /\ q # Nobody
      BY <1>1, <1>6, <2>3, NoneApart
    <3>2. /\ Settled(st, 0, n, p) /\ 0 \in 0 .. n /\ n \in 0 .. n
          /\ m_money[p] = st[n].money[p] /\ m_items[p] = Carried(st[n], p)
      BY <1>1, <2>1, <2>3 DEF PlayerOK
    <3>3. ASSUME NEW id \in MailIds, box[id] # NoMail
          PROVE  /\ MailOK(box[id], id, p, st[n], FALSE, destroyed)
                 /\ LoadingOK(box[id], id, p, st[0])
      <4>1. PICK m \in Mails :
              /\ m = box[id]
              /\ id \in Addressed(database, p)
              /\ m.sender = database.mail[id].sender /\ m.money = database.mail[id].money
              /\ m.COD = database.mail[id].COD /\ m.items = {} /\ m.removedItems = {}
              /\ m.state = "UNCHANGED"
        <5>1. box[id] = Read(database.mail[id], p) /\ Read(database.mail[id], p) # NoMail
          BY <1>4, <3>3
        <5>2. PICK m \in Mails :
                /\ m = Read(database.mail[id], p)
                /\ id \in Addressed(database, p)
                /\ m.sender = database.mail[id].sender /\ m.money = database.mail[id].money
                /\ m.COD = database.mail[id].COD /\ m.items = {} /\ m.removedItems = {}
                /\ m.state = "UNCHANGED"
          BY ONLY <1>1, <3>3, <5>1, ReadMail
        <5> QED
          BY <5>1, <5>2
      <4>2. Same(st[0], st[n], id)
        BY <1>2, <3>2, <4>1 DEF Settled
      <4>3. st[n].mail[id] = database.mail[id] /\ id \in Addressed(st[n], p)
        BY <1>2, <4>1, <4>2 DEF Same, Addressed, MailsOf
      <4> QED
        BY <1>2, <4>1, <4>3 DEF MailOK, LoadingOK
    <3> QED
      BY <1>1, <2>1, <2>3, <3>1, <3>2, <3>3 DEF PlayerOK
  <2> QED
    BY <2>2, <2>3
<1>9. Stages(database', asyncQueue') = st /\ Len(asyncQueue') = n
  BY <1>2, <1>6
<1>10. MemoryOK'
  BY <1>6, <1>8, <1>9 DEF MemoryOK
<1>11. QueueOK(Stages(database', asyncQueue'), asyncQueue', online', _mailId', destroyed')
  BY <1>1, <1>6
<1> QED
  BY <1>7, <1>10, <1>11 DEF IInv

\* The second query: what the items of a mail are.
LEMMA FilledMail ==
    ASSUME NEW m \in Mails, NEW items \in SUBSET Items
    PROVE  \E m2 \in Mails :
              /\ m2 = [m EXCEPT !.items = items]
              /\ m2.sender = m.sender /\ m2.money = m.money /\ m2.COD = m.COD
              /\ m2.items = items /\ m2.removedItems = m.removedItems /\ m2.state = m.state
<1>1. PICK m2 : m2 = [m EXCEPT !.items = items]
  OBVIOUS
<1>2. /\ m2 \in Mails
      /\ m2.sender = m.sender /\ m2.money = m.money /\ m2.COD = m.COD
      /\ m2.items = items /\ m2.removedItems = m.removedItems /\ m2.state = m.state
  BY <1>1 DEF Mails
<1> QED
  BY <1>1, <1>2

\* The second query of a mailbox: nothing has come between the two.
LEMMA LoadMailItemsKeeps ==
    ASSUME IInv, LoadMailItems
    PROVE  IInv'
<1>1. /\ TypeOK /\ MemoryOK /\ loading # Nobody
      /\ QueueOK(Stages(database, asyncQueue), asyncQueue, online, _mailId, destroyed)
      /\ database \in Databases /\ asyncQueue \in Seq(Elements)
      /\ m_mail \in [Players -> Boxes]
  BY DEF IInv, LoadMailItems, TypeOK, Boxes
<1>2. PICK n \in Nat, st \in [0 .. Len(asyncQueue) -> Databases] :
        /\ n = Len(asyncQueue) /\ st = Stages(database, asyncQueue)
        /\ st[0] = database
  BY <1>1, StagesSteps
<1>3. PICK p \in Players, a \in Boxes : p = loading /\ a = m_mail[p]
  BY <1>1 DEF TypeOK
<1>4. PlayerOK(st, n, p, online[p], m_money[p], m_items[p], m_mailsLoaded[p], a, p, destroyed)
  BY <1>1, <1>2, <1>3 DEF MemoryOK
<1>5. /\ online[p] = "in" /\ ~m_mailsLoaded[p]
      /\ Settled(st, 0, n, p) /\ 0 \in 0 .. n /\ n \in 0 .. n
      /\ m_money[p] = st[n].money[p] /\ m_items[p] = Carried(st[n], p)
      /\ \A id \in MailIds : a[id] # NoMail =>
            /\ MailOK(a[id], id, p, st[n], m_mailsLoaded[p], destroyed)
            /\ LoadingOK(a[id], id, p, st[0])
  BY <1>4 DEF PlayerOK
<1>6. PICK box : box = [id \in MailIds |->
            LET row == database.mail[id]
                mine == IF row = NoMail THEN FALSE ELSE row.receiver = p
            IN Filled(a, IF mine THEN Attached(database, id) ELSE {}, id)]
  OBVIOUS
<1>7. ASSUME NEW id \in MailIds, a[id] # NoMail
      PROVE  /\ box[id] \in Mails
             /\ MailOK(box[id], id, p, st[n], TRUE, destroyed)
  <2>1. /\ id \in Addressed(database, p)
        /\ MailOK(a[id], id, p, st[n], m_mailsLoaded[p], destroyed)
        /\ a[id].state = "UNCHANGED"
    BY <1>2, <1>5, <1>7 DEF LoadingOK
  <2>2. PICK items \in SUBSET Items : items = Attached(database, id)
    BY <1>1, DatabaseParts DEF Attached
  <2>3. PICK m \in Mails : m = a[id]
    BY <1>7 DEF Boxes
  <2>4. box[id] = [m EXCEPT !.items = items]
    <3>1. database.mail[id] # NoMail /\ database.mail[id].receiver = p
      BY <2>1 DEF Addressed, MailsOf
    <3>2. box[id] = Filled(a, Attached(database, id), id)
      BY <1>6, <3>1
    <3> QED
      BY <1>7, <2>2, <2>3, <3>2 DEF Filled
  <2>5. PICK m2 \in Mails :
              /\ m2 = [m EXCEPT !.items = items]
              /\ m2.sender = m.sender /\ m2.money = m.money /\ m2.COD = m.COD
              /\ m2.items = items /\ m2.removedItems = m.removedItems /\ m2.state = m.state
    BY FilledMail
  <2>6. Same(st[0], st[n], id)
    BY <1>2, <1>5, <2>1 DEF Settled
  <2>7. items = Attached(st[n], id)
    BY <1>2, <2>2, <2>6 DEF Same
  <2>8. m2.state # "DELETED" /\ m2 = box[id]
    BY <2>1, <2>3, <2>4, <2>5
  <2> QED
    BY <2>1, <2>3, <2>5, <2>7, <2>8 DEF MailOK
<1>8. ASSUME NEW id \in MailIds, a[id] = NoMail
      PROVE  box[id] = NoMail
  BY <1>6, <1>8 DEF Filled
<1>9. box \in Boxes
  <2>1. \A id \in MailIds : box[id] \in Mails \cup {NoMail}
    BY <1>7, <1>8
  <2>2. box = [id \in MailIds |-> box[id]]
    BY <1>6
  <2> QED
    BY <2>1, <2>2 DEF Boxes
<1>10. /\ asyncQueue' = asyncQueue /\ database' = database /\ destroyed' = destroyed
       /\ _mailId' = _mailId /\ loading' = Nobody /\ online' = online
       /\ m_money' = m_money /\ m_items' = m_items
       /\ m_mailsLoaded' = [m_mailsLoaded EXCEPT ![p] = TRUE]
       /\ m_mail' = [m_mail EXCEPT ![p] = box]
  <2>1. m_mail' = [m_mail EXCEPT ![p] = [id \in MailIds |->
            LET row == database.mail[id]
                mine == IF row = NoMail THEN FALSE ELSE row.receiver = p
            IN Filled(m_mail[p], IF mine THEN Attached(database, id) ELSE {}, id)]]
    BY <1>3 DEF LoadMailItems
  <2> QED
    BY <1>3, <1>6, <2>1 DEF LoadMailItems
<1>11. TypeOK'
  <2>1. m_mail' \in [Players -> Boxes]
    BY <1>1, <1>9, <1>10
  <2> QED
    BY <1>1, <1>10, <2>1 DEF TypeOK, Boxes
<1>12. ASSUME NEW q \in Players
       PROVE  PlayerOK(st, n, q, online[q], m_money[q], m_items[q], m_mailsLoaded'[q],
                       m_mail'[q], Nobody, destroyed)
  <2>1. PlayerOK(st, n, q, online[q], m_money[q], m_items[q], m_mailsLoaded[q], m_mail[q],
                 p, destroyed)
    BY <1>1, <1>2, <1>3 DEF MemoryOK
  <2>2. CASE q # p
    <3>1. m_mail'[q] = m_mail[q] /\ m_mailsLoaded'[q] = m_mailsLoaded[q] /\ q # Nobody
      BY <1>1, <1>10, <2>2, NoneApart DEF TypeOK
    <3> QED
      BY <2>1, <2>2, <3>1 DEF PlayerOK
  <2>3. CASE q = p
    <3>1. m_mail'[q] = box /\ m_mailsLoaded'[q] = TRUE /\ q # Nobody
      BY <1>1, <1>10, <2>3, NoneApart DEF TypeOK
    <3>2. \A id \in MailIds : box[id] # NoMail => MailOK(box[id], id, p, st[n], TRUE, destroyed)
      BY <1>7, <1>8
    <3> QED
      BY <1>5, <2>3, <3>1, <3>2 DEF PlayerOK
  <2> QED
    BY <2>2, <2>3
<1>13. Stages(database', asyncQueue') = st /\ Len(asyncQueue') = n
  BY <1>2, <1>10
<1>14. MemoryOK'
  BY <1>10, <1>12, <1>13 DEF MemoryOK
<1>15. QueueOK(Stages(database', asyncQueue'), asyncQueue', online', _mailId', destroyed')
  BY <1>1, <1>10
<1> QED
  BY <1>11, <1>14, <1>15 DEF IInv

-----------------------------------------------------------------------------
(***************************************************************************)
(* The worker executes the first element of the queue: every stage moves   *)
(* one place to the front.                                                 *)
(***************************************************************************)
\* What is settled stays so.
LEMMA SettledShrinks ==
    ASSUME NEW n \in Nat, NEW k \in 1 .. n, NEW st, NEW st2, NEW p, NEW m \in 0 .. k,
           Settled(st, m, n, p), \A a \in 0 .. n - 1 : st2[a] = st[a + 1]
    PROVE  Settled(st2, k - 1, n - 1, p)
<1> SUFFICES ASSUME NEW a \in k - 1 .. n - 1, NEW id \in Addressed(st2[a], p), NEW b \in a .. n - 1
             PROVE  Same(st2[a], st2[b], id)
  BY DEF Settled
<1>1. PICK c, d : c = a + 1 /\ d = b + 1
  OBVIOUS
<1>2. c \in m .. n /\ d \in c .. n /\ a \in 0 .. n - 1 /\ b \in 0 .. n - 1
  BY <1>1
<1>3. st2[a] = st[c] /\ st2[b] = st[d]
  BY <1>1, <1>2
<1>4. id \in Addressed(st[c], p)
  BY <1>3
<1>5. Same(st[c], st[d], id)
  BY <1>2, <1>4 DEF Settled
<1> QED
  BY <1>3, <1>5

\* The queue without its first element.
LEMMA QueueShrinks ==
    ASSUME NEW q \in Seq(Elements), q # <<>>, NEW st, NEW st2, NEW on, NEW on2,
           NEW next, NEW gone,
           QueueOK(st, q, on, next, gone),
           \A k \in 0 .. Len(q) - 1 : st2[k] = st[k + 1],
           \A p \in Players : on[p] = "loading" /\ ~(q[1].what = "login" /\ q[1].player = p)
                => on2[p] = "loading"
    PROVE  QueueOK(st2, Tail(q), on2, next, gone)
<1>1. PICK n \in Nat, r \in Seq(Elements) :
        /\ n = Len(q) /\ n >= 1 /\ r = Tail(q) /\ Len(r) = n - 1
        /\ \A k \in 1 .. n - 1 : r[k] = q[k + 1]
        /\ \A k \in 1 .. n : q[k] \in Elements
  <2>1. /\ Len(q) \in Nat /\ Len(q) >= 1 /\ Tail(q) \in Seq(Elements)
        /\ Len(Tail(q)) = Len(q) - 1
        /\ \A k \in 1 .. Len(q) - 1 : Tail(q)[k] = q[k + 1]
        /\ \A k \in 1 .. Len(q) : q[k] \in Elements
    OBVIOUS
  <2> QED
    BY <2>1
<1>2. /\ \A k \in 0 .. n - 1 : st2[k] = st[k + 1]
      /\ \A k \in 0 .. n : Sound(st[k], next, gone)
      /\ \A k \in 1 .. n : PaidStep(st[k - 1], st[k])
      /\ \A k \in 1 .. n : q[k].what = "login" => LoginOK(st, q, on, k)
  BY <1>1 DEF QueueOK
<1>3. ASSUME NEW k \in 0 .. n - 1 PROVE Sound(st2[k], next, gone)
  BY <1>1, <1>2
<1>4. ASSUME NEW k \in 1 .. n - 1 PROVE PaidStep(st2[k - 1], st2[k])
  <2>1. PICK l : l = k + 1
    OBVIOUS
  <2>2. l \in 1 .. n /\ st2[k] = st[l] /\ st2[k - 1] = st[l - 1]
    <3>1. l \in 1 .. n /\ k - 1 \in 0 .. n - 1 /\ k \in 0 .. n - 1 /\ k - 1 + 1 = l - 1
      BY <1>1, <2>1
    <3>2. st2[k - 1] = st[k - 1 + 1]
      BY <1>2, <3>1
    <3> QED
      BY <1>2, <2>1, <3>1, <3>2
  <2> QED
    BY <1>2, <2>2
<1>5. ASSUME NEW k \in 1 .. n - 1, r[k].what = "login" PROVE LoginOK(st2, r, on2, k)
  <2>1. PICK l \in 1 .. n, p \in Players :
          l = k + 1 /\ q[l].what = "login" /\ q[l].player = p /\ r[k].player = p
    <3>1. k + 1 \in 1 .. n /\ q[k + 1] = r[k] /\ q[k + 1] \in Elements
      BY <1>1
    <3> QED
      BY <1>5, <3>1, ElementKinds
  <2>2. /\ on[p] = "loading"
        /\ \A j \in 1 .. n : q[j].what = "login" /\ q[j].player = p => j = l
        /\ st[l].money[p] = st[n].money[p]
        /\ Carried(st[l], p) = Carried(st[n], p)
        /\ Settled(st, l, n, p)
    BY <1>1, <1>2, <2>1 DEF LoginOK
  <2>3. on2[p] = "loading"
    <3>1. 1 \in 1 .. n /\ l # 1
      BY <1>1, <2>1
    <3>2. ~(q[1].what = "login" /\ q[1].player = p)
      BY <2>2, <3>1
    <3> QED
      BY <2>2, <3>2
  <2>4. ASSUME NEW j \in 1 .. n - 1, r[j].what = "login", r[j].player = p PROVE j = k
    <3>1. j + 1 \in 1 .. n /\ q[j + 1] = r[j]
      BY <1>1
    <3>2. j + 1 = l
      BY <2>2, <2>4, <3>1
    <3> QED
      BY <1>1, <2>1, <3>2
  <2>5. st2[k] = st[l] /\ st2[n - 1] = st[n]
    <3>1. k \in 0 .. n - 1 /\ n - 1 \in 0 .. n - 1 /\ n - 1 + 1 = n
      BY <1>1
    <3>2. st2[n - 1] = st[n - 1 + 1]
      BY <1>2, <3>1
    <3> QED
      BY <1>2, <2>1, <3>1, <3>2
  <2>6. Settled(st2, k, n - 1, p)
    <3>1. l \in 0 .. l /\ l - 1 = k
      BY <2>1
    <3>2. Settled(st2, l - 1, n - 1, p)
      BY ONLY <1>1, <1>2, <2>1, <2>2, <3>1, SettledShrinks
    <3> QED
      BY <3>1, <3>2
  <2> QED
    BY <1>1, <2>1, <2>2, <2>3, <2>4, <2>5, <2>6 DEF LoginOK
<1> QED
  BY <1>1, <1>3, <1>4, <1>5 DEF QueueOK

\* A player keeps what he has.
LEMMA PlayerShrinks ==
    ASSUME NEW n \in Nat, n >= 1, NEW st, NEW st2, NEW p, NEW on, NEW money, NEW items,
           NEW listed \in BOOLEAN, NEW box, NEW ld, NEW gone,
           PlayerOK(st, n, p, on, money, items, listed, box, ld, gone),
           on \in {"out", "loading", "in"},
           \A k \in 0 .. n - 1 : st2[k] = st[k + 1]
    PROVE  PlayerOK(st2, n - 1, p, on, money, items, listed, box, ld, gone)
<1>1. st2[n - 1] = st[n] /\ st2[0] = st[1]
  <2>1. n - 1 \in 0 .. n - 1 /\ n - 1 + 1 = n /\ 0 \in 0 .. n - 1 /\ 0 + 1 = 1
    OBVIOUS
  <2>2. st2[n - 1] = st[n - 1 + 1] /\ st2[0] = st[0 + 1]
    BY <2>1
  <2> QED
    BY <2>1, <2>2
<1>2. ASSUME on = "in", ~listed PROVE Settled(st, 0, n, p)
  BY <1>2 DEF PlayerOK
<1>3. ASSUME on = "in", ~listed PROVE Settled(st2, 0, n - 1, p)
  <2>1. 1 \in 1 .. n /\ 0 \in 0 .. 1 /\ 1 - 1 = 0
    OBVIOUS
  <2>2. Settled(st2, 1 - 1, n - 1, p)
    BY <1>2, <1>3, <2>1, SettledShrinks
  <2> QED
    BY <2>1, <2>2
<1>4. ASSUME ld = p, NEW id \in MailIds, box[id] # NoMail
      PROVE  LoadingOK(box[id], id, p, st2[0])
  <2>1. on = "in" /\ ~listed /\ LoadingOK(box[id], id, p, st[0])
    BY <1>4 DEF PlayerOK
  <2>2. 0 \in 0 .. n /\ 1 \in 0 .. n
    OBVIOUS
  <2>3. Same(st[0], st[1], id) /\ id \in Addressed(st[0], p)
    BY <1>2, <2>1, <2>2 DEF Settled, LoadingOK
  <2>4. id \in Addressed(st[1], p)
    BY <2>3 DEF Same, Addressed, MailsOf
  <2> QED
    BY <1>1, <2>1, <2>4 DEF LoadingOK
<1> QED
  BY <1>1, <1>3, <1>4 DEF PlayerOK

\* What the worker takes from the queue, and what it leaves.
Takes(e, n, st, st2) ==
    /\ e \in Elements /\ e = Head(asyncQueue) /\ e = asyncQueue[1]
    /\ asyncQueue # <<>> /\ n = Len(asyncQueue) /\ n >= 1
    /\ Tail(asyncQueue) \in Seq(Elements) /\ Len(Tail(asyncQueue)) = n - 1
    /\ st = Stages(database, asyncQueue) /\ st[0] = database
    /\ st[1] = Effect(database, e)
    /\ st2 = Stages(Effect(database, e), Tail(asyncQueue))
    /\ Effect(database, e) \in Databases
    /\ \A k \in 0 .. n - 1 : st2[k] = st[k + 1]

\* There is something to take when the queue is not empty.
LEMMA WorkerTakes ==
    ASSUME TypeOK, asyncQueue # <<>>
    PROVE  \E e, st, st2 : \E n \in Nat : Takes(e, n, st, st2)
<1>1. database \in Databases /\ asyncQueue \in Seq(Elements)
  BY DEF TypeOK
<1>2. PICK e, n : e = Head(asyncQueue) /\ n = Len(asyncQueue)
  OBVIOUS
<1>3. /\ e = asyncQueue[1] /\ e \in Elements /\ n \in Nat /\ n >= 1
      /\ Tail(asyncQueue) \in Seq(Elements) /\ Len(Tail(asyncQueue)) = n - 1
  BY <1>1, <1>2
<1>4. PICK st, st2 : /\ st = Stages(database, asyncQueue)
                     /\ st2 = Stages(Effect(database, e), Tail(asyncQueue))
  OBVIOUS
<1>5. st[0] = database /\ st[1] = Effect(database, e)
  <2>1. /\ st[0] = database
        /\ \A k \in 1 .. n : st[k] = Effect(st[k - 1], asyncQueue[k])
    BY <1>1, <1>2, <1>4, StagesSteps
  <2>2. 1 \in 1 .. n /\ 1 - 1 = 0
    BY <1>3
  <2>3. st[1] = Effect(st[1 - 1], asyncQueue[1])
    BY <2>1, <2>2
  <2> QED
    BY <1>3, <2>1, <2>2, <2>3
<1>6. Effect(database, e) \in Databases
  BY <1>1, <1>3, EffectType
<1>7. \A k \in 0 .. n - 1 : st2[k] = st[k + 1]
  BY <1>1, <1>2, <1>4, StagesTail
<1> QED
  BY <1>2, <1>3, <1>4, <1>5, <1>6, <1>7 DEF Takes

\* The worker executes a transaction.
LEMMA ExecuteTransactionKeeps ==
    ASSUME IInv, ExecuteTransaction
    PROVE  IInv'
<1>1. /\ TypeOK /\ MemoryOK /\ asyncQueue # <<>> /\ asyncQueue \in Seq(Elements)
      /\ QueueOK(Stages(database, asyncQueue), asyncQueue, online, _mailId, destroyed)
  BY DEF IInv, ExecuteTransaction, TypeOK
<1>2. PICK e, st, st2, n : n \in Nat /\ Takes(e, n, st, st2)
  BY <1>1, WorkerTakes
<1>3. /\ e = Head(asyncQueue) /\ e = asyncQueue[1] /\ n = Len(asyncQueue) /\ n >= 1
      /\ Tail(asyncQueue) \in Seq(Elements) /\ Len(Tail(asyncQueue)) = n - 1
      /\ st = Stages(database, asyncQueue)
      /\ st2 = Stages(Effect(database, e), Tail(asyncQueue))
      /\ Effect(database, e) \in Databases
      /\ \A k \in 0 .. n - 1 : st2[k] = st[k + 1]
  BY <1>2 DEF Takes
<1>4. e.what = "transaction" /\ database' = Effect(database, e)
  BY <1>3 DEF ExecuteTransaction, Effect
<1>5. /\ asyncQueue' = Tail(asyncQueue) /\ destroyed' = destroyed
      /\ _mailId' = _mailId /\ loading' = loading /\ online' = online
      /\ m_money' = m_money /\ m_items' = m_items /\ m_mailsLoaded' = m_mailsLoaded
      /\ m_mail' = m_mail
  BY DEF ExecuteTransaction, memory
<1>6. TypeOK'
  BY <1>1, <1>3, <1>4, <1>5 DEF TypeOK
<1>7. QueueOK(st2, Tail(asyncQueue), online, _mailId, destroyed)
  <2>1. QueueOK(st, asyncQueue, online, _mailId, destroyed)
    BY <1>1, <1>3
  <2>2. \A k \in 0 .. Len(asyncQueue) - 1 : st2[k] = st[k + 1]
    BY <1>3
  <2> QED
    BY <1>1, <2>1, <2>2, QueueShrinks
<1>8. ASSUME NEW q \in Players
      PROVE  PlayerOK(st2, n - 1, q, online[q], m_money[q], m_items[q], m_mailsLoaded[q],
                      m_mail[q], loading, destroyed)
  <2>1. PlayerOK(st, n, q, online[q], m_money[q], m_items[q], m_mailsLoaded[q], m_mail[q],
                 loading, destroyed)
    BY <1>1, <1>3 DEF MemoryOK
  <2>2. m_mailsLoaded[q] \in BOOLEAN /\ online[q] \in {"out", "loading", "in"}
    BY <1>1 DEF TypeOK
  <2> QED
    BY ONLY <1>2, <1>3, <2>1, <2>2, PlayerShrinks
<1>9. Stages(database', asyncQueue') = st2 /\ Len(asyncQueue') = n - 1
  BY <1>3, <1>4, <1>5
<1>10. MemoryOK'
  BY <1>5, <1>8, <1>9 DEF MemoryOK
<1>11. QueueOK(Stages(database', asyncQueue'), asyncQueue', online', _mailId', destroyed')
  BY <1>5, <1>7, <1>9
<1> QED
  BY <1>6, <1>10, <1>11 DEF IInv

\* The player finds in the database what the queue leaves him.
LEMMA ExecuteLoginKeeps ==
    ASSUME IInv, ExecuteLogin
    PROVE  IInv'
<1>1. /\ TypeOK /\ MemoryOK /\ asyncQueue # <<>> /\ asyncQueue \in Seq(Elements)
      /\ QueueOK(Stages(database, asyncQueue), asyncQueue, online, _mailId, destroyed)
      /\ database \in Databases
  BY DEF IInv, ExecuteLogin, TypeOK
<1>2. PICK e, st, st2, n : n \in Nat /\ Takes(e, n, st, st2)
  BY <1>1, WorkerTakes
<1>3. /\ e = Head(asyncQueue) /\ e = asyncQueue[1] /\ n = Len(asyncQueue) /\ n >= 1
      /\ e \in Elements
      /\ Tail(asyncQueue) \in Seq(Elements) /\ Len(Tail(asyncQueue)) = n - 1
      /\ st = Stages(database, asyncQueue) /\ st[0] = database
      /\ st[1] = Effect(database, e)
      /\ st2 = Stages(Effect(database, e), Tail(asyncQueue))
      /\ \A k \in 0 .. n - 1 : st2[k] = st[k + 1]
  BY <1>2 DEF Takes
<1>4. e.what = "login" /\ Effect(database, e) = database
  BY <1>3 DEF ExecuteLogin, Effect
<1>5. PICK p \in Players : p = e.player
  BY <1>3, <1>4, ElementKinds
<1>6. PICK items \in SUBSET Items : items = Carried(database, p)
  BY <1>1, DatabaseParts DEF Carried
<1>7. PICK money \in SUBSET Coins : money = database.money[p]
  BY <1>1, DatabaseParts
<1>8. /\ asyncQueue' = Tail(asyncQueue) /\ destroyed' = destroyed /\ database' = database
      /\ _mailId' = _mailId /\ loading' = loading /\ m_mailsLoaded' = m_mailsLoaded
      /\ m_mail' = m_mail
      /\ online' = [online EXCEPT ![p] = "in"]
      /\ m_money' = [m_money EXCEPT ![p] = money]
      /\ m_items' = [m_items EXCEPT ![p] = items]
  <2>1. /\ online' = [online EXCEPT ![e.player] = "in"]
        /\ m_money' = [m_money EXCEPT ![e.player] = database.money[e.player]]
        /\ m_items' = [m_items EXCEPT ![e.player] = Carried(database, e.player)]
    BY <1>3 DEF ExecuteLogin, Carried
  <2> QED
    BY <1>5, <1>6, <1>7, <2>1 DEF ExecuteLogin
<1>9. TypeOK'
  BY <1>1, <1>3, <1>8 DEF TypeOK
<1>10. /\ online'[p] = "in" /\ m_money'[p] = money /\ m_items'[p] = items
       /\ \A q \in Players : q # p => /\ online'[q] = online[q] /\ m_money'[q] = m_money[q]
                                      /\ m_items'[q] = m_items[q]
  BY <1>1, <1>8 DEF TypeOK
<1>11. /\ online[p] = "loading"
       /\ st[1].money[p] = st[n].money[p]
       /\ Carried(st[1], p) = Carried(st[n], p)
       /\ Settled(st, 1, n, p)
  <2>1. 1 \in 1 .. Len(asyncQueue) /\ asyncQueue[1].what = "login" /\ asyncQueue[1].player = p
    BY <1>3, <1>4, <1>5
  <2>2. LoginOK(st, asyncQueue, online, 1)
    BY <1>1, <1>3, <2>1 DEF QueueOK
  <2> QED
    BY <1>3, <2>1, <2>2 DEF LoginOK
<1>12. QueueOK(st2, Tail(asyncQueue), online', _mailId, destroyed)
  <2>1. QueueOK(st, asyncQueue, online, _mailId, destroyed)
    BY <1>1, <1>3
  <2>2. \A k \in 0 .. Len(asyncQueue) - 1 : st2[k] = st[k + 1]
    BY <1>3
  <2>3. \A q \in Players :
            online[q] = "loading" /\ ~(asyncQueue[1].what = "login" /\ asyncQueue[1].player = q)
                => online'[q] = "loading"
    BY <1>3, <1>4, <1>5, <1>10
  <2> QED
    BY <1>1, <2>1, <2>2, <2>3, QueueShrinks
<1>13. ASSUME NEW q \in Players
       PROVE  PlayerOK(st2, n - 1, q, online'[q], m_money'[q], m_items'[q], m_mailsLoaded[q],
                       m_mail[q], loading, destroyed)
  <2>1. PlayerOK(st, n, q, online[q], m_money[q], m_items[q], m_mailsLoaded[q], m_mail[q],
                 loading, destroyed)
    BY <1>1, <1>3 DEF MemoryOK
  <2>2. m_mailsLoaded[q] \in BOOLEAN /\ online[q] \in {"out", "loading", "in"}
    BY <1>1 DEF TypeOK
  <2>3. PlayerOK(st2, n - 1, q, online[q], m_money[q], m_items[q], m_mailsLoaded[q], m_mail[q],
                 loading, destroyed)
    BY ONLY <1>2, <1>3, <2>1, <2>2, PlayerShrinks
  <2>4. CASE q # p
    BY <1>10, <2>3, <2>4
  <2>5. CASE q = p
    <3>1. st2[n - 1] = st[n]
      <4>1. n - 1 \in 0 .. n - 1 /\ n - 1 + 1 = n
        BY <1>2, <1>3
      <4>2. st2[n - 1] = st[n - 1 + 1]
        BY <1>3, <4>1
      <4> QED
        BY <4>1, <4>2
    <3>2. Settled(st2, 0, n - 1, p)
      <4>1. 1 \in 1 .. n /\ 1 \in 0 .. 1 /\ 1 - 1 = 0
        BY <1>2, <1>3
      <4>2. Settled(st2, 1 - 1, n - 1, p)
        BY ONLY <1>2, <1>3, <1>11, <4>1, SettledShrinks
      <4> QED
        BY <4>1, <4>2
    <3>3. money = st2[n - 1].money[p] /\ items = Carried(st2[n - 1], p)
      BY <1>3, <1>4, <1>6, <1>7, <1>11, <3>1
    <3> QED
      BY <1>10, <1>11, <2>3, <2>5, <3>2, <3>3, NoneApart DEF PlayerOK, NoBox
  <2> QED
    BY <2>4, <2>5
<1>14. Stages(database', asyncQueue') = st2 /\ Len(asyncQueue') = n - 1
  BY <1>3, <1>4, <1>8
<1>15. MemoryOK'
  BY <1>8, <1>13, <1>14 DEF MemoryOK
<1>16. QueueOK(Stages(database', asyncQueue'), asyncQueue', online', _mailId', destroyed')
  BY <1>8, <1>12, <1>14
<1> QED
  BY <1>9, <1>15, <1>16 DEF IInv

-----------------------------------------------------------------------------
(***************************************************************************)
(* The server crashes and restarts, and queues the return of old mail.     *)
(***************************************************************************)
\* There is a last mail.
LEMMA LastMail ==
    ASSUME Stored # {}
    PROVE  /\ Max(Stored) \in Stored
           /\ \A id \in Stored : id <= Max(Stored)
<1>1. \A id \in Stored : id \in Nat /\ id >= 1 /\ id <= MaxMails
  BY DEF Stored, MailIds
<1>2. MaxMails \in Nat
  BY BoundAssumption
<1>3. PICK S, T : S = Stored /\ T = {n \in Nat : ~(\A y \in S : y <= n)}
  OBVIOUS
<1>4. \E n \in Nat : /\ \A y \in S : y <= n
                     /\ \E y \in S : ~(y <= n - 1)
  <2> SUFFICES ASSUME \A n \in Nat : n \in T \/ \A y \in S : y <= n - 1
               PROVE  FALSE
    BY <1>3
  <2>1. \A n \in Nat : n \notin T \/ n + 1 \in T \/ \A y \in S : y <= n
    OBVIOUS
  <2>2. 0 \in T
    <3>1. PICK y \in S : TRUE
      BY <1>3
    <3>2. y \in Nat /\ y >= 1
      BY <1>1, <1>3
    <3> QED
      BY <1>3, <3>2
  <2>3. \A n \in Nat : n \in T => n + 1 \in T
    <3> SUFFICES ASSUME NEW n \in Nat, n \in T PROVE n + 1 \in T
      OBVIOUS
    <3>1. n + 1 \in T \/ \A y \in S : y <= n + 1 - 1
      OBVIOUS
    <3>2. n + 1 - 1 = n
      OBVIOUS
    <3> QED
      BY <1>3, <3>1, <3>2
  <2>4. \A n \in Nat : n \in T
    BY <2>2, <2>3, SetInduction
  <2> QED
    BY <1>1, <1>2, <1>3, <2>4
<1>5. PICK x \in S : \A y \in S : x >= y
  <2>1. PICK n \in Nat : /\ \A y \in S : y <= n
                         /\ \E y \in S : ~(y <= n - 1)
    BY <1>4
  <2>2. PICK y \in S : ~(y <= n - 1)
    BY <2>1
  <2>3. y \in Nat /\ y <= n
    BY <1>1, <1>3, <2>1
  <2>4. y = n
    BY <2>2, <2>3
  <2> QED
    BY <1>1, <1>3, <2>1, <2>4
<1>6. Max(S) \in S /\ \A y \in S : Max(S) >= y
  BY <1>5 DEF Max
<1> QED
  BY <1>1, <1>3, <1>6

\* What the return of old mail does about the mail id of the database db.
SendsBack(db, id, s) ==
    /\ s.stmt = "UPD_MAIL_RETURNED" /\ s.id = id
    /\ ReturnedTo(db.mail[id])
Deleting(db, id, s) ==
    /\ ~ReturnedTo(db.mail[id])
    /\ \/ s.stmt = "DEL_ITEM_INSTANCE" /\ s.item \in Attached(db, id)
       \/ s.stmt = "DEL_MAIL_ITEM_BY_ID" /\ s.id = id
       \/ s.stmt = "DEL_MAIL_BY_ID" /\ s.id = id
DetachAll(id) == Queued(<<[stmt |-> "DEL_MAIL_ITEM_BY_ID", id |-> id]>>)

\* t deals with one old mail; its items are detached before it is deleted.
DealsWith(t, db, id) ==
    /\ t \in Seq(Elements)
    /\ \A b \in 1 .. Len(t) : \E s \in Statements :
        /\ t[b] = Queued(<<s>>)
        /\ SendsBack(db, id, s) \/ Deleting(db, id, s)
        /\ s.stmt = "DEL_MAIL_BY_ID" /\ db.mail[id].has_items
            => \E c \in 1 .. b - 1 : t[c] = DetachAll(id)

\* One statement after the other, each on its own.
LEMMA OneByOne ==
    ASSUME NEW w \in Seq(Statements)
    PROVE  \E t \in Seq(Elements) :
              /\ t = [k \in DOMAIN w |-> Queued(<<w[k]>>)]
              /\ Len(t) = Len(w)
              /\ \A b \in 1 .. Len(w) : t[b] = Queued(<<w[b]>>)
<1>1. PICK n \in Nat : n = Len(w) /\ DOMAIN w = 1 .. n
  OBVIOUS
<1>2. \A k \in 1 .. n : Queued(<<w[k]>>) \in Elements
  <2> SUFFICES ASSUME NEW k \in 1 .. n PROVE Queued(<<w[k]>>) \in Elements
    OBVIOUS
  <2>1. w[k] \in Statements
    BY <1>1
  <2>2. <<w[k]>> \in Seq(Statements)
    BY <2>1
  <2> QED
    BY <2>2, QueuedElement
<1>3. PICK t : t = [k \in 1 .. n |-> Queued(<<w[k]>>)]
  OBVIOUS
<1>4. t \in [1 .. n -> Elements]
  BY <1>2, <1>3
<1>5. t \in Seq(Elements) /\ Len(t) = n
  BY <1>1, <1>4
<1> QED
  BY <1>1, <1>3, <1>5

\* The return of old mail deals with each old mail.
LEMMA OldMail ==
    ASSUME NEW id \in MailIds, database \in Databases, database.mail[id] # NoMail
    PROVE  DealsWith(ReturnOrDelete(id), database, id)
<1>1. PICK row \in Rows : row = database.mail[id]
  BY DatabaseParts
<1>2. PICK items \in SUBSET Items : items = Attached(database, id)
  BY DatabaseParts DEF Attached
<1>3. ASSUME NEW w \in Seq(Statements),
             ReturnOrDelete(id) = [k \in DOMAIN w |-> Queued(<<w[k]>>)],
             \A b \in 1 .. Len(w) :
                /\ SendsBack(database, id, w[b]) \/ Deleting(database, id, w[b])
                /\ w[b].stmt = "DEL_MAIL_BY_ID" /\ row.has_items
                    => \E c \in 1 .. b - 1 : w[c] = [stmt |-> "DEL_MAIL_ITEM_BY_ID", id |-> id]
      PROVE  DealsWith(ReturnOrDelete(id), database, id)
  <2>1. PICK t \in Seq(Elements) : /\ t = ReturnOrDelete(id)
                                   /\ Len(t) = Len(w)
                                   /\ \A b \in 1 .. Len(w) : t[b] = Queued(<<w[b]>>)
    BY <1>3, OneByOne
  <2>2. Len(w) \in Nat /\ \A b \in 1 .. Len(w) : w[b] \in Statements
    OBVIOUS
  <2>3. ASSUME NEW b \in 1 .. Len(w), w[b].stmt = "DEL_MAIL_BY_ID", row.has_items
        PROVE  \E c \in 1 .. b - 1 : t[c] = DetachAll(id)
    <3>1. PICK c \in 1 .. b - 1 : w[c] = [stmt |-> "DEL_MAIL_ITEM_BY_ID", id |-> id]
      BY <1>3, <2>3
    <3>2. c \in 1 .. Len(w)
      BY <2>2
    <3> QED
      BY <2>1, <3>1, <3>2 DEF DetachAll
  <2> QED
    BY <1>1, <1>3, <2>1, <2>2, <2>3 DEF DealsWith
<1>4. CASE ReturnedTo(row)
  <2>1. PICK s \in Statements : /\ s = [stmt |-> "UPD_MAIL_RETURNED", id |-> id,
                                        sender |-> row.receiver, receiver |-> row.sender]
                                /\ s.stmt = "UPD_MAIL_RETURNED" /\ s.id = id
    <3>1. row.receiver \in Players /\ row.sender \in Players
      BY DEF Rows
    <3>2. [stmt |-> "UPD_MAIL_RETURNED", id |-> id,
           sender |-> row.receiver, receiver |-> row.sender] \in Statements
      BY <3>1 DEF Statements
    <3> QED
      BY <3>2
  <2>2. PICK w \in Seq(Statements) : w = <<s>> /\ Len(w) = 1 /\ w[1] = s
    <3>1. <<s>> \in Seq(Statements) /\ Len(<<s>>) = 1 /\ <<s>>[1] = s
      OBVIOUS
    <3> QED
      BY <3>1
  <2>3. ReturnOrDelete(id) = [k \in DOMAIN w |-> Queued(<<w[k]>>)]
    BY <1>1, <1>4, <2>1, <2>2 DEF ReturnOrDelete
  <2>4. \A b \in 1 .. Len(w) : w[b] = s
    BY <2>2
  <2>5. \A b \in 1 .. Len(w) :
            SendsBack(database, id, w[b]) /\ w[b].stmt # "DEL_MAIL_BY_ID"
    BY <1>1, <1>4, <2>1, <2>4 DEF SendsBack
  <2> QED
    BY <1>3, <2>3, <2>5
<1>5. PICK s \in Statements : /\ s = [stmt |-> "DEL_MAIL_BY_ID", id |-> id]
                              /\ s.stmt = "DEL_MAIL_BY_ID" /\ s.id = id
  <2>1. [stmt |-> "DEL_MAIL_BY_ID", id |-> id] \in Statements
    BY DEF Statements
  <2> QED
    BY <2>1
<1>6. CASE ~ReturnedTo(row) /\ ~row.has_items
  <2>2. PICK w \in Seq(Statements) : w = <<s>> /\ Len(w) = 1 /\ w[1] = s
    <3>1. <<s>> \in Seq(Statements) /\ Len(<<s>>) = 1 /\ <<s>>[1] = s
      OBVIOUS
    <3> QED
      BY <3>1
  <2>3. ReturnOrDelete(id) = [k \in DOMAIN w |-> Queued(<<w[k]>>)]
    <3>1. <<>> \o <<s>> = <<s>>
      OBVIOUS
    <3> QED
      BY <1>1, <1>5, <1>6, <2>2, <3>1 DEF ReturnOrDelete
  <2>4. \A b \in 1 .. Len(w) : b = 1
    BY <2>2
  <2> QED
    BY <1>1, <1>3, <1>5, <1>6, <2>2, <2>3, <2>4 DEF Deleting
<1>7. CASE ~ReturnedTo(row) /\ row.has_items
  <2>1. PICK d \in Statements : /\ d = [stmt |-> "DEL_MAIL_ITEM_BY_ID", id |-> id]
                                /\ d.stmt = "DEL_MAIL_ITEM_BY_ID" /\ d.id = id
    <3>1. [stmt |-> "DEL_MAIL_ITEM_BY_ID", id |-> id] \in Statements
      BY DEF Statements
    <3> QED
      BY <3>1
  <2>2. PICK u \in Seq(Statements) :
          u = ForEach(items, DeleteInstance) /\ OneForEach(u, "DEL_ITEM_INSTANCE", items)
    BY DeletesItems
  <2>3. PICK w : w = (u \o <<d>>) \o <<s>>
    OBVIOUS
  <2>4. PICK m \in Nat :
          /\ m = Len(u) /\ w \in Seq(Statements) /\ Len(w) = m + 2
          /\ \A b \in 1 .. m : w[b] = u[b]
          /\ w[m + 1] = d /\ w[m + 2] = s
    BY <2>3
  <2>5. ReturnOrDelete(id) = [k \in DOMAIN w |-> Queued(<<w[k]>>)]
    BY <1>1, <1>2, <1>5, <1>7, <2>1, <2>2, <2>3 DEF ReturnOrDelete
  <2>6. ASSUME NEW b \in 1 .. Len(w)
        PROVE  /\ Deleting(database, id, w[b])
               /\ w[b].stmt = "DEL_MAIL_BY_ID"
                    => \E c \in 1 .. b - 1 : w[c] = [stmt |-> "DEL_MAIL_ITEM_BY_ID", id |-> id]
    <3>1. b \in 1 .. m \/ b = m + 1 \/ b = m + 2
      BY <2>4
    <3>2. CASE b \in 1 .. m
      BY <1>1, <1>2, <1>7, <2>2, <2>4, <3>2 DEF Deleting, OneForEach
    <3>3. CASE b = m + 1
      BY <1>1, <1>7, <2>1, <2>4, <3>3 DEF Deleting
    <3>4. CASE b = m + 2
      <4>1. m + 1 \in 1 .. b - 1
        BY <3>4
      <4> QED
        BY <1>1, <1>5, <1>7, <2>1, <2>4, <3>4, <4>1 DEF Deleting
    <3> QED
      BY <3>1, <3>2, <3>3, <3>4
  <2> QED
    BY <1>3, <2>4, <2>5, <2>6
<1> QED
  BY <1>4, <1>6, <1>7

\* The old mails that are deleted.
Removed(db, old) == {id \in old : ~ReturnedTo(db.mail[id])}

\* What becomes of a mail, and of an item, of the database db on the way to d.
MailAged(db, d, old, id) ==
    \/ d.mail[id] = db.mail[id]
    \/ /\ db.mail[id] # NoMail /\ d.mail[id] # NoMail
       /\ d.mail[id].money = db.mail[id].money
       /\ d.mail[id].has_items = db.mail[id].has_items
    \/ /\ id \in Removed(db, old)
       /\ d.mail[id] = NoMail
       /\ \A i \in d.instances : d.mailItems[i] # id
ItemAged(db, d, old, i) ==
    /\ i \in d.instances => i \in db.instances
    /\ i \in db.instances /\ i \notin d.instances => db.mailItems[i] \in Removed(db, old)
    /\ \/ d.mailItems[i] = db.mailItems[i]
       \/ d.mailItems[i] = NoMail /\ db.mailItems[i] \in Removed(db, old)
Aged(db, d, old) ==
    /\ d \in Databases
    /\ d.money = db.money /\ d.inventory = db.inventory
    /\ \A id \in MailIds : MailAged(db, d, old, id)
    /\ \A i \in Items : ItemAged(db, d, old, i)

\* A database grown old is sound, as long as what was deleted is not missed.
LEMMA AgedSound ==
    ASSUME NEW db \in Databases, NEW d, NEW old \in SUBSET MailsOf(db), NEW next, NEW next2,
           NEW gone, NEW gone2,
           Sound(db, next, gone), Aged(db, d, old),
           \A id \in MailsOf(db) : id < next2,
           gone \subseteq gone2,
           \A id \in Removed(db, old) : db.mail[id].money \cup Attached(db, id) \subseteq gone2
    PROVE  Sound(d, next2, gone2)
<1>1. /\ d \in Databases /\ d.money = db.money /\ d.inventory = db.inventory
      /\ \A id \in MailIds : MailAged(db, d, old, id)
      /\ \A i \in Items : ItemAged(db, d, old, i)
  BY DEF Aged
<1>2. ASSUME NEW id \in MailsOf(d)
      PROVE  /\ id \in MailsOf(db)
             /\ d.mail[id].money = db.mail[id].money
             /\ d.mail[id].has_items = db.mail[id].has_items
  <2>1. id \in MailIds /\ d.mail[id] # NoMail
    BY DEF MailsOf
  <2> QED
    BY <1>1, <2>1 DEF MailAged, MailsOf
<1>3. Fresh(d, next2)
  BY <1>2 DEF Fresh
<1>4. CoinsApart(d)
  <2>1. CoinsApart(db)
    BY DEF Sound
  <2>2. \A p \in Players, id \in MailsOf(d) : d.money[p] \cap d.mail[id].money = {}
    BY <1>1, <1>2, <2>1 DEF CoinsApart
  <2>3. \A id, o \in MailsOf(d) : id # o => d.mail[id].money \cap d.mail[o].money = {}
    BY <1>2, <2>1 DEF CoinsApart
  <2> QED
    BY <1>1, <2>1, <2>2, <2>3 DEF CoinsApart
<1>5. ItemsApart(d)
  BY <1>1 DEF Sound, ItemsApart, ItemAged
<1>6. Attaches(d)
  <2> SUFFICES ASSUME NEW i \in d.instances, d.mailItems[i] # NoMail
               PROVE  d.mailItems[i] \in MailsOf(d) /\ d.mail[d.mailItems[i]].has_items
    BY DEF Attaches
  <2>1. PICK id : id = d.mailItems[i]
    OBVIOUS
  <2>2. i \in Items
    BY <1>1, DatabaseParts
  <2>3. i \in db.instances /\ db.mailItems[i] = id /\ id # NoMail
    BY <1>1, <2>1, <2>2 DEF ItemAged
  <2>4. id \in MailsOf(db) /\ db.mail[id].has_items
    BY <2>3 DEF Sound, Attaches
  <2>5. id \in MailIds /\ db.mail[id] # NoMail
    BY <2>4 DEF MailsOf
  <2>6. d.mail[id] # NoMail
    BY <1>1, <2>1, <2>5 DEF MailAged
  <2>7. id \in MailsOf(d)
    BY <2>5, <2>6 DEF MailsOf
  <2> QED
    BY <1>2, <2>1, <2>4, <2>7
<1>7. CoinsKept(d, gone2)
  <2> SUFFICES ASSUME NEW c \in Coins, c \notin gone2, \A p \in Players : c \notin d.money[p]
               PROVE  \E id \in MailsOf(d) : c \in d.mail[id].money
    BY DEF CoinsKept
  <2>1. PICK id \in MailsOf(db) : c \in db.mail[id].money
    BY <1>1 DEF Sound, CoinsKept
  <2>2. id \notin Removed(db, old)
    BY <2>1
  <2>3. id \in MailIds /\ db.mail[id] # NoMail
    BY DEF MailsOf
  <2>4. id \in MailsOf(d)
    BY <1>1, <2>2, <2>3 DEF MailAged, MailsOf
  <2> QED
    BY <1>2, <2>1, <2>4
<1>8. ItemsKept(d, gone2)
  <2> SUFFICES ASSUME NEW i \in Items, i \notin gone2
               PROVE  i \in d.instances /\ (d.inventory[i] # Nobody \/ d.mailItems[i] # NoMail)
    BY DEF ItemsKept
  <2>1. i \in db.instances /\ (db.inventory[i] # Nobody \/ db.mailItems[i] # NoMail)
    BY DEF Sound, ItemsKept
  <2>2. db.mailItems[i] \notin Removed(db, old)
    BY <2>1 DEF Attached
  <2> QED
    BY <1>1, <2>1, <2>2 DEF ItemAged
<1> QED
  BY <1>3, <1>4, <1>5, <1>6, <1>7, <1>8 DEF Sound

\* Nothing is attached to the mail id.
Bare(d, id) == \A i \in Items : d.mailItems[i] # id

\* Each statement about an old mail lets the database grow older, and attaches nothing.
LEMMA AgedStep ==
    ASSUME NEW db \in Databases, NEW d, NEW old \in SUBSET MailsOf(db), NEW id \in old,
           NEW s \in Statements,
           Attaches(db), Aged(db, d, old),
           SendsBack(db, id, s) \/ Deleting(db, id, s),
           s.stmt = "DEL_MAIL_BY_ID" /\ db.mail[id].has_items => Bare(d, id)
    PROVE  /\ Aged(db, Execute(d, s), old)
           /\ \A o \in MailIds : Bare(d, o) => Bare(Execute(d, s), o)
           /\ s.stmt = "DEL_MAIL_ITEM_BY_ID" => Bare(Execute(d, s), id)
<1>1. /\ d \in Databases /\ d.money = db.money /\ d.inventory = db.inventory
      /\ \A o \in MailIds : MailAged(db, d, old, o)
      /\ \A i \in Items : ItemAged(db, d, old, i)
  BY DEF Aged
<1>2. PICK d2 : d2 = Execute(d, s)
  OBVIOUS
<1>3. /\ id \in MailIds /\ db.mail[id] # NoMail /\ id # NoMail
      /\ \A i \in d.instances : i \in Items
      /\ \A o \in MailIds : o # NoMail
  BY <1>1, DatabaseParts, NoneApart DEF MailsOf
<1>4. CASE SendsBack(db, id, s)
  <2>1. /\ d2 \in Databases /\ s.id = id /\ s.stmt = "UPD_MAIL_RETURNED"
        /\ d.mail[id] = NoMail => d2.mail[id] = NoMail
        /\ d.mail[id] # NoMail =>
              /\ d2.mail[id] \in Rows
              /\ d2.mail[id].has_items = d.mail[id].has_items
              /\ d2.mail[id].money = d.mail[id].money
        /\ \A o \in MailIds : o # id => d2.mail[o] = d.mail[o]
        /\ d2.money = d.money /\ d2.inventory = d.inventory
        /\ d2.instances = d.instances /\ d2.mailItems = d.mailItems
    BY <1>1, <1>2, <1>4, ExecuteReturnMail DEF SendsBack
  <2>2. \A o \in MailIds : MailAged(db, d2, old, o)
    <3> SUFFICES ASSUME NEW o \in MailIds PROVE MailAged(db, d2, old, o)
      OBVIOUS
    <3>1. MailAged(db, d, old, o)
      BY <1>1
    <3>2. CASE o = id
      <4>1. d.mail[id] # NoMail => d2.mail[id] # NoMail
        BY <2>1, NoneApart
      <4> QED
        BY <1>3, <2>1, <3>1, <3>2, <4>1 DEF MailAged
    <3>3. CASE o # id
      BY <2>1, <3>1, <3>3 DEF MailAged
    <3> QED
      BY <3>2, <3>3
  <2>3. \A i \in Items : ItemAged(db, d2, old, i)
    BY <1>1, <2>1 DEF ItemAged
  <2>4. Aged(db, d2, old) /\ \A o \in MailIds : Bare(d, o) => Bare(d2, o)
    BY <1>1, <2>1, <2>2, <2>3 DEF Aged, Bare
  <2> QED
    BY <1>2, <2>1, <2>4
<1>5. CASE Deleting(db, id, s) /\ s.stmt = "DEL_ITEM_INSTANCE"
  <2>1. /\ d2 \in Databases /\ s.item \in Items
        /\ d2.instances = d.instances \ {s.item}
        /\ d2.money = d.money /\ d2.inventory = d.inventory /\ d2.mail = d.mail
        /\ d2.mailItems = d.mailItems
    BY <1>1, <1>2, <1>5, ExecuteDeleteInstance
  <2>2. db.mailItems[s.item] = id /\ id \in Removed(db, old)
    BY <1>5 DEF Deleting, Attached, Removed
  <2>3. \A o \in MailIds : MailAged(db, d2, old, o)
    BY <1>1, <2>1 DEF MailAged
  <2>4. \A i \in Items : ItemAged(db, d2, old, i)
    BY <1>1, <2>1, <2>2 DEF ItemAged
  <2>5. Aged(db, d2, old) /\ \A o \in MailIds : Bare(d, o) => Bare(d2, o)
    BY <1>1, <2>1, <2>3, <2>4 DEF Aged, Bare
  <2> QED
    BY <1>2, <1>5, <2>5
<1>6. CASE Deleting(db, id, s) /\ s.stmt = "DEL_MAIL_ITEM_BY_ID"
  <2>1. /\ d2 \in Databases /\ s.id = id
        /\ \A i \in Items : d2.mailItems[i] = IF d.mailItems[i] = id THEN NoMail ELSE d.mailItems[i]
        /\ d2.money = d.money /\ d2.inventory = d.inventory /\ d2.mail = d.mail
        /\ d2.instances = d.instances
    BY <1>1, <1>2, <1>6, ExecuteDetachAll DEF Deleting
  <2>2. id \in Removed(db, old)
    BY <1>6 DEF Deleting, Removed
  <2>3. \A o \in MailIds : MailAged(db, d2, old, o)
    BY <1>1, <1>3, <2>1 DEF MailAged
  <2>4. \A i \in Items : ItemAged(db, d2, old, i)
    BY <1>1, <1>3, <2>1, <2>2 DEF ItemAged
  <2>5. /\ Aged(db, d2, old) /\ \A o \in MailIds : Bare(d, o) => Bare(d2, o)
        /\ Bare(d2, id)
    BY <1>1, <1>3, <2>1, <2>3, <2>4 DEF Aged, Bare
  <2> QED
    BY <1>2, <2>5
<1>7. CASE Deleting(db, id, s) /\ s.stmt = "DEL_MAIL_BY_ID"
  <2>1. /\ d2 \in Databases /\ s.id = id
        /\ d2.mail[id] = NoMail
        /\ \A o \in MailIds : o # id => d2.mail[o] = d.mail[o]
        /\ d2.money = d.money /\ d2.inventory = d.inventory
        /\ d2.instances = d.instances /\ d2.mailItems = d.mailItems
    BY <1>1, <1>2, <1>7, ExecuteDeleteMail DEF Deleting
  <2>2. id \in Removed(db, old)
    BY <1>7 DEF Deleting, Removed
  <2>3. \A i \in d.instances : d.mailItems[i] # id
    <3>1. CASE db.mail[id].has_items
      BY <1>3, <1>7, <3>1 DEF Bare
    <3>2. CASE ~db.mail[id].has_items
      <4> SUFFICES ASSUME NEW i \in d.instances, d.mailItems[i] = id PROVE FALSE
        OBVIOUS
      <4>1. i \in db.instances /\ db.mailItems[i] = id
        BY <1>1, <1>3 DEF ItemAged
      <4> QED
        BY <1>3, <3>2, <4>1 DEF Attaches
    <3> QED
      BY <3>1, <3>2
  <2>4. \A o \in MailIds : MailAged(db, d2, old, o)
    BY <1>1, <2>1, <2>2, <2>3 DEF MailAged
  <2>5. \A i \in Items : ItemAged(db, d2, old, i)
    BY <1>1, <2>1 DEF ItemAged
  <2>6. Aged(db, d2, old) /\ \A o \in MailIds : Bare(d, o) => Bare(d2, o)
    BY <1>1, <2>1, <2>4, <2>5 DEF Aged, Bare
  <2> QED
    BY <1>2, <1>7, <2>6
<1> QED
  BY <1>4, <1>5, <1>6, <1>7 DEF Deleting

\* A statement of the return of old mail, with what came before it.
OldStatement(q, k, old) ==
    \E id \in old, s \in Statements :
        /\ q[k] = Queued(<<s>>)
        /\ SendsBack(database, id, s) \/ Deleting(database, id, s)
        /\ s.stmt = "DEL_MAIL_BY_ID" /\ database.mail[id].has_items
            => \E j \in 1 .. k - 1 : q[j] = DetachAll(id)

\* The return of old mail is a sequence of such statements.
LEMMA OldStatements ==
    ASSUME database \in Databases, NEW old \in SUBSET Stored
    PROVE  /\ ReturnOrDeleteOldMails(old) \in Seq(Elements)
           /\ \A k \in 1 .. Len(ReturnOrDeleteOldMails(old)) :
                OldStatement(ReturnOrDeleteOldMails(old), k, old)
<1>1. PICK ss : ss = [id \in MailIds |-> IF id \in old THEN ReturnOrDelete(id) ELSE <<>>]
  OBVIOUS
<1>2. \A id \in old : DealsWith(ReturnOrDelete(id), database, id)
  BY OldMail DEF Stored
<1>3. ss \in Seq(Seq(Elements)) /\ DOMAIN ss = MailIds /\ Len(ss) = MaxMails
  <2>1. \A id \in MailIds : ss[id] \in Seq(Elements)
    BY <1>1, <1>2 DEF DealsWith
  <2>2. ss \in [1 .. MaxMails -> Seq(Elements)] /\ MaxMails \in Nat
    BY <1>1, <2>1, BoundAssumption DEF MailIds
  <2> QED
    BY <2>2 DEF MailIds
<1>4. PICK q \in Seq(Elements) :
        /\ q = ReturnOrDeleteOldMails(old)
        /\ \A k \in 1 .. Len(q) :
            \E a \in 1 .. Len(ss) : \E b \in 1 .. Len(ss[a]) :
                /\ q[k] = ss[a][b]
                /\ \A c \in 1 .. b - 1 : \E j \in 1 .. k - 1 : q[j] = ss[a][c]
  <2>1. FlattenSeq(ss) = ReturnOrDeleteOldMails(old)
    BY <1>1 DEF ReturnOrDeleteOldMails
  <2>2. /\ FlattenSeq(ss) \in Seq(Elements)
        /\ \A k \in 1 .. Len(FlattenSeq(ss)) :
            \E a \in 1 .. Len(ss) : \E b \in 1 .. Len(ss[a]) :
                /\ FlattenSeq(ss)[k] = ss[a][b]
                /\ \A c \in 1 .. b - 1 : \E j \in 1 .. k - 1 : FlattenSeq(ss)[j] = ss[a][c]
    BY ONLY <1>3, FlattenMembers
  <2> QED
    BY <2>1, <2>2
<1>5. ASSUME NEW k \in 1 .. Len(q) PROVE OldStatement(q, k, old)
  <2>1. PICK a \in MailIds : \E b \in 1 .. Len(ss[a]) :
                /\ q[k] = ss[a][b]
                /\ \A c \in 1 .. b - 1 : \E j \in 1 .. k - 1 : q[j] = ss[a][c]
    BY <1>3, <1>4 DEF MailIds
  <2>2. PICK b \in 1 .. Len(ss[a]) :
                /\ q[k] = ss[a][b]
                /\ \A c \in 1 .. b - 1 : \E j \in 1 .. k - 1 : q[j] = ss[a][c]
    BY <2>1
  <2>3. a \in old
    <3> SUFFICES ASSUME a \notin old PROVE FALSE
      OBVIOUS
    <3>1. ss[a] = <<>>
      BY <1>1
    <3>2. Len(ss[a]) = 0
      BY <3>1
    <3> QED
      BY <3>2
  <2>4. DealsWith(ss[a], database, a)
    BY <1>1, <1>2, <2>3
  <2>5. PICK s \in Statements :
        /\ ss[a][b] = Queued(<<s>>)
        /\ SendsBack(database, a, s) \/ Deleting(database, a, s)
        /\ s.stmt = "DEL_MAIL_BY_ID" /\ database.mail[a].has_items
            => \E c \in 1 .. b - 1 : ss[a][c] = DetachAll(a)
    BY <2>4 DEF DealsWith
  <2>6. ASSUME s.stmt = "DEL_MAIL_BY_ID" /\ database.mail[a].has_items
        PROVE  \E j \in 1 .. k - 1 : q[j] = DetachAll(a)
    <3>1. PICK c \in 1 .. b - 1 : ss[a][c] = DetachAll(a)
      BY <2>5, <2>6
    <3> QED
      BY <2>2, <3>1
  <2> QED
    BY <2>2, <2>3, <2>5, <2>6 DEF OldStatement
<1> QED
  BY <1>4, <1>5

\* The items of the mails which the queue has detached are gone from them for good.
Detached(q, k, d) == \A j \in 1 .. k : \A id \in MailIds : q[j] = DetachAll(id) => Bare(d, id)

\* Whatever of it the worker has executed, the database has only grown old.
LEMMA OldMailsAge ==
    ASSUME database \in Databases, Attaches(database), NEW old \in SUBSET Stored,
           NEW q \in Seq(Elements), \A k \in 1 .. Len(q) : OldStatement(q, k, old)
    PROVE  \A k \in 0 .. Len(q) : Aged(database, Stages(database, q)[k], old)
<1>1. PICK n \in Nat, st \in [0 .. Len(q) -> Databases] :
        /\ st = Stages(database, q) /\ n = Len(q) /\ st[0] = database
        /\ \A k \in 1 .. n : st[k] = Effect(st[k - 1], q[k])
  <2>1. Len(q) \in Nat
    OBVIOUS
  <2> QED
    BY <2>1, StagesSteps
<1>2. PICK S : S = {k \in 0 .. n : Aged(database, st[k], old) /\ Detached(q, k, st[k])}
  OBVIOUS
<1>3. 0 \in S
  <2>1. Aged(database, database, old)
    BY DEF Aged, MailAged, ItemAged
  <2>2. Detached(q, 0, database)
    BY DEF Detached
  <2> QED
    BY <1>1, <1>2, <2>1, <2>2
<1>4. ASSUME NEW k \in 0 .. n - 1, k \in S PROVE k + 1 \in S
  <2>1. PICK l \in 1 .. n : l = k + 1
    BY <1>1
  <2>2. PICK d \in Databases : d = st[k]
    BY <1>1
  <2>3. Aged(database, d, old) /\ Detached(q, k, d)
    BY <1>2, <1>4, <2>2
  <2>4. st[l] = Effect(d, q[l])
    <3>1. l - 1 = k
      BY <2>1
    <3> QED
      BY <1>1, <2>2, <3>1
  <2>5. PICK id \in old, s \in Statements :
        /\ q[l] = Queued(<<s>>)
        /\ SendsBack(database, id, s) \/ Deleting(database, id, s)
        /\ s.stmt = "DEL_MAIL_BY_ID" /\ database.mail[id].has_items
            => \E j \in 1 .. l - 1 : q[j] = DetachAll(id)
    BY <1>1 DEF OldStatement
  <2>6. st[l] = Execute(d, s)
    <3>1. <<s>> \in Seq(Statements)
      OBVIOUS
    <3>2. Effect(d, Queued(<<s>>)) = Committed(d, <<s>>)
      BY <3>1, QueuedElement
    <3> QED
      BY <2>4, <2>5, <3>2, CommittedOne
  <2>7. s.stmt = "DEL_MAIL_BY_ID" /\ database.mail[id].has_items => Bare(d, id)
    <3> SUFFICES ASSUME s.stmt = "DEL_MAIL_BY_ID", database.mail[id].has_items
                 PROVE  Bare(d, id)
      OBVIOUS
    <3>1. PICK j \in 1 .. l - 1 : q[j] = DetachAll(id)
      BY <2>5
    <3>2. j \in 1 .. k /\ id \in MailIds
      BY <2>1 DEF Stored
    <3> QED
      BY <2>3, <3>1, <3>2 DEF Detached
  <2>8. /\ Aged(database, Execute(d, s), old)
        /\ \A o \in MailIds : Bare(d, o) => Bare(Execute(d, s), o)
        /\ s.stmt = "DEL_MAIL_ITEM_BY_ID" => Bare(Execute(d, s), id)
    <3>1. old \in SUBSET MailsOf(database)
      BY DEF Stored, MailsOf
    <3> QED
      BY <2>3, <2>5, <2>7, <3>1, AgedStep
  <2>9. Detached(q, l, Execute(d, s))
    <3> SUFFICES ASSUME NEW j \in 1 .. l, NEW o \in MailIds, q[j] = DetachAll(o)
                 PROVE  Bare(Execute(d, s), o)
      BY DEF Detached
    <3>1. CASE j \in 1 .. k
      BY <2>3, <2>8, <3>1 DEF Detached
    <3>2. CASE j \notin 1 .. k
      <4>1. j = l
        BY <2>1, <3>2
      <4>2. <<s>> = <<[stmt |-> "DEL_MAIL_ITEM_BY_ID", id |-> o]>>
        BY <2>5, <4>1 DEF DetachAll, Queued
      <4>3. s = [stmt |-> "DEL_MAIL_ITEM_BY_ID", id |-> o]
        BY <4>2
      <4>4. s.stmt = "DEL_MAIL_ITEM_BY_ID" /\ s.id = o
        BY <4>3
      <4>5. id = o
        BY <2>5, <4>4 DEF SendsBack, Deleting
      <4> QED
        BY <2>8, <4>4, <4>5
    <3> QED
      BY <3>1, <3>2
  <2> QED
    BY <1>2, <2>1, <2>6, <2>8, <2>9
<1>5. \A k \in 0 .. n : k \in S
  BY <1>3, <1>4, BoundedInduction
<1> QED
  BY <1>1, <1>2, <1>5

\* A crash, at any point of the queue, and the return of old mail after it.
LEMMA CrashKeeps ==
    ASSUME IInv, NEW old \in SUBSET Stored, CrashAndRestart(old)
    PROVE  IInv'
<1>1. /\ TypeOK /\ database \in Databases /\ _mailId \in Nat
      /\ Sound(database, _mailId, destroyed) /\ Attaches(database)
  <2>1. TypeOK /\ QueueOK(Stages(database, asyncQueue), asyncQueue, online, _mailId, destroyed)
    BY DEF IInv
  <2>2. /\ Stages(database, asyncQueue)[0] = database /\ 0 \in 0 .. Len(asyncQueue)
        /\ _mailId \in Nat
    BY <2>1, FinalFacts
  <2>3. Sound(database, _mailId, destroyed)
    BY <2>1, <2>2 DEF QueueOK
  <2> QED
    BY <2>1, <2>2, <2>3 DEF TypeOK, Sound
<1>2. PICK q \in Seq(Elements) : /\ q = ReturnOrDeleteOldMails(old)
                                 /\ \A k \in 1 .. Len(q) : OldStatement(q, k, old)
  BY <1>1, OldStatements
<1>3. PICK n \in Nat, st \in [0 .. Len(q) -> Databases] :
        /\ st = Stages(database, q) /\ n = Len(q)
        /\ \A k \in 0 .. n : Aged(database, st[k], old)
  <2>1. Len(q) \in Nat /\ Stages(database, q) \in [0 .. Len(q) -> Databases]
    BY <1>1, StagesSteps
  <2>2. \A k \in 0 .. Len(q) : Aged(database, Stages(database, q)[k], old)
    BY <1>1, <1>2, OldMailsAge
  <2> QED
    BY <2>1, <2>2
<1>4. PICK next \in 1 .. MaxMails + 1 :
        /\ next = IF Stored = {} THEN 1 ELSE Max(Stored) + 1
        /\ \A id \in Stored : id < next
  <2>1. MaxMails \in Nat /\ \A id \in Stored : id \in 1 .. MaxMails
    BY BoundAssumption DEF Stored, MailIds
  <2>2. CASE Stored = {}
    BY <2>1, <2>2
  <2>3. CASE Stored # {}
    <3>1. Max(Stored) \in Stored /\ \A id \in Stored : id <= Max(Stored)
      BY <2>3, LastMail
    <3>2. PICK m \in 1 .. MaxMails : m = Max(Stored)
      BY <2>1, <3>1
    <3>3. m + 1 \in 1 .. MaxMails + 1 /\ \A id \in Stored : id < m + 1
      BY <2>1, <3>1, <3>2
    <3> QED
      BY <2>3, <3>2, <3>3
  <2> QED
    BY <2>2, <2>3
<1>5. PICK gone : gone = destroyed \cup Deleted(old)
  OBVIOUS
<1>6. /\ gone \subseteq Things /\ destroyed \subseteq gone
      /\ \A id \in Removed(database, old) :
            database.mail[id].money \cup Attached(database, id) \subseteq gone
  <2>1. Deleted(old) = UNION {database.mail[id].money \cup Attached(database, id) :
                                id \in Removed(database, old)}
    BY DEF Deleted, Removed
  <2>2. \A id \in Removed(database, old) :
            database.mail[id].money \subseteq Coins /\ Attached(database, id) \subseteq Items
    <3> SUFFICES ASSUME NEW id \in Removed(database, old)
                 PROVE  /\ database.mail[id].money \subseteq Coins
                        /\ Attached(database, id) \subseteq Items
      OBVIOUS
    <3>1. id \in MailIds /\ database.mail[id] # NoMail
      BY DEF Removed, Stored
    <3>2. database.mail[id] \in Rows
      BY <1>1, <3>1, DatabaseParts
    <3> QED
      BY <1>1, <3>2, DatabaseParts DEF Rows, Attached
  <2>3. destroyed \subseteq Things
    BY <1>1 DEF TypeOK
  <2> QED
    BY <1>5, <2>1, <2>2, <2>3 DEF Things
<1>7. /\ asyncQueue' = q /\ database' = database /\ destroyed' = gone
      /\ _mailId' = next /\ loading' = Nobody
      /\ online' = [p \in Players |-> "out"]
      /\ m_money' = [p \in Players |-> {}]
      /\ m_items' = [p \in Players |-> {}]
      /\ m_mailsLoaded' = [p \in Players |-> FALSE]
      /\ m_mail' = [p \in Players |-> NoBox]
  BY <1>2, <1>4, <1>5 DEF CrashAndRestart
<1>8. TypeOK'
  <2>1. NoBox \in Boxes
    BY DEF NoBox, Boxes
  <2>2. m_mail' \in [Players -> Boxes]
    BY <1>7, <2>1
  <2> QED
    BY <1>1, <1>6, <1>7, <2>2 DEF TypeOK, Boxes
<1>9. ASSUME NEW k \in 0 .. n PROVE Sound(st[k], next, gone)
  <2>1. Aged(database, st[k], old)
    BY <1>3
  <2>2. Stored = MailsOf(database)
    BY DEF Stored, MailsOf
  <2>3. old \in SUBSET MailsOf(database) /\ \A id \in MailsOf(database) : id < next
    BY <1>4, <2>2
  <2> QED
    BY ONLY <1>1, <1>6, <2>1, <2>3, AgedSound
<1>10. ASSUME NEW k \in 1 .. n PROVE PaidStep(st[k - 1], st[k])
  <2>1. k \in 0 .. n /\ k - 1 \in 0 .. n
    OBVIOUS
  <2>2. /\ st[k - 1] \in Databases /\ ItemsApart(st[k - 1])
        /\ st[k].inventory = st[k - 1].inventory
    <3>1. Aged(database, st[k - 1], old) /\ Aged(database, st[k], old)
      BY <1>3, <2>1
    <3>2. Sound(st[k - 1], next, gone)
      BY <1>9, <2>1
    <3> QED
      BY <3>1, <3>2 DEF Aged, Sound
  <2> QED
    BY <2>2, NothingToPay
<1>11. ASSUME NEW k \in 1 .. n PROVE q[k].what # "login"
  <2>1. OldStatement(q, k, old)
    BY <1>2, <1>3
  <2>2. \E s : q[k] = Queued(<<s>>)
    BY <2>1 DEF OldStatement
  <2> QED
    BY <2>2 DEF Queued
<1>12. QueueOK(st, q, online', next, gone)
  BY <1>3, <1>9, <1>10, <1>11 DEF QueueOK
<1>13. ASSUME NEW p \in Players
       PROVE  PlayerOK(st, n, p, online'[p], m_money'[p], m_items'[p], m_mailsLoaded'[p],
                       m_mail'[p], Nobody, gone)
  <2>1. /\ online'[p] = "out" /\ m_money'[p] = {} /\ m_items'[p] = {}
        /\ m_mailsLoaded'[p] = FALSE /\ m_mail'[p] = NoBox /\ Nobody # p
    BY <1>7, NoneApart
  <2>2. \A id \in MailIds : NoBox[id] = NoMail
    BY DEF NoBox
  <2> QED
    BY <2>1, <2>2 DEF PlayerOK
<1>14. Stages(database', asyncQueue') = st /\ Len(asyncQueue') = n
  BY <1>3, <1>7
<1>15. MemoryOK'
  BY <1>7, <1>13, <1>14 DEF MemoryOK
<1>16. QueueOK(Stages(database', asyncQueue'), asyncQueue', online', _mailId', destroyed')
  BY <1>7, <1>12, <1>14
<1> QED
  BY <1>8, <1>15, <1>16 DEF IInv

-----------------------------------------------------------------------------
(***************************************************************************)
(* The invariant holds in every state.                                     *)
(***************************************************************************)
\* At first every item and every coin is with its player, and nothing is queued.
LEMMA InitHolds ==
    ASSUME Init
    PROVE  IInv
<1>1. /\ database = [money |-> StartMoney, inventory |-> StartOwner, instances |-> Items,
                     mail |-> NoBox, mailItems |-> [i \in Items |-> NoMail]]
      /\ asyncQueue = <<>> /\ _mailId = 1 /\ destroyed = {} /\ loading = Nobody
      /\ online = [p \in Players |-> "out"]
      /\ m_money = [p \in Players |-> {}] /\ m_items = [p \in Players |-> {}]
      /\ m_mailsLoaded = [p \in Players |-> FALSE] /\ m_mail = [p \in Players |-> NoBox]
  BY DEF Init
<1>2. NoBox \in Boxes /\ \A id \in MailIds : NoBox[id] = NoMail
  BY DEF NoBox, Boxes
<1>3. /\ database \in Databases
      /\ database.money = StartMoney /\ database.inventory = StartOwner
      /\ database.instances = Items /\ database.mail = NoBox
      /\ \A i \in Items : database.mailItems[i] = NoMail
  BY <1>1, <1>2, StartAssumption DEF Databases, Boxes
<1>4. TypeOK
  <2>1. asyncQueue \in Seq(Elements) /\ 1 \in 1 .. MaxMails + 1
    BY <1>1, BoundAssumption
  <2>2. m_mail \in [Players -> Boxes]
    BY <1>1, <1>2
  <2> QED
    BY <1>1, <1>3, <2>1, <2>2 DEF TypeOK, Boxes, Things
<1>5. PICK st : /\ st = Stages(database, asyncQueue) /\ st[0] = database /\ Len(asyncQueue) = 0
  <2>1. asyncQueue \in Seq(Elements) /\ Len(asyncQueue) = 0
    BY <1>1
  <2> QED
    BY <1>3, <2>1, StagesSteps
<1>6. MailsOf(database) = {}
  BY <1>2, <1>3 DEF MailsOf
<1>7. Sound(database, 1, {})
  <2>1. Fresh(database, 1) /\ Attaches(database)
    BY <1>3, <1>6 DEF Fresh, Attaches
  <2>2. CoinsApart(database) /\ CoinsKept(database, {})
    <3>1. \A c \in Coins : \E p \in Players :
            \A q \in Players : c \in database.money[q] <=> q = p
      BY <1>3, StartAssumption
    <3>2. \A p \in Players : database.money[p] \subseteq Coins
      BY <1>3, DatabaseParts
    <3>3. CoinsApart(database)
      BY <1>6, <3>1, <3>2 DEF CoinsApart
    <3>4. CoinsKept(database, {})
      BY <3>1 DEF CoinsKept
    <3> QED
      BY <3>3, <3>4
  <2>3. ItemsApart(database)
    BY <1>3 DEF ItemsApart
  <2>4. ItemsKept(database, {})
    BY <1>3, StartAssumption, NoneApart DEF ItemsKept
  <2> QED
    BY <2>1, <2>2, <2>3, <2>4 DEF Sound
<1>8. QueueOK(st, asyncQueue, online, _mailId, destroyed)
  <2>1. \A k \in 0 .. Len(asyncQueue) : k = 0
    BY <1>5
  <2>2. \A k \in 1 .. Len(asyncQueue) : FALSE
    BY <1>5
  <2> QED
    BY <1>1, <1>5, <1>7, <2>1, <2>2 DEF QueueOK
<1>9. ASSUME NEW p \in Players
      PROVE  PlayerOK(st, 0, p, online[p], m_money[p], m_items[p], m_mailsLoaded[p],
                      m_mail[p], Nobody, destroyed)
  BY <1>1, <1>2, NoneApart DEF PlayerOK
<1> QED
  BY <1>1, <1>4, <1>5, <1>8, <1>9 DEF IInv, MemoryOK

\* Every step keeps the invariant.
LEMMA NextKeeps ==
    ASSUME IInv, [Next]_vars
    PROVE  IInv'
<1>1. ASSUME NEW p \in Players, NEW q \in Players, NEW items \in SUBSET m_items[p],
             NEW money \in SUBSET m_money[p], NEW price \in 0 .. MaxCOD,
             HandleSendMail(p, q, items, money, price)
      PROVE  IInv'
  BY <1>1, SendMailKeeps
<1>2. ASSUME NEW p \in Players, LoadMails(p) PROVE IInv'
  BY <1>2, LoadMailsKeeps
<1>3. ASSUME NEW p \in Players, Login(p) PROVE IInv'
  BY <1>3, LoginKeeps
<1>4. ASSUME NEW p \in Players, Logout(p) PROVE IInv'
  BY <1>4, LogoutKeeps
<1>5. ASSUME NEW p \in Players, NEW id \in MailIds, HandleMailMarkAsRead(p, id) PROVE IInv'
  BY <1>5, MarkAsReadKeeps
<1>6. ASSUME NEW p \in Players, NEW id \in MailIds, HandleMailDelete(p, id) PROVE IInv'
  BY <1>6, DeleteKeeps
<1>7. ASSUME NEW p \in Players, NEW id \in MailIds, HandleMailTakeMoney(p, id) PROVE IInv'
  BY <1>7, TakeMoneyKeeps
<1>8. ASSUME NEW p \in Players,
             NEW id \in MailIds, HandleMailReturnToSender(p, id) PROVE IInv'
  BY <1>8, ReturnToSenderKeeps
<1>9. ASSUME NEW p \in Players, NEW id \in MailIds, NEW item \in Items,
             NEW paid \in SUBSET m_money[p], HandleMailTakeItem(p, id, item, paid)
      PROVE  IInv'
  BY <1>9, TakeItemKeeps
<1>10. CASE LoadMailItems
  BY <1>10, LoadMailItemsKeeps
<1>11. CASE ExecuteTransaction
  BY <1>11, ExecuteTransactionKeeps
<1>12. CASE ExecuteLogin
  BY <1>12, ExecuteLoginKeeps
<1>13. ASSUME NEW old \in SUBSET Stored, CrashAndRestart(old) PROVE IInv'
  BY <1>13, CrashKeeps
<1>14. CASE UNCHANGED vars
  <2>1. /\ database' = database /\ asyncQueue' = asyncQueue /\ online' = online
        /\ m_money' = m_money /\ m_items' = m_items /\ m_mailsLoaded' = m_mailsLoaded
        /\ m_mail' = m_mail /\ loading' = loading /\ _mailId' = _mailId
        /\ destroyed' = destroyed
    BY <1>14 DEF vars
  <2>2. TypeOK'
    BY <2>1 DEF IInv, TypeOK
  <2>3. QueueOK(Stages(database', asyncQueue'), asyncQueue', online', _mailId', destroyed')
    BY <2>1 DEF IInv
  <2>4. MemoryOK'
    BY <2>1 DEF IInv, MemoryOK
  <2> QED
    BY <2>2, <2>3, <2>4 DEF IInv
<1> QED
  BY <1>1, <1>2, <1>3, <1>4, <1>5, <1>6, <1>7, <1>8, <1>9, <1>10, <1>11, <1>12, <1>13, <1>14
  DEF Next

\* The inductive invariant holds in every reachable state.
THEOREM Invariance == Spec => []IInv
<1>1. Init => IInv
  BY InitHolds
<1>2. IInv /\ [Next]_vars => IInv'
  BY NextKeeps
<1> QED
  BY <1>1, <1>2, PTL DEF Spec

\* Every variable has its type, and a mail in memory has all its parts.
THEOREM TypeCorrect == Spec => []TypeOK
<1>1. IInv => TypeOK
  BY DEF IInv
<1> QED
  BY <1>1, Invariance, PTL

-----------------------------------------------------------------------------
(* Saved once.                                                             *)

\* A set whose members are all the same has at most one.
LEMMA AtMostOne ==
    ASSUME NEW S, \A x, y \in S : x = y
    PROVE  Cardinality(S) <= 1
<1>1. CASE S = {}
  BY <1>1, FS_EmptySet
<1>2. CASE S # {}
  <2>1. PICK x \in S : TRUE
    BY <1>2
  <2>2. S = {x}
    BY <2>1
  <2> QED
    BY <2>2, FS_Singleton
<1> QED
  BY <1>1, <1>2

\* In a sound database a thing has one home.
LEMMA OneHome ==
    ASSUME NEW db \in Databases, NEW next, NEW gone, Sound(db, next, gone),
           NEW thing \in Things
    PROVE  /\ Cardinality(Homes(db, thing)) <= 1
           /\ Homes(db, thing) = {} => thing \in gone
<1>1. CASE thing \in Coins
  <2>1. Homes(db, thing) = {p \in Players : thing \in db.money[p]}
                           \cup {id \in MailsOf(db) : thing \in db.mail[id].money}
    BY <1>1 DEF Homes
  <2>2. \A x, y \in Homes(db, thing) : x = y
    BY <2>1 DEF Sound, CoinsApart
  <2>3. Homes(db, thing) = {} => thing \in gone
    BY <1>1, <2>1 DEF Sound, CoinsKept
  <2> QED
    BY <2>2, <2>3, AtMostOne
<1>2. CASE thing \notin Coins
  <2>1. thing \in Items
    BY <1>2 DEF Things
  <2>2. CASE thing \notin db.instances
    <3>1. Homes(db, thing) = {} /\ \A x, y \in Homes(db, thing) : x = y
      BY <1>2, <2>2 DEF Homes
    <3>2. thing \in gone
      BY <2>1, <2>2 DEF Sound, ItemsKept
    <3> QED
      BY <3>1, <3>2, AtMostOne
  <2>3. CASE thing \in db.instances
    <3>1. PICK p, id : /\ p = db.inventory[thing] /\ id = db.mailItems[thing]
                       /\ Homes(db, thing) = ({p} \ {Nobody}) \cup ({id} \cap MailsOf(db))
      BY <1>2, <2>3 DEF Homes
    <3>2. /\ p = Nobody \/ id = NoMail
          /\ NoMail \notin MailsOf(db)
          /\ id # NoMail => id \in MailsOf(db)
          /\ thing \notin gone => p # Nobody \/ id # NoMail
      BY <2>1, <2>3, <3>1, NoneApart DEF Sound, ItemsApart, Attaches, ItemsKept, MailsOf
    <3>3. \A x, y \in Homes(db, thing) : x = y
      BY <3>1, <3>2
    <3>4. Homes(db, thing) = {} => thing \in gone
      BY <3>1, <3>2
    <3> QED
      BY <3>3, <3>4, AtMostOne
  <2> QED
    BY <2>2, <2>3
<1> QED
  BY <1>1, <1>2

\* Wherever a crash cuts the queue off, every item and every coin is in exactly
\* one place of the database, unless it has been deleted.
THEOREM NothingLostOrDoubled == Spec => []SavedOnce
<1>1. ASSUME IInv PROVE SavedOnce
  <2> SUFFICES ASSUME NEW n \in 0 .. Len(asyncQueue), NEW thing \in Things
               PROVE  /\ Cardinality(Homes(After(n), thing)) <= 1
                      /\ Homes(After(n), thing) = {} => thing \in destroyed
    BY DEF SavedOnce
  <2>1. After(n) \in Databases /\ Sound(After(n), _mailId, destroyed)
    BY <1>1, FinalFacts DEF IInv, QueueOK, After
  <2> QED
    BY <2>1, OneHome
<1>2. IInv => SavedOnce
  BY <1>1
<1> QED
  BY <1>2, Invariance, PTL

-----------------------------------------------------------------------------
(* One holder.                                                             *)

\* What a player has in memory is his in the final database.
LEMMA HeldInFinal ==
    ASSUME IInv, NEW p \in Players
    PROVE  /\ m_money[p] \subseteq Final.money[p] /\ m_money[p] \subseteq Coins
           /\ m_items[p] \subseteq Carried(Final, p) /\ m_items[p] \subseteq Items
           /\ \A id \in MailIds :
                /\ InMail(p, id) \subseteq Final.mail[id].money \cup Attached(Final, id)
                /\ InMail(p, id) # {} => id \in Addressed(Final, p)
<1>1. /\ TypeOK /\ Final = Stages(database, asyncQueue)[Len(asyncQueue)]
      /\ PlayerOK(Stages(database, asyncQueue), Len(asyncQueue), p, online[p], m_money[p],
                  m_items[p], m_mailsLoaded[p], m_mail[p], loading, destroyed)
  BY FinalFacts DEF IInv, MemoryOK
<1>2. /\ m_money[p] \subseteq Final.money[p] /\ m_money[p] \subseteq Coins
      /\ m_items[p] \subseteq Carried(Final, p) /\ m_items[p] \subseteq Items
  BY <1>1 DEF PlayerOK, TypeOK
<1>3. ASSUME NEW id \in MailIds
      PROVE  /\ InMail(p, id) \subseteq Final.mail[id].money \cup Attached(Final, id)
             /\ InMail(p, id) # {} => id \in Addressed(Final, p)
  <2>1. CASE InMail(p, id) = {}
    BY <2>1
  <2>2. CASE InMail(p, id) # {}
    <3>1. m_mail[p][id] # NoMail /\ InMail(p, id) = m_mail[p][id].money \cup m_mail[p][id].items
      BY <2>2 DEF InMail, Live, Has
    <3>2. MailOK(m_mail[p][id], id, p, Final, m_mailsLoaded[p], destroyed)
      BY <1>1, <3>1 DEF PlayerOK
    <3>3. m_mail[p][id].items \subseteq Attached(Final, id)
      <4>1. CASE m_mailsLoaded[p]
        BY <3>2, <4>1 DEF MailOK
      <4>2. CASE ~m_mailsLoaded[p]
        <5>1. loading = p
          BY <1>1, <3>1, <4>2 DEF PlayerOK, NoBox
        <5> QED
          BY <1>1, <3>1, <5>1 DEF PlayerOK, LoadingOK
      <4> QED
        BY <4>1, <4>2
    <3> QED
      BY <3>1, <3>2, <3>3 DEF MailOK
  <2> QED
    BY <2>1, <2>2
<1> QED
  BY <1>2, <1>3

\* No item and no coin is in two hands, or twice in one.
THEOREM InOneHand == Spec => []OneHolder
<1>1. ASSUME IInv PROVE OneHolder
  <2>1. PICK db \in Databases : db = Final
    BY <1>1, FinalFacts DEF IInv
  <2>2. /\ CoinsApart(db) /\ ItemsApart(db) /\ Attaches(db)
        /\ Items \cap Coins = {} /\ Nobody \notin Players /\ \A id \in MailIds : id # NoMail
        /\ db.instances \subseteq Items
        /\ \A id \in MailsOf(db) : id \in MailIds /\ db.mail[id].money \subseteq Coins
    BY <1>1, <2>1, FinalSound, StartAssumption, NoneApart, DatabaseParts DEF Sound, Rows
  <2>3. ASSUME NEW p \in Players
        PROVE  /\ m_money[p] \subseteq db.money[p] /\ m_money[p] \subseteq Coins
               /\ m_items[p] \subseteq Carried(db, p) /\ m_items[p] \subseteq Items
               /\ \A id \in MailIds :
                    /\ InMail(p, id) \subseteq db.mail[id].money \cup Attached(db, id)
                    /\ InMail(p, id) # {} => id \in MailsOf(db) /\ db.mail[id].receiver = p
    BY <1>1, <2>1, HeldInFinal DEF Addressed
  <2>4. ASSUME NEW p \in Players, NEW id \in MailIds, NEW q \in Players
        PROVE  InMail(p, id) \cap (m_money[q] \cup m_items[q]) = {}
    <3> SUFFICES ASSUME NEW x \in InMail(p, id), x \in m_money[q] \/ x \in m_items[q]
                 PROVE  FALSE
      OBVIOUS
    <3>1. id \in MailsOf(db) /\ (x \in db.mail[id].money \/ x \in Attached(db, id))
      BY <2>3
    <3>2. CASE x \in m_money[q]
      <4>1. x \in db.money[q] /\ x \in Coins
        BY <2>3, <3>2
      <4>2. x \notin Attached(db, id)
        BY <2>2, <4>1 DEF Attached
      <4> QED
        BY <2>2, <3>1, <4>1, <4>2 DEF CoinsApart
    <3>3. CASE x \in m_items[q]
      <4>1. x \in Carried(db, q) /\ x \in Items
        BY <2>3, <3>3
      <4>2. x \in Attached(db, id)
        BY <2>2, <3>1, <4>1
      <4> QED
        BY <2>2, <4>1, <4>2 DEF ItemsApart, Carried, Attached
    <3> QED
      BY <3>2, <3>3
  <2>5. ASSUME NEW p \in Players, NEW q \in Players, NEW id \in MailIds, NEW o \in MailIds,
               p # q \/ id # o
        PROVE  InMail(p, id) \cap InMail(q, o) = {}
    <3> SUFFICES ASSUME NEW x \in InMail(p, id), x \in InMail(q, o)
                 PROVE  FALSE
      OBVIOUS
    <3>1. /\ id \in MailsOf(db) /\ db.mail[id].receiver = p
          /\ o \in MailsOf(db) /\ db.mail[o].receiver = q
          /\ x \in db.mail[id].money \/ x \in Attached(db, id)
          /\ x \in db.mail[o].money \/ x \in Attached(db, o)
      BY <2>3
    <3>2. id # o
      BY <2>5, <3>1
    <3>3. x \in Coins => x \notin Attached(db, id) /\ x \notin Attached(db, o)
      BY <2>2 DEF Attached
    <3>4. x \notin Coins => x \in Attached(db, id) /\ x \in Attached(db, o)
      BY <2>2, <3>1
    <3> QED
      BY <2>2, <3>1, <3>2, <3>3, <3>4 DEF CoinsApart, Attached
  <2>6. ASSUME NEW p \in Players, NEW q \in Players, p # q
        PROVE  Held(p) \cap Held(q) = {}
    <3>1. (m_money[p] \cup m_items[p]) \cap (m_money[q] \cup m_items[q]) = {}
      <4>1. m_money[p] \cap m_money[q] = {}
        BY <2>2, <2>3, <2>6 DEF CoinsApart
      <4>2. m_items[p] \cap m_items[q] = {}
        BY <2>3, <2>6 DEF Carried
      <4>3. m_money[p] \cap m_items[q] = {} /\ m_items[p] \cap m_money[q] = {}
        BY <2>2, <2>3
      <4> QED
        BY <4>1, <4>2, <4>3
    <3> QED
      BY <2>4, <2>5, <2>6, <3>1 DEF Held
  <2> QED
    BY <2>4, <2>5, <2>6 DEF OneHolder
<1>2. IInv => OneHolder
  BY <1>1
<1> QED
  BY <1>2, Invariance, PTL

-----------------------------------------------------------------------------
\* Once the queue is executed, the database holds what players and their listed
\* mailboxes hold in memory.
THEOREM MemoryIsSaved == Spec => []QueueSavesMemory
<1>1. ASSUME IInv PROVE QueueSavesMemory
  <2> SUFFICES ASSUME NEW p \in Players, online[p] = "in"
               PROVE  /\ Final.money[p] = m_money[p]
                      /\ Carried(Final, p) = m_items[p]
                      /\ m_mailsLoaded[p] => \A id \in MailIds : Live(p, id) =>
                            /\ Final.mail[id] # NoMail
                            /\ Final.mail[id].receiver = p
                            /\ Final.mail[id].money = m_mail[p][id].money
                            /\ Final.mail[id].COD = m_mail[p][id].COD
                            /\ Attached(Final, id) = m_mail[p][id].items
    BY DEF QueueSavesMemory, Final, Carried
  <2>1. /\ Final = Stages(database, asyncQueue)[Len(asyncQueue)]
        /\ PlayerOK(Stages(database, asyncQueue), Len(asyncQueue), p, online[p], m_money[p],
                    m_items[p], m_mailsLoaded[p], m_mail[p], loading, destroyed)
    BY <1>1, FinalFacts DEF IInv, MemoryOK
  <2>2. Final.money[p] = m_money[p] /\ Carried(Final, p) = m_items[p]
    BY <2>1 DEF PlayerOK
  <2>3. ASSUME m_mailsLoaded[p], NEW id \in MailIds, Live(p, id)
        PROVE  MailOK(m_mail[p][id], id, p, Final, TRUE, destroyed)
    <3>1. MailOK(m_mail[p][id], id, p, Final, m_mailsLoaded[p], destroyed)
      BY <2>1, <2>3 DEF PlayerOK, Live, Has
    <3> QED
      BY <2>3, <3>1 DEF MailOK
  <2> QED
    BY <2>2, <2>3 DEF MailOK, Addressed, MailsOf
<1>2. IInv => QueueSavesMemory
  BY <1>1
<1> QED
  BY <1>2, Invariance, PTL

-----------------------------------------------------------------------------
\* What a step does to the database: nothing, or what the first transaction says.
LEMMA DatabaseSteps ==
    ASSUME Next
    PROVE  ExecuteTransaction \/ database' = database
<1>1. ASSUME NEW p, NEW q, NEW items, NEW money, NEW price,
             HandleSendMail(p, q, items, money, price)
      PROVE  database' = database
  BY <1>1 DEF HandleSendMail
<1>2. ASSUME NEW p, LoadMails(p) \/ Login(p) \/ Logout(p)
      PROVE  database' = database
  BY <1>2 DEF LoadMails, Login, Logout
<1>3. ASSUME NEW p, NEW id, HandleMailMarkAsRead(p, id) \/ HandleMailDelete(p, id)
      PROVE  database' = database
  BY <1>3 DEF HandleMailMarkAsRead, HandleMailDelete
<1>4. ASSUME NEW p, NEW id, HandleMailTakeMoney(p, id) \/ HandleMailReturnToSender(p, id)
      PROVE  database' = database
  BY <1>4 DEF HandleMailTakeMoney, HandleMailReturnToSender
<1>5. ASSUME NEW p, NEW id, NEW item, NEW paid, HandleMailTakeItem(p, id, item, paid)
      PROVE  database' = database
  BY <1>5 DEF HandleMailTakeItem
<1>6. CASE LoadMailItems \/ ExecuteLogin
  BY <1>6 DEF LoadMailItems, ExecuteLogin
<1>7. ASSUME NEW old, CrashAndRestart(old)
      PROVE  database' = database
  BY <1>7 DEF CrashAndRestart
<1> QED
  BY <1>1, <1>2, <1>3, <1>4, <1>5, <1>6, <1>7 DEF Next

\* The transaction that hands out an item cash on delivery pays for it.
THEOREM PriceIsPaid == Spec => PaidOnDelivery
<1>1. ASSUME IInv, [Next]_vars PROVE PaidStep(database, database')
  <2>1. /\ TypeOK /\ database \in Databases
        /\ QueueOK(Stages(database, asyncQueue), asyncQueue, online, _mailId, destroyed)
    BY <1>1 DEF IInv, TypeOK
  <2>2. CASE database' = database
    <3>1. /\ Stages(database, asyncQueue)[0] = database /\ 0 \in 0 .. Len(asyncQueue)
      BY <2>1, FinalFacts
    <3>2. ItemsApart(database)
      BY <2>1, <3>1 DEF QueueOK, Sound
    <3> QED
      BY <2>1, <2>2, <3>2, NothingToPay
  <2>3. CASE ExecuteTransaction
    <3>1. asyncQueue # <<>> /\ Head(asyncQueue).what = "transaction"
          /\ database' = Effect(database, Head(asyncQueue))
      BY <2>3 DEF ExecuteTransaction, Effect
    <3>2. PICK e, st, st2, n : n \in Nat /\ Takes(e, n, st, st2)
      BY <2>1, <3>1, WorkerTakes
    <3>3. /\ e = Head(asyncQueue) /\ n = Len(asyncQueue) /\ n >= 1
          /\ st = Stages(database, asyncQueue) /\ st[0] = database
          /\ st[1] = Effect(database, e)
      BY <3>2 DEF Takes
    <3>4. 1 \in 1 .. n /\ 1 - 1 = 0
      BY <3>2, <3>3
    <3>5. PaidStep(st[1 - 1], st[1])
      BY <2>1, <3>3, <3>4 DEF QueueOK
    <3> QED
      BY <3>1, <3>3, <3>4, <3>5
  <2> QED
    BY <1>1, <2>2, <2>3, DatabaseSteps DEF vars
<1>2. IInv /\ [Next]_vars => [\A i \in Items, id \in MailsOf(database) :
        /\ database.mailItems[i] = id
        /\ database.mail[id].COD > 0
        /\ database'.inventory[i] = database.mail[id].receiver
        => \E pay \in MailIds :
            /\ database.mail[pay] = NoMail
            /\ database'.mail[pay] # NoMail
            /\ database'.mail[pay].receiver = database.mail[id].sender
            /\ Cardinality(database'.mail[pay].money) = database.mail[id].COD]_vars
  BY <1>1 DEF PaidStep
<1> QED
  BY <1>2, Invariance, PTL DEF Spec, PaidOnDelivery

=============================================================================

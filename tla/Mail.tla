-------------------------------- MODULE Mail --------------------------------
(***************************************************************************)
(* Mail between players: MailHandler.cpp, Mail.cpp, the mailbox of Player  *)
(* and the return of old mail (ObjectMgr.cpp).  What a mail carries has    *)
(* two homes at any time, one in memory and one in the character database, *)
(* and they are not changed together: a handler changes memory at once and *)
(* queues a transaction, which the database worker executes later, while a *)
(* mailbox is loaded by two synchronous queries which do not wait for the  *)
(* queue.  The server may crash between any two steps.                     *)
(*                                                                         *)
(* The handlers run in the world thread, one after the other.  Items and   *)
(* coins are tokens, so that each of them can be followed.  Whatever time  *)
(* decides is a choice: which mails are old when old mail is returned, and *)
(* a delayed delivery is a mail nobody has touched yet.                    *)
(*                                                                         *)
(* Left out: postage, the text of a mail and the mark that it was read,    *)
(* letters with nothing in them, the caps (full bags, full purses and full *)
(* mailboxes only make a handler do nothing), items that stack, mail that  *)
(* is not from a player, and players whose character is deleted.           *)
(***************************************************************************)
EXTENDS Integers, Sequences, SequencesExt, FiniteSets, FiniteSetsExt

CONSTANTS
    Players, Items, Coins,
    StartMoney,     \* the coins of each player, at first
    StartOwner,     \* the player who carries each item, at first
    MaxCOD,         \* bound on the price of a mail
    MaxMails,       \* bound on the number of a mail
    MaxQueue,       \* bound on the queue of the worker, for handlers
    MaxDays,        \* bound on the daily returns of old mail
    Nobody, NoMail

ASSUME StartAssumption ==
    /\ StartMoney \in [Players -> SUBSET Coins]
    /\ \A c \in Coins : \E p \in Players : \A q \in Players : c \in StartMoney[q] <=> q = p
    /\ StartOwner \in [Items -> Players]
    /\ Items \cap Coins = {}
ASSUME FiniteAssumption == IsFiniteSet(Items) /\ IsFiniteSet(Coins)
ASSUME BoundAssumption ==
    /\ MaxCOD \in Nat
    /\ MaxMails \in Nat
    /\ MaxQueue \in Nat
    /\ MaxDays \in Nat

VARIABLES
    database,   \* the tables of the character database
    asyncQueue, \* transactions and logins on their way to the worker
    online,     \* "out", "loading" or "in" the world
    m_money, m_items,   \* what a player in the world carries
    m_mailsLoaded,
    m_mail,     \* the mailbox of a player in memory
    loading,    \* the player whose mailbox is being loaded
    _mailId,    \* ObjectMgr: the number of the next mail
    days,       \* daily returns so far
    destroyed   \* what a player or a return of old mail has deleted (a history)

vars == <<database, asyncQueue, online, m_money, m_items, m_mailsLoaded, m_mail,
          loading, _mailId, days, destroyed>>
memory == <<online, m_money, m_items, m_mailsLoaded, m_mail, loading, _mailId>>

MailIds == 1 .. MaxMails

\* mail.checked: an ordinary mail, one that came back, or the payment of a COD.
Checks == {"NONE", "RETURNED", "COD_PAYMENT"}
Rows == [sender: Players, receiver: Players, has_items: BOOLEAN,
         money: SUBSET Coins, COD: 0 .. MaxCOD, checked: Checks]
Mails == [sender: Players, receiver: Players, money: SUBSET Coins, COD: 0 .. MaxCOD,
          items: SUBSET Items, removedItems: SUBSET Items,
          state: {"UNCHANGED", "CHANGED", "DELETED"}]
ASSUME NobodyAssumption ==
    /\ Nobody \notin Players
    /\ NoMail \notin MailIds \cup Rows \cup Mails
NoBox == [id \in MailIds |-> NoMail]

(***************************************************************************)
(* The database.  Its tables are characters (money), character_inventory,  *)
(* item_instance, mail and mail_items.  The statements are those that      *)
(* CharacterDatabase.cpp prepares (159, 181-201, 597, 650-656); one for a  *)
(* row that is not there does nothing.  INS_MAIL_ITEM of an item that is   *)
(* attached already, which the primary key would refuse, does not occur    *)
(* while SavedOnce holds: the item would be in two mails.                  *)
(***************************************************************************)
Databases ==
    [money: [Players -> SUBSET Coins], inventory: [Items -> Players \cup {Nobody}],
     instances: SUBSET Items, mail: [MailIds -> Rows \cup {NoMail}],
     mailItems: [Items -> MailIds \cup {NoMail}]]

Statements ==
    [stmt: {"UPD_CHAR_MONEY"}, player: Players, money: SUBSET Coins]
    \cup [stmt: {"REP_INVENTORY_ITEM"}, player: Players, item: Items]
    \cup [stmt: {"DEL_INVENTORY", "DEL_ITEM_INSTANCE", "DEL_MAIL_ITEM"}, item: Items]
    \cup [stmt: {"INS_MAIL"}, id: MailIds, row: Rows]
    \cup [stmt: {"INS_MAIL_ITEM"}, id: MailIds, item: Items]
    \cup [stmt: {"UPD_MAIL"}, id: MailIds, has_items: BOOLEAN, money: SUBSET Coins,
           COD: 0 .. MaxCOD]
    \cup [stmt: {"UPD_MAIL_RETURNED"}, id: MailIds, sender: Players, receiver: Players]
    \cup [stmt: {"DEL_MAIL_BY_ID", "DEL_MAIL_ITEM_BY_ID"}, id: MailIds]

\* What the worker takes from its queue: a transaction, or the query of a login.
Elements == [what: {"transaction"}, trans: Seq(Statements)]
            \cup [what: {"login"}, player: Players]

Execute(db, s) ==
    CASE s.stmt = "UPD_CHAR_MONEY" -> [db EXCEPT !.money[s.player] = s.money]
      [] s.stmt = "REP_INVENTORY_ITEM" -> [db EXCEPT !.inventory[s.item] = s.player]
      [] s.stmt = "DEL_INVENTORY" -> [db EXCEPT !.inventory[s.item] = Nobody]
      [] s.stmt = "DEL_ITEM_INSTANCE" -> [db EXCEPT !.instances = @ \ {s.item}]
      [] s.stmt = "INS_MAIL" -> [db EXCEPT !.mail[s.id] = s.row]
      [] s.stmt = "INS_MAIL_ITEM" -> [db EXCEPT !.mailItems[s.item] = s.id]
      [] s.stmt = "UPD_MAIL" /\ db.mail[s.id] # NoMail ->
            [db EXCEPT !.mail[s.id] =
                [@ EXCEPT !.has_items = s.has_items, !.money = s.money, !.COD = s.COD]]
      [] s.stmt = "UPD_MAIL_RETURNED" /\ db.mail[s.id] # NoMail ->
            [db EXCEPT !.mail[s.id] =
                [@ EXCEPT !.sender = s.sender, !.receiver = s.receiver,
                          !.COD = 0, !.checked = "RETURNED"]]
      [] s.stmt = "DEL_MAIL_BY_ID" -> [db EXCEPT !.mail[s.id] = NoMail]
      [] s.stmt = "DEL_MAIL_ITEM" -> [db EXCEPT !.mailItems[s.item] = NoMail]
      [] s.stmt = "DEL_MAIL_ITEM_BY_ID" ->
            [db EXCEPT !.mailItems =
                [i \in Items |-> IF @[i] = s.id THEN NoMail ELSE @[i]]]
      [] OTHER -> db

\* The statements of a transaction, one after the other.
Committed(db, trans) ==
    LET after[n \in 0 .. Len(trans)] ==
            IF n = 0 THEN db ELSE Execute(after[n - 1], trans[n])
    IN after[Len(trans)]

\* The items a query joins to a mail: mail_items and item_instance.
Attached(db, id) == {i \in db.instances : db.mailItems[i] = id}

Queued(trans) == [what |-> "transaction", trans |-> trans]

(***************************************************************************)
(* Saving what a player carries, and his mailbox.                          *)
(***************************************************************************)
SaveGoldToDB(player, money) ==
    <<[stmt |-> "UPD_CHAR_MONEY", player |-> player, money |-> money]>>

DeleteMail(id) == <<[stmt |-> "DEL_MAIL_BY_ID", id |-> id],
                    [stmt |-> "DEL_MAIL_ITEM_BY_ID", id |-> id]>>

\* One statement for each of a set of items.
ForEach(items, stmt(_)) == LET s == SetToSeq(items) IN [k \in DOMAIN s |-> stmt(s[k])]

DeleteInstance(item) == [stmt |-> "DEL_ITEM_INSTANCE", item |-> item]
DeleteMailItem(item) == [stmt |-> "DEL_MAIL_ITEM", item |-> item]

\* Mutant of SaveMail: taken items stay in mail_items.
SaveMailKeepingItems(id, m) ==
    IF m = NoMail \/ m.state # "CHANGED" THEN <<>>
    ELSE <<[stmt |-> "UPD_MAIL", id |-> id, has_items |-> m.items # {},
            money |-> m.money, COD |-> m.COD]>>

SaveMail(id, m) ==
    CASE m = NoMail -> <<>>
      [] m # NoMail /\ m.state = "UNCHANGED" -> <<>>
      [] m # NoMail /\ m.state = "CHANGED" ->
            <<[stmt |-> "UPD_MAIL", id |-> id, has_items |-> m.items # {},
               money |-> m.money, COD |-> m.COD]>>
            \o ForEach(m.removedItems, DeleteMailItem)
      [] m # NoMail /\ m.state = "DELETED" ->
            ForEach(m.items, DeleteInstance) \o DeleteMail(id)

_SaveMail(box) == FlattenSeq([id \in MailIds |-> SaveMail(id, box[id])])

\* The mailbox once it is saved: deleted mails are gone, the others are unchanged.
Saved(box) ==
    [id \in MailIds |->
        IF box[id] = NoMail THEN NoMail
        ELSE IF box[id].state = "DELETED" THEN NoMail
        ELSE [box[id] EXCEPT !.state = "UNCHANGED", !.removedItems = {}]]

(***************************************************************************)
(* Sending.  The statements are appended to the transaction of the caller. *)
(***************************************************************************)
MailItem(id, item) == [stmt |-> "INS_MAIL_ITEM", id |-> id, item |-> item]

SendMailTo(id, row, items) ==
    <<[stmt |-> "INS_MAIL", id |-> id, row |-> row]>>
    \o ForEach(items, LAMBDA i : MailItem(id, i))

\* Only a receiver who has listed his mails gets the mail in memory.
Delivered(boxes, id, row, items) ==
    IF online[row.receiver] = "in" /\ m_mailsLoaded[row.receiver]
    THEN [boxes EXCEPT ![row.receiver][id] =
            [sender |-> row.sender, receiver |-> row.receiver, money |-> row.money,
             COD |-> row.COD, items |-> items, removedItems |-> {}, state |-> "UNCHANGED"]]
    ELSE boxes

\* The world thread is free and player is in the world.
Handles(player) ==
    /\ loading = Nobody
    /\ online[player] = "in"
    /\ Len(asyncQueue) < MaxQueue

HandleSendMail(player, receiver, items, money, price) ==
    /\ Handles(player)
    /\ receiver # player
    /\ _mailId <= MaxMails
    /\ LET row == [sender |-> player, receiver |-> receiver, has_items |-> items # {},
                   money |-> money, COD |-> IF items = {} THEN 0 ELSE price,
                   checked |-> "NONE"]
       IN /\ m_money' = [m_money EXCEPT ![player] = @ \ money]
          /\ m_items' = [m_items EXCEPT ![player] = @ \ items]
          /\ m_mail' = Delivered(m_mail, _mailId, row, items)
          /\ asyncQueue' = Append(asyncQueue, Queued(
                ForEach(items, LAMBDA i : [stmt |-> "DEL_INVENTORY", item |-> i])
                \o SendMailTo(_mailId, row, items)
                \o SaveGoldToDB(player, m_money[player] \ money)))
    /\ _mailId' = _mailId + 1
    /\ UNCHANGED <<database, online, m_mailsLoaded, loading, days, destroyed>>

(***************************************************************************)
(* The mailbox.                                                            *)
(***************************************************************************)
\* The first query of Player::_LoadMail, from HandleGetMailList or
\* HandleQueryNextMailTime.
LoadMails(player) ==
    /\ Handles(player)
    /\ ~m_mailsLoaded[player]
    /\ m_mail' = [m_mail EXCEPT ![player] = [id \in MailIds |->
            LET row == database.mail[id]
            IN IF row = NoMail THEN NoMail
               ELSE IF row.receiver # player THEN NoMail
               ELSE [sender |-> row.sender, receiver |-> player, money |-> row.money,
                     COD |-> row.COD, items |-> {}, removedItems |-> {},
                     state |-> "UNCHANGED"]]]
    /\ loading' = player
    /\ UNCHANGED <<database, asyncQueue, online, m_money, m_items, m_mailsLoaded,
                   _mailId, days, destroyed>>

\* Mutant of Filled: the mail of an item is taken to be there.
FilledBlindly(box, items, id) ==
    IF box[id] # NoMail THEN [box[id] EXCEPT !.items = items]
    ELSE IF items = {} THEN NoMail ELSE [items |-> items]

\* The second query: the items of the mails addressed to the player now.  An
\* item of a mail that the first query has not seen is loaded into no mail.
Filled(box, items, id) == IF box[id] = NoMail THEN NoMail ELSE [box[id] EXCEPT !.items = items]

LoadMailItems ==
    /\ loading # Nobody
    /\ m_mail' = [m_mail EXCEPT ![loading] = [id \in MailIds |->
            LET row == database.mail[id]
                mine == IF row = NoMail THEN FALSE ELSE row.receiver = loading
            IN Filled(m_mail[loading], IF mine THEN Attached(database, id) ELSE {}, id)]]
    /\ m_mailsLoaded' = [m_mailsLoaded EXCEPT ![loading] = TRUE]
    /\ loading' = Nobody
    /\ UNCHANGED <<database, asyncQueue, online, m_money, m_items, _mailId, days, destroyed>>

\* GetMail finds deleted mails as well; all handlers but the one for deleting
\* want a mail that is not deleted.
Has(player, id) == m_mail[player][id] # NoMail
Live(player, id) == Has(player, id) /\ m_mail[player][id].state # "DELETED"

HandleMailMarkAsRead(player, id) ==
    /\ Handles(player)
    /\ Live(player, id)
    /\ m_mail' = [m_mail EXCEPT ![player][id].state = "CHANGED"]
    /\ UNCHANGED <<database, asyncQueue, online, m_money, m_items, m_mailsLoaded,
                   loading, _mailId, days, destroyed>>

HandleMailDelete(player, id) ==
    /\ Handles(player)
    /\ Has(player, id)
    /\ m_mail[player][id].COD = 0
    /\ m_mail' = [m_mail EXCEPT ![player][id].state = "DELETED"]
    /\ destroyed' = destroyed \cup m_mail[player][id].money \cup m_mail[player][id].items
    /\ UNCHANGED <<database, asyncQueue, online, m_money, m_items, m_mailsLoaded,
                   loading, _mailId, days>>

\* Mutant of MoneyTaken: the mail is not marked as changed.
MoneyTakenUnmarked(box, id) == [box EXCEPT ![id].money = {}]

\* Mutant of MoneyTaken: the mail keeps its money.
MoneyTakenTwice(box, id) == [box EXCEPT ![id].state = "CHANGED"]

\* The mailbox after the money of a mail is taken.
MoneyTaken(box, id) == [box EXCEPT ![id].money = {}, ![id].state = "CHANGED"]

HandleMailTakeMoney(player, id) ==
    /\ Handles(player)
    /\ Live(player, id)
    /\ LET money == m_money[player] \cup m_mail[player][id].money
           box == MoneyTaken(m_mail[player], id)
       IN /\ m_money' = [m_money EXCEPT ![player] = money]
          /\ m_mail' = [m_mail EXCEPT ![player] = Saved(box)]
          /\ asyncQueue' =
                Append(asyncQueue, Queued(SaveGoldToDB(player, money) \o _SaveMail(box)))
    /\ UNCHANGED <<database, online, m_items, m_mailsLoaded, loading, _mailId, days,
                   destroyed>>

\* Mutant of ItemTaken: the payment is a transaction of its own.
ItemTakenThenPaid(payment, saved) == <<Queued(saved), Queued(payment)>>

\* What the taking of an item queues: one transaction with the payment of the
\* COD, what the player carries, and his mailbox.
ItemTaken(payment, saved) == <<Queued(payment \o saved)>>

\* Paid: the coins that pay the COD; the code only counts them.
HandleMailTakeItem(player, id, item, paid) ==
    /\ Handles(player)
    /\ Live(player, id)
    /\ LET m == m_mail[player][id]
           money == m_money[player] \ paid
           box == [m_mail[player] EXCEPT
                    ![id].items = @ \ {item}, ![id].removedItems = @ \cup {item},
                    ![id].COD = 0, ![id].state = "CHANGED"]
           row == [sender |-> player, receiver |-> m.sender, has_items |-> FALSE,
                   money |-> paid, COD |-> 0, checked |-> "COD_PAYMENT"]
           boxes == [m_mail EXCEPT ![player] = Saved(box)]
       IN /\ item \in m.items
          /\ Cardinality(paid) = m.COD
          /\ m.COD > 0 => _mailId <= MaxMails
          /\ m_money' = [m_money EXCEPT ![player] = money]
          /\ m_items' = [m_items EXCEPT ![player] = @ \cup {item}]
          /\ m_mail' = IF m.COD > 0 THEN Delivered(boxes, _mailId, row, {}) ELSE boxes
          /\ _mailId' = IF m.COD > 0 THEN _mailId + 1 ELSE _mailId
          /\ asyncQueue' = asyncQueue \o ItemTaken(
                IF m.COD > 0 THEN SendMailTo(_mailId, row, {}) ELSE <<>>,
                <<[stmt |-> "REP_INVENTORY_ITEM", player |-> player, item |-> item]>>
                \o SaveGoldToDB(player, money) \o _SaveMail(box))
    /\ UNCHANGED <<database, online, m_mailsLoaded, loading, days, destroyed>>

\* The old mail is deleted and a new one sent, in one transaction.
HandleMailReturnToSender(player, id) ==
    /\ Handles(player)
    /\ Live(player, id)
    /\ _mailId <= MaxMails
    /\ LET m == m_mail[player][id]
           row == [sender |-> player, receiver |-> m.sender, has_items |-> m.items # {},
                   money |-> m.money, COD |-> 0, checked |-> "RETURNED"]
       IN /\ m_mail' = Delivered([m_mail EXCEPT ![player][id] = NoMail], _mailId, row, m.items)
          /\ asyncQueue' = Append(asyncQueue,
                Queued(DeleteMail(id) \o SendMailTo(_mailId, row, m.items)))
    /\ _mailId' = _mailId + 1
    /\ UNCHANGED <<database, online, m_money, m_items, m_mailsLoaded, loading, days,
                   destroyed>>

(***************************************************************************)
(* Coming and going.  A login is a query in the queue of the worker, which *)
(* is why it finds everything that was queued before it.                   *)
(***************************************************************************)
Login(player) ==
    /\ loading = Nobody
    /\ online[player] = "out"
    /\ Len(asyncQueue) < MaxQueue
    /\ online' = [online EXCEPT ![player] = "loading"]
    /\ asyncQueue' = Append(asyncQueue, [what |-> "login", player |-> player])
    /\ UNCHANGED <<database, m_money, m_items, m_mailsLoaded, m_mail, loading, _mailId,
                   days, destroyed>>

\* SaveToDB saves the mailbox if anything in it has changed.
Logout(player) ==
    /\ Handles(player)
    /\ asyncQueue' = Append(asyncQueue,
            Queued(_SaveMail(m_mail[player]) \o SaveGoldToDB(player, m_money[player])))
    /\ online' = [online EXCEPT ![player] = "out"]
    /\ m_money' = [m_money EXCEPT ![player] = {}]
    /\ m_items' = [m_items EXCEPT ![player] = {}]
    /\ m_mail' = [m_mail EXCEPT ![player] = NoBox]
    /\ m_mailsLoaded' = [m_mailsLoaded EXCEPT ![player] = FALSE]
    /\ UNCHANGED <<database, loading, _mailId, days, destroyed>>

(***************************************************************************)
(* The worker of the database executes the queue in order, a transaction   *)
(* at a time.                                                              *)
(***************************************************************************)
ExecuteTransaction ==
    /\ asyncQueue # <<>>
    /\ Head(asyncQueue).what = "transaction"
    /\ database' = Committed(database, Head(asyncQueue).trans)
    /\ asyncQueue' = Tail(asyncQueue)
    /\ UNCHANGED <<memory, days, destroyed>>

ExecuteLogin ==
    /\ asyncQueue # <<>>
    /\ Head(asyncQueue).what = "login"
    /\ LET player == Head(asyncQueue).player
       IN /\ online' = [online EXCEPT ![player] = "in"]
          /\ m_money' = [m_money EXCEPT ![player] = database.money[player]]
          /\ m_items' = [m_items EXCEPT ![player] =
                {i \in database.instances : database.inventory[i] = player}]
    /\ asyncQueue' = Tail(asyncQueue)
    /\ UNCHANGED <<database, m_mailsLoaded, m_mail, loading, _mailId, days, destroyed>>

(***************************************************************************)
(* Old mail.  The mails are read by synchronous queries, and what is done  *)
(* about them is queued statement by statement, in no transaction.         *)
(***************************************************************************)
ReturnedTo(row) == row.has_items /\ row.checked = "NONE"

ReturnOrDelete(id) ==
    LET row == database.mail[id]
        items == Attached(database, id)
        statements ==
            IF ReturnedTo(row)
            THEN <<[stmt |-> "UPD_MAIL_RETURNED", id |-> id, sender |-> row.receiver,
                    receiver |-> row.sender]>>
            ELSE (IF row.has_items
                  THEN ForEach(items, DeleteInstance)
                       \o <<[stmt |-> "DEL_MAIL_ITEM_BY_ID", id |-> id]>>
                  ELSE <<>>)
                 \o <<[stmt |-> "DEL_MAIL_BY_ID", id |-> id]>>
    IN [k \in DOMAIN statements |-> Queued(<<statements[k]>>)]

ReturnOrDeleteOldMails(old) ==
    FlattenSeq([id \in MailIds |-> IF id \in old THEN ReturnOrDelete(id) ELSE <<>>])

Deleted(old) ==
    UNION {database.mail[id].money \cup Attached(database, id) :
                id \in {o \in old : ~ReturnedTo(database.mail[o])}}

Stored == {id \in MailIds : database.mail[id] # NoMail}

\* Memory and the queue are gone; old mail is returned before anybody can log in.
CrashAndRestart(old) ==
    /\ old \subseteq Stored
    /\ online' = [p \in Players |-> "out"]
    /\ m_money' = [p \in Players |-> {}]
    /\ m_items' = [p \in Players |-> {}]
    /\ m_mailsLoaded' = [p \in Players |-> FALSE]
    /\ m_mail' = [p \in Players |-> NoBox]
    /\ loading' = Nobody
    /\ _mailId' = IF Stored = {} THEN 1 ELSE Max(Stored) + 1
    /\ asyncQueue' = ReturnOrDeleteOldMails(old)
    /\ destroyed' = destroyed \cup Deleted(old)
    /\ UNCHANGED <<database, days>>

\* Once a day: mail whose receiver has listed his mails is left alone.
DailyReturn(old) ==
    /\ days < MaxDays
    /\ loading = Nobody
    /\ old \subseteq {id \in Stored :
            LET p == database.mail[id].receiver IN ~(online[p] = "in" /\ m_mailsLoaded[p])}
    /\ asyncQueue' = asyncQueue \o ReturnOrDeleteOldMails(old)
    /\ destroyed' = destroyed \cup Deleted(old)
    /\ days' = days + 1
    /\ UNCHANGED <<database, memory>>

-----------------------------------------------------------------------------
Init ==
    /\ database = [money |-> StartMoney, inventory |-> StartOwner, instances |-> Items,
                   mail |-> NoBox, mailItems |-> [i \in Items |-> NoMail]]
    /\ asyncQueue = <<>>
    /\ online = [p \in Players |-> "out"]
    /\ m_money = [p \in Players |-> {}]
    /\ m_items = [p \in Players |-> {}]
    /\ m_mailsLoaded = [p \in Players |-> FALSE]
    /\ m_mail = [p \in Players |-> NoBox]
    /\ loading = Nobody
    /\ _mailId = 1
    /\ days = 0
    /\ destroyed = {}

Next ==
    \/ \E p, q \in Players : \E items \in SUBSET m_items[p], money \in SUBSET m_money[p],
            price \in 0 .. MaxCOD :
        items \cup money # {} /\ HandleSendMail(p, q, items, money, price)
    \/ \E p \in Players :
        \/ LoadMails(p)
        \/ Login(p)
        \/ Logout(p)
        \/ \E id \in MailIds :
            \/ HandleMailMarkAsRead(p, id)
            \/ HandleMailDelete(p, id)
            \/ HandleMailTakeMoney(p, id)
            \/ HandleMailReturnToSender(p, id)
            \/ \E item \in Items, paid \in SUBSET m_money[p] :
                    HandleMailTakeItem(p, id, item, paid)
    \/ LoadMailItems
    \/ ExecuteTransaction
    \/ ExecuteLogin
    \/ \E old \in SUBSET Stored : CrashAndRestart(old)

Spec == Init /\ [][Next]_vars

\* A server that stays up long enough for the daily return of old mail.
DailyNext == Next \/ \E old \in SUBSET Stored : DailyReturn(old)

DailySpec == Init /\ [][DailyNext]_vars

-----------------------------------------------------------------------------
(***************************************************************************)
(* Properties.                                                             *)
(***************************************************************************)
Things == Items \cup Coins

\* Every variable has its type; in memory, a mail has all its parts.
TypeOK ==
    /\ database \in Databases
    /\ asyncQueue \in Seq(Elements)
    /\ online \in [Players -> {"out", "loading", "in"}]
    /\ m_money \in [Players -> SUBSET Coins]
    /\ m_items \in [Players -> SUBSET Items]
    /\ m_mailsLoaded \in [Players -> BOOLEAN]
    /\ m_mail \in [Players -> [MailIds -> Mails \cup {NoMail}]]
    /\ loading \in Players \cup {Nobody}
    /\ _mailId \in 1 .. MaxMails + 1
    /\ destroyed \subseteq Things

\* Where a database says a coin or an item is: with a player, or in a mail.
MailsOf(db) == {id \in MailIds : db.mail[id] # NoMail}
Homes(db, thing) ==
    IF thing \in Coins
    THEN {p \in Players : thing \in db.money[p]}
         \cup {id \in MailsOf(db) : thing \in db.mail[id].money}
    ELSE IF thing \notin db.instances THEN {}
    ELSE ({db.inventory[thing]} \ {Nobody}) \cup ({db.mailItems[thing]} \cap MailsOf(db))

\* What the worker does to the database with an element of the queue.
Effect(db, element) == IF element.what = "login" THEN db ELSE Committed(db, element.trans)

\* The database db before, between and after the elements of a queue.
Stages(db, queue) ==
    LET after[n \in 0 .. Len(queue)] ==
            IF n = 0 THEN db ELSE Effect(after[n - 1], queue[n])
    IN after

\* The database after the first n elements of the queue.
After(n) == Stages(database, asyncQueue)[n]

\* Wherever a crash cuts the queue off, every item and every coin is in exactly
\* one place of the database, unless it has been deleted: mail neither loses nor
\* doubles anything.
SavedOnce ==
    \A n \in 0 .. Len(asyncQueue) : \A thing \in Things :
        /\ Cardinality(Homes(After(n), thing)) <= 1
        /\ Homes(After(n), thing) = {} => thing \in destroyed

\* What a player in the world can use: carried, or in a mail he has not deleted.
InMail(p, id) ==
    IF Live(p, id) THEN m_mail[p][id].money \cup m_mail[p][id].items ELSE {}
Held(p) == m_money[p] \cup m_items[p] \cup UNION {InMail(p, id) : id \in MailIds}

\* No item and no coin is in two hands: what one player can use no other can, and
\* he has it in one place.
OneHolder ==
    \A p \in Players :
        /\ \A q \in Players \ {p} : Held(p) \cap Held(q) = {}
        /\ \A id \in MailIds :
            /\ InMail(p, id) \cap (m_money[p] \cup m_items[p]) = {}
            /\ \A o \in MailIds \ {id} : InMail(p, id) \cap InMail(p, o) = {}

\* The queue leaves nothing out: once it is executed, the database holds what
\* each player in the world carries and each mail of a listed mailbox as memory
\* has them (a deleted mail goes with the next save).
QueueSavesMemory ==
    LET final == After(Len(asyncQueue))
    IN \A p \in Players : online[p] = "in" =>
        /\ final.money[p] = m_money[p]
        /\ {i \in final.instances : final.inventory[i] = p} = m_items[p]
        /\ m_mailsLoaded[p] => \A id \in MailIds : Live(p, id) =>
            /\ final.mail[id] # NoMail
            /\ final.mail[id].receiver = p
            /\ final.mail[id].money = m_mail[p][id].money
            /\ final.mail[id].COD = m_mail[p][id].COD
            /\ Attached(final, id) = m_mail[p][id].items

\* Cash on delivery: when an item of a mail with a price becomes the receiver's
\* in the database, the same transaction takes the price from him and puts it
\* into a mail to the sender.  A crash cannot come between the two.
PaidOnDelivery ==
    [][\A i \in Items, id \in MailsOf(database) :
        /\ database.mailItems[i] = id
        /\ database.mail[id].COD > 0
        /\ database'.inventory[i] = database.mail[id].receiver
        => \E pay \in MailIds :
            /\ database.mail[pay] = NoMail
            /\ database'.mail[pay] # NoMail
            /\ database'.mail[pay].receiver = database.mail[id].sender
            /\ Cardinality(database'.mail[pay].money) = database.mail[id].COD]_vars

\* "this code will run very improbably (... in game is online a player, who has
\* old mail his in mailbox and he has already listed his mails)" (ObjectMgr.cpp):
\* the return of old mail does not take a mail from a player who has listed it.
ListedMailStays ==
    [][\A id \in MailsOf(database) :
        LET p == database.mail[id].receiver
        IN /\ online[p] = "in"
           /\ m_mailsLoaded[p]
           /\ Live(p, id)
           /\ database'.mail[id] # NoMail
           => database'.mail[id].receiver = p]_vars
=============================================================================

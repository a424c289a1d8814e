-------------------------- MODULE MailDatabaseProofs --------------------------
(***************************************************************************)
(* What transactions do to the database of Mail: lemmas about sequences of *)
(* statements of any length, then the parts of the inductive invariant of  *)
(* MailProofs and how they survive a step of the database.                 *)
(***************************************************************************)
EXTENDS Mail, FiniteSetTheorems, TLAPS

-----------------------------------------------------------------------------
(* Induction, for sets and functions instead of predicates and operators.  *)

\* The natural numbers are the smallest set with zero and all successors.
LEMMA SetInduction ==
    ASSUME NEW S, 0 \in S, \A n \in Nat : n \in S => n + 1 \in S
    PROVE  \A n \in Nat : n \in S
<1> SUFFICES ASSUME \E n \in Nat : n \notin S PROVE FALSE
  OBVIOUS
<1> DEFINE T == {n \in Nat : n \notin S}
           R == {ss \in Nat \X Nat : ss[1] < ss[2]}
<1>1. IsWellFoundedOn(R, Nat)
  BY NatLessThanWellFounded DEF OpToRel
<1>2. T \subseteq Nat /\ T # {}
  OBVIOUS
<1> HIDE DEF R
<1>3. PICK x \in T : \A y \in T : ~(<<y, x>> \in R)
  BY <1>1, <1>2, WFMin
<1>4. \A y \in T : ~(y < x)
  BY <1>3 DEF R
<1>5. x # 0 /\ x - 1 \in Nat /\ x - 1 < x /\ x - 1 + 1 = x
  OBVIOUS
<1>6. x - 1 \in S
  BY <1>4, <1>5
<1> QED
  BY <1>5, <1>6

\* The same up to a bound.
LEMMA BoundedInduction ==
    ASSUME NEW m \in Nat, NEW S, 0 \in S, \A n \in 0 .. m - 1 : n \in S => n + 1 \in S
    PROVE  \A n \in 0 .. m : n \in S
<1> DEFINE T == {n \in Nat : n <= m => n \in S}
<1>1. 0 \in T
  OBVIOUS
<1>2. \A n \in Nat : n \in T => n + 1 \in T
  OBVIOUS
<1> HIDE DEF T
<1>3. \A n \in Nat : n \in T
  BY <1>1, <1>2, SetInduction
<1> QED
  BY <1>3 DEF T

\* f says where the steps G lead from a, one after the other.
IsRun(f, a, m, G) == f[0] = a /\ \A k \in 1 .. m : f[k] = G[k][f[k - 1]]

\* Steps lead somewhere.
LEMMA IterationExists ==
    ASSUME NEW D, NEW a \in D, NEW m \in Nat, NEW G \in [1 .. m -> [D -> D]]
    PROVE  \E f \in [0 .. m -> D] : IsRun(f, a, m, G)
<1> DEFINE S == {n \in 0 .. m : \E f \in [0 .. n -> D] :
                    \A k \in 0 .. n : f[k] = IF k = 0 THEN a ELSE G[k][f[k - 1]]}
<1>1. 0 \in S
  <2> DEFINE f == [k \in 0 .. 0 |-> a]
  <2>1. f \in [0 .. 0 -> D] /\ \A k \in 0 .. 0 : f[k] = IF k = 0 THEN a ELSE G[k][f[k - 1]]
    OBVIOUS
  <2>2. 0 \in 0 .. m
    OBVIOUS
  <2> HIDE DEF f
  <2> QED
    BY <2>1, <2>2
<1>2. ASSUME NEW n \in 0 .. m - 1, n \in S PROVE n + 1 \in S
  <2>1. PICK f \in [0 .. n -> D] : \A k \in 0 .. n : f[k] = IF k = 0 THEN a ELSE G[k][f[k - 1]]
    BY <1>2
  <2> DEFINE g == [k \in 0 .. n + 1 |-> IF k = n + 1 THEN G[n + 1][f[n]] ELSE f[k]]
  <2>2. n \in Nat /\ n + 1 \in 1 .. m /\ n \in 0 .. n /\ n + 1 # 0 /\ n + 1 - 1 = n /\ n # n + 1
    OBVIOUS
  <2>3. G[n + 1][f[n]] \in D
    BY <2>1, <2>2
  <2>4. /\ g \in [0 .. n + 1 -> D] /\ g[n + 1] = G[n + 1][f[n]]
        /\ \A k \in 0 .. n : g[k] = f[k]
    BY <2>1, <2>2, <2>3
  <2> HIDE DEF g
  <2>5. ASSUME NEW k \in 0 .. n + 1 PROVE g[k] = IF k = 0 THEN a ELSE G[k][g[k - 1]]
    <3>1. CASE k = n + 1
      BY <2>2, <2>4, <3>1
    <3>2. CASE k # n + 1 /\ k # 0
      <4>1. k \in 0 .. n /\ k - 1 \in 0 .. n
        BY <2>2, <3>2
      <4> QED
        BY <2>1, <2>4, <3>2, <4>1
    <3>3. CASE k = 0
      BY <2>1, <2>2, <2>4, <3>3
    <3> QED
      BY <3>1, <3>2, <3>3
  <2> QED
    BY <2>2, <2>4, <2>5
<1> HIDE DEF S
<1>3. \A n \in 0 .. m : n \in S
  BY <1>1, <1>2, BoundedInduction
<1>4. PICK f \in [0 .. m -> D] : \A k \in 0 .. m : f[k] = IF k = 0 THEN a ELSE G[k][f[k - 1]]
  BY <1>3 DEF S
<1> QED
  BY <1>4 DEF IsRun

\* The same steps lead from the same place to the same place.
LEMMA SameSteps ==
    ASSUME NEW m \in Nat, NEW f, NEW g, NEW G, NEW a, IsRun(f, a, m, G), IsRun(g, a, m, G)
    PROVE  f[m] = g[m]
<1> DEFINE S == {k \in 0 .. m : f[k] = g[k]}
<1>1. 0 \in S
  BY DEF IsRun
<1>2. ASSUME NEW k \in 0 .. m - 1, k \in S PROVE k + 1 \in S
  <2>1. k + 1 \in 1 .. m /\ k + 1 - 1 = k /\ f[k] = g[k]
    BY <1>2
  <2>2. f[k + 1] = G[k + 1][f[k]] /\ g[k + 1] = G[k + 1][g[k]]
    BY <2>1 DEF IsRun
  <2> QED
    BY <2>1, <2>2
<1> HIDE DEF S
<1>3. \A k \in 0 .. m : k \in S
  BY <1>1, <1>2, BoundedInduction
<1> QED
  BY <1>3 DEF S

-----------------------------------------------------------------------------
(* Statements. *)

\* The fields of a statement, by its kind.
LEMMA StatementKinds ==
    ASSUME NEW s \in Statements
    PROVE  \/ s.stmt = "UPD_CHAR_MONEY" /\ s.player \in Players /\ s.money \subseteq Coins
           \/ s.stmt = "REP_INVENTORY_ITEM" /\ s.player \in Players /\ s.item \in Items
           \/ s.stmt \in {"DEL_INVENTORY", "DEL_ITEM_INSTANCE", "DEL_MAIL_ITEM"} /\ s.item \in Items
           \/ s.stmt = "INS_MAIL" /\ s.id \in MailIds /\ s.row \in Rows
           \/ s.stmt = "INS_MAIL_ITEM" /\ s.id \in MailIds /\ s.item \in Items
           \/ /\ s.stmt = "UPD_MAIL" /\ s.id \in MailIds
              /\ s.has_items \in BOOLEAN /\ s.money \subseteq Coins /\ s.COD \in 0 .. MaxCOD
           \/ /\ s.stmt = "UPD_MAIL_RETURNED" /\ s.id \in MailIds
              /\ s.sender \in Players /\ s.receiver \in Players
           \/ s.stmt \in {"DEL_MAIL_BY_ID", "DEL_MAIL_ITEM_BY_ID"} /\ s.id \in MailIds
  BY DEF Statements

\* UPD_CHAR_MONEY sets the money of one player.
LEMMA ExecuteMoney ==
    ASSUME NEW db \in Databases, NEW s \in Statements, s.stmt = "UPD_CHAR_MONEY"
    PROVE  LET d == Execute(db, s)
           IN /\ d \in Databases
              /\ s.player \in Players
              /\ d.money[s.player] = s.money
              /\ \A p \in Players : p # s.player => d.money[p] = db.money[p]
              /\ d.inventory = db.inventory /\ d.instances = db.instances
              /\ d.mail = db.mail /\ d.mailItems = db.mailItems
<1>1. s.player \in Players /\ s.money \subseteq Coins
  BY StatementKinds
<1>2. Execute(db, s) = [db EXCEPT !.money[s.player] = s.money]
  BY DEF Execute
<1> QED
  BY <1>1, <1>2 DEF Databases

\* REP_INVENTORY_ITEM gives an item to a player.
LEMMA ExecuteGiveItem ==
    ASSUME NEW db \in Databases, NEW s \in Statements, s.stmt = "REP_INVENTORY_ITEM"
    PROVE  LET d == Execute(db, s)
           IN /\ d \in Databases
              /\ s.item \in Items
              /\ d.inventory[s.item] = s.player
              /\ \A i \in Items : i # s.item => d.inventory[i] = db.inventory[i]
              /\ d.money = db.money /\ d.instances = db.instances /\ d.mail = db.mail
              /\ d.mailItems = db.mailItems
<1>1. s.item \in Items /\ s.player \in Players
  BY StatementKinds
<1>2. Execute(db, s) = [db EXCEPT !.inventory[s.item] = s.player]
  BY DEF Execute
<1> QED
  BY <1>1, <1>2 DEF Databases

\* DEL_INVENTORY takes an item from whoever has it.
LEMMA ExecuteDropItem ==
    ASSUME NEW db \in Databases, NEW s \in Statements, s.stmt = "DEL_INVENTORY"
    PROVE  LET d == Execute(db, s)
           IN /\ d \in Databases
              /\ s.item \in Items
              /\ d.inventory[s.item] = Nobody
              /\ \A i \in Items : i # s.item => d.inventory[i] = db.inventory[i]
              /\ d.money = db.money /\ d.instances = db.instances /\ d.mail = db.mail
              /\ d.mailItems = db.mailItems
<1>1. s.item \in Items
  BY StatementKinds
<1>2. Execute(db, s) = [db EXCEPT !.inventory[s.item] = Nobody]
  BY DEF Execute
<1> QED
  BY <1>1, <1>2 DEF Databases

\* DEL_ITEM_INSTANCE deletes an item.
LEMMA ExecuteDeleteInstance ==
    ASSUME NEW db \in Databases, NEW s \in Statements, s.stmt = "DEL_ITEM_INSTANCE"
    PROVE  LET d == Execute(db, s)
           IN /\ d \in Databases
              /\ s.item \in Items
              /\ d.instances = db.instances \ {s.item}
              /\ d.money = db.money /\ d.inventory = db.inventory /\ d.mail = db.mail
              /\ d.mailItems = db.mailItems
<1>1. s.item \in Items
  BY StatementKinds
<1>2. Execute(db, s) = [db EXCEPT !.instances = @ \ {s.item}]
  BY DEF Execute
<1> QED
  BY <1>1, <1>2 DEF Databases

\* INS_MAIL writes the row of a mail.
LEMMA ExecuteInsertMail ==
    ASSUME NEW db \in Databases, NEW s \in Statements, s.stmt = "INS_MAIL"
    PROVE  LET d == Execute(db, s)
           IN /\ d \in Databases
              /\ s.id \in MailIds
              /\ d.mail[s.id] = s.row
              /\ \A o \in MailIds : o # s.id => d.mail[o] = db.mail[o]
              /\ d.money = db.money /\ d.inventory = db.inventory
              /\ d.instances = db.instances /\ d.mailItems = db.mailItems
<1>1. s.id \in MailIds /\ s.row \in Rows
  BY StatementKinds
<1>2. Execute(db, s) = [db EXCEPT !.mail[s.id] = s.row]
  BY DEF Execute
<1> QED
  BY <1>1, <1>2 DEF Databases

\* DEL_MAIL_BY_ID deletes it.
LEMMA ExecuteDeleteMail ==
    ASSUME NEW db \in Databases, NEW s \in Statements, s.stmt = "DEL_MAIL_BY_ID"
    PROVE  LET d == Execute(db, s)
           IN /\ d \in Databases
              /\ s.id \in MailIds
              /\ d.mail[s.id] = NoMail
              /\ \A o \in MailIds : o # s.id => d.mail[o] = db.mail[o]
              /\ d.money = db.money /\ d.inventory = db.inventory
              /\ d.instances = db.instances /\ d.mailItems = db.mailItems
<1>1. s.id \in MailIds
  BY StatementKinds
<1>2. Execute(db, s) = [db EXCEPT !.mail[s.id] = NoMail]
  BY DEF Execute
<1> QED
  BY <1>1, <1>2 DEF Databases

\* INS_MAIL_ITEM attaches an item to a mail.
LEMMA ExecuteAttach ==
    ASSUME NEW db \in Databases, NEW s \in Statements, s.stmt = "INS_MAIL_ITEM"
    PROVE  LET d == Execute(db, s)
           IN /\ d \in Databases
              /\ s.item \in Items
              /\ d.mailItems[s.item] = s.id
              /\ \A i \in Items : i # s.item => d.mailItems[i] = db.mailItems[i]
              /\ d.money = db.money /\ d.inventory = db.inventory
              /\ d.instances = db.instances /\ d.mail = db.mail
<1>1. s.item \in Items /\ s.id \in MailIds
  BY StatementKinds
<1>2. Execute(db, s) = [db EXCEPT !.mailItems[s.item] = s.id]
  BY DEF Execute
<1> QED
  BY <1>1, <1>2 DEF Databases

\* DEL_MAIL_ITEM detaches it.
LEMMA ExecuteDetach ==
    ASSUME NEW db \in Databases, NEW s \in Statements, s.stmt = "DEL_MAIL_ITEM"
    PROVE  LET d == Execute(db, s)
           IN /\ d \in Databases
              /\ s.item \in Items
              /\ d.mailItems[s.item] = NoMail
              /\ \A i \in Items : i # s.item => d.mailItems[i] = db.mailItems[i]
              /\ d.money = db.money /\ d.inventory = db.inventory
              /\ d.instances = db.instances /\ d.mail = db.mail
<1>1. s.item \in Items
  BY StatementKinds
<1>2. Execute(db, s) = [db EXCEPT !.mailItems[s.item] = NoMail]
  BY DEF Execute
<1> QED
  BY <1>1, <1>2 DEF Databases

\* DEL_MAIL_ITEM_BY_ID detaches all items of a mail.
LEMMA ExecuteDetachAll ==
    ASSUME NEW db \in Databases, NEW s \in Statements, s.stmt = "DEL_MAIL_ITEM_BY_ID"
    PROVE  LET d == Execute(db, s)
           IN /\ d \in Databases
              /\ s.id \in MailIds
              /\ \A i \in Items :
                    d.mailItems[i] = IF db.mailItems[i] = s.id THEN NoMail ELSE db.mailItems[i]
              /\ d.money = db.money /\ d.inventory = db.inventory
              /\ d.instances = db.instances /\ d.mail = db.mail
<1>1. s.id \in MailIds
  BY StatementKinds
<1>2. Execute(db, s) = [db EXCEPT !.mailItems = [i \in Items |-> IF @[i] = s.id THEN NoMail ELSE @[i]]]
  BY DEF Execute
<1> QED
  BY <1>1, <1>2 DEF Databases

\* UPD_MAIL overwrites what a row says of items, money and price, if it is there.
LEMMA ExecuteUpdateMail ==
    ASSUME NEW db \in Databases, NEW s \in Statements, s.stmt = "UPD_MAIL"
    PROVE  LET d == Execute(db, s)
           IN /\ d \in Databases
              /\ s.id \in MailIds
              /\ db.mail[s.id] = NoMail => d.mail[s.id] = NoMail
              /\ db.mail[s.id] # NoMail =>
                    /\ d.mail[s.id] \in Rows
                    /\ d.mail[s.id].sender = db.mail[s.id].sender
                    /\ d.mail[s.id].receiver = db.mail[s.id].receiver
                    /\ d.mail[s.id].checked = db.mail[s.id].checked
                    /\ d.mail[s.id].has_items = s.has_items
                    /\ d.mail[s.id].money = s.money
                    /\ d.mail[s.id].COD = s.COD
              /\ \A o \in MailIds : o # s.id => d.mail[o] = db.mail[o]
              /\ d.money = db.money /\ d.inventory = db.inventory
              /\ d.instances = db.instances /\ d.mailItems = db.mailItems
<1>1. /\ s.id \in MailIds /\ s.has_items \in BOOLEAN
      /\ s.money \subseteq Coins /\ s.COD \in 0 .. MaxCOD
  BY StatementKinds
<1>2. CASE db.mail[s.id] = NoMail
  <2>1. Execute(db, s) = db
    BY <1>2 DEF Execute
  <2> QED
    BY <1>1, <1>2, <2>1
<1>3. CASE db.mail[s.id] # NoMail
  <2>1. db.mail[s.id] \in Rows
    BY <1>1, <1>3 DEF Databases
  <2> DEFINE row == [db.mail[s.id] EXCEPT !.has_items = s.has_items,
                                          !.money = s.money, !.COD = s.COD]
  <2>2. Execute(db, s) = [db EXCEPT !.mail[s.id] = row]
    BY <1>3 DEF Execute
  <2>4. /\ row \in Rows
        /\ row.sender = db.mail[s.id].sender
        /\ row.receiver = db.mail[s.id].receiver /\ row.checked = db.mail[s.id].checked
        /\ row.has_items = s.has_items /\ row.money = s.money /\ row.COD = s.COD
    BY <1>1, <2>1 DEF Rows
  <2> HIDE DEF row
  <2> QED
    BY <1>1, <1>3, <2>2, <2>4, NobodyAssumption DEF Databases
<1> QED
  BY <1>2, <1>3

\* UPD_MAIL_RETURNED sends a mail back, without a price, if it is there.
LEMMA ExecuteReturnMail ==
    ASSUME NEW db \in Databases, NEW s \in Statements, s.stmt = "UPD_MAIL_RETURNED"
    PROVE  LET d == Execute(db, s)
           IN /\ d \in Databases
              /\ s.id \in MailIds
              /\ db.mail[s.id] = NoMail => d.mail[s.id] = NoMail
              /\ db.mail[s.id] # NoMail =>
                    /\ d.mail[s.id] \in Rows
                    /\ d.mail[s.id].has_items = db.mail[s.id].has_items
                    /\ d.mail[s.id].money = db.mail[s.id].money
              /\ \A o \in MailIds : o # s.id => d.mail[o] = db.mail[o]
              /\ d.money = db.money /\ d.inventory = db.inventory
              /\ d.instances = db.instances /\ d.mailItems = db.mailItems
<1>1. s.id \in MailIds /\ s.sender \in Players /\ s.receiver \in Players
  BY StatementKinds
<1>2. CASE db.mail[s.id] = NoMail
  <2>1. Execute(db, s) = db
    BY <1>2 DEF Execute
  <2> QED
    BY <1>1, <1>2, <2>1
<1>3. CASE db.mail[s.id] # NoMail
  <2>1. db.mail[s.id] \in Rows
    BY <1>1, <1>3 DEF Databases
  <2> DEFINE row == [db.mail[s.id] EXCEPT !.sender = s.sender, !.receiver = s.receiver,
                                          !.COD = 0, !.checked = "RETURNED"]
  <2>2. Execute(db, s) = [db EXCEPT !.mail[s.id] = row]
    BY <1>3 DEF Execute
  <2>3. 0 \in 0 .. MaxCOD /\ "RETURNED" \in Checks
    BY BoundAssumption DEF Checks
  <2>4. /\ row \in Rows
        /\ row.has_items = db.mail[s.id].has_items /\ row.money = db.mail[s.id].money
    BY <1>1, <2>1, <2>3 DEF Rows
  <2> HIDE DEF row
  <2> QED
    BY <1>1, <1>3, <2>2, <2>4, NobodyAssumption DEF Databases
<1> QED
  BY <1>2, <1>3

\* Every statement leads from a database to a database.
LEMMA ExecuteType ==
    ASSUME NEW db \in Databases, NEW s \in Statements
    PROVE  Execute(db, s) \in Databases
  BY StatementKinds, ExecuteMoney, ExecuteGiveItem, ExecuteDropItem, ExecuteDeleteInstance,
     ExecuteInsertMail, ExecuteDeleteMail, ExecuteAttach, ExecuteDetach, ExecuteDetachAll,
     ExecuteUpdateMail, ExecuteReturnMail


-----------------------------------------------------------------------------
(* Transactions.                                                           *)

\* A transaction leads from database to database, a statement at a time.
LEMMA CommittedSteps ==
    ASSUME NEW db \in Databases, NEW trans \in Seq(Statements)
    PROVE  \E f \in [0 .. Len(trans) -> Databases] :
              /\ f[0] = db
              /\ \A k \in 1 .. Len(trans) : f[k] = Execute(f[k - 1], trans[k])
              /\ Committed(db, trans) = f[Len(trans)]
<1> DEFINE m == Len(trans)
           G == [k \in 1 .. m |-> [d \in Databases |-> Execute(d, trans[k])]]
           Is(f) == f = [n \in 0 .. m |-> IF n = 0 THEN db ELSE Execute(f[n - 1], trans[n])]
           after == CHOOSE f : Is(f)
<1>1. m \in Nat /\ \A k \in 1 .. m : trans[k] \in Statements
  OBVIOUS
<1>2. G \in [1 .. m -> [Databases -> Databases]]
  BY <1>1, ExecuteType
<1> HIDE DEF m
<1>3. PICK g \in [0 .. m -> Databases] : g[0] = db /\ \A k \in 1 .. m : g[k] = G[k][g[k - 1]]
  <2> HIDE DEF G
  <2>1. \E g \in [0 .. m -> Databases] : IsRun(g, db, m, G)
    BY <1>1, <1>2, IterationExists
  <2> QED
    BY <2>1 DEF IsRun
<1>4. Is(g)
  <2>1. ASSUME NEW n \in 0 .. m, n # 0 PROVE g[n] = Execute(g[n - 1], trans[n])
    <3>1. n \in 1 .. m /\ n - 1 \in 0 .. m
      BY <1>1, <2>1
    <3>2. g[n - 1] \in Databases
      BY <3>1
    <3>3. G[n][g[n - 1]] = Execute(g[n - 1], trans[n])
      BY <3>1, <3>2
    <3> HIDE DEF G
    <3> QED
      BY <1>3, <3>1, <3>3
  <2> HIDE DEF G
  <2> QED
    BY <1>3, <2>1
<1>5. Committed(db, trans) = after[m]
  BY DEF Committed, m
<1>6. Is(after)
  BY <1>4
<1>7. PICK f : Is(f) /\ Committed(db, trans) = f[m]
  <2> HIDE DEF Is, after
  <2> QED
    BY <1>5, <1>6
<1> HIDE DEF after
<1>8. /\ f[0] = db /\ DOMAIN f = 0 .. m /\ f = [n \in 0 .. m |-> f[n]]
      /\ \A k \in 1 .. m : f[k] = Execute(f[k - 1], trans[k])
  <2>1. f = [n \in 0 .. m |-> IF n = 0 THEN db ELSE Execute(f[n - 1], trans[n])]
    BY <1>7
  <2>2. DOMAIN f = 0 .. m
    BY ONLY <2>1
  <2>3. f = [n \in 0 .. m |-> f[n]]
    BY ONLY <2>1
  <2>4. \A n \in 0 .. m : f[n] = IF n = 0 THEN db ELSE Execute(f[n - 1], trans[n])
    BY ONLY <2>1
  <2>5. 0 \in 0 .. m /\ \A k \in 1 .. m : k \in 0 .. m /\ k # 0
    BY <1>1
  <2> QED
    BY <2>2, <2>3, <2>4, <2>5
<1>9. \A n \in 0 .. m : f[n] \in Databases
  <2> DEFINE S == {n \in 0 .. m : f[n] \in Databases}
  <2>1. 0 \in S
    BY <1>1, <1>8
  <2>2. ASSUME NEW n \in 0 .. m - 1, n \in S PROVE n + 1 \in S
    <3>1. n + 1 \in 1 .. m /\ n + 1 \in 0 .. m /\ n + 1 - 1 = n
      BY <1>1
    <3>2. f[n + 1] = Execute(f[n], trans[n + 1]) /\ trans[n + 1] \in Statements /\ f[n] \in Databases
      BY <1>1, <1>8, <2>2, <3>1
    <3> QED
      BY <3>1, <3>2, ExecuteType
  <2> HIDE DEF S
  <2>3. \A n \in 0 .. m : n \in S
    BY <1>1, <2>1, <2>2, BoundedInduction
  <2> QED
    BY <2>3 DEF S
<1>10. f \in [0 .. m -> Databases]
  BY <1>8, <1>9
<1> QED
  BY <1>7, <1>8, <1>10 DEF m

\* A transaction leads from a database to a database.
LEMMA CommittedType ==
    ASSUME NEW db \in Databases, NEW trans \in Seq(Statements)
    PROVE  Committed(db, trans) \in Databases
<1>1. PICK f \in [0 .. Len(trans) -> Databases] : Committed(db, trans) = f[Len(trans)]
  BY CommittedSteps
<1> QED
  BY <1>1

\* What holds at first, and is carried on by each statement, holds at last.
LEMMA CommittedReaches ==
    ASSUME NEW db \in Databases, NEW trans \in Seq(Statements),
           NEW P, db \in P[0],
           \A k \in 1 .. Len(trans) : \A d \in Databases :
                d \in P[k - 1] => Execute(d, trans[k]) \in P[k]
    PROVE  Committed(db, trans) \in P[Len(trans)]
<1>1. PICK f \in [0 .. Len(trans) -> Databases] :
        /\ f[0] = db
        /\ \A k \in 1 .. Len(trans) : f[k] = Execute(f[k - 1], trans[k])
        /\ Committed(db, trans) = f[Len(trans)]
  BY CommittedSteps
<1> DEFINE S == {n \in 0 .. Len(trans) : f[n] \in P[n]}
<1>2. 0 \in S
  BY <1>1
<1>3. ASSUME NEW n \in 0 .. Len(trans) - 1, n \in S PROVE n + 1 \in S
  <2>1. n + 1 \in 1 .. Len(trans) /\ n \in 0 .. Len(trans) /\ n + 1 - 1 = n /\ n + 1 \in 0 .. Len(trans)
    OBVIOUS
  <2>2. f[n + 1] = Execute(f[n], trans[n + 1]) /\ f[n] \in Databases /\ f[n] \in P[n]
    BY <1>1, <1>3, <2>1
  <2> QED
    BY <2>1, <2>2
<1> HIDE DEF S
<1>4. Len(trans) \in Nat
  OBVIOUS
<1>5. \A n \in 0 .. Len(trans) : n \in S
  BY <1>2, <1>3, <1>4, BoundedInduction
<1> QED
  BY <1>1, <1>4, <1>5 DEF S

\* Nothing is done by no statements.
LEMMA CommittedNone ==
    ASSUME NEW db \in Databases
    PROVE  Committed(db, <<>>) = db
<1>1. <<>> \in Seq(Statements) /\ Len(<<>>) = 0
  OBVIOUS
<1>2. PICK f \in [0 .. Len(<<>>) -> Databases] : f[0] = db /\ Committed(db, <<>>) = f[Len(<<>>)]
  <2> DEFINE t == <<>>
  <2>1. t \in Seq(Statements)
    OBVIOUS
  <2> HIDE DEF t
  <2>2. \E f \in [0 .. Len(t) -> Databases] : f[0] = db /\ Committed(db, t) = f[Len(t)]
    BY <2>1, CommittedSteps
  <2> QED
    BY <2>2 DEF t
<1> QED
  BY <1>1, <1>2

\* A single statement.
LEMMA CommittedOne ==
    ASSUME NEW db \in Databases, NEW s \in Statements
    PROVE  Committed(db, <<s>>) = Execute(db, s)
<1>1. <<s>> \in Seq(Statements) /\ Len(<<s>>) = 1 /\ <<s>>[1] = s /\ 1 - 1 = 0 /\ 1 \in 1 .. 1
  OBVIOUS
<1>2. PICK f \in [0 .. 1 -> Databases] :
        /\ f[0] = db
        /\ \A k \in 1 .. 1 : f[k] = Execute(f[k - 1], <<s>>[k])
        /\ Committed(db, <<s>>) = f[1]
  BY <1>1, CommittedSteps
<1> QED
  BY <1>1, <1>2

\* One sequence of statements after the other.
LEMMA CommittedConcat ==
    ASSUME NEW db \in Databases, NEW t \in Seq(Statements), NEW u \in Seq(Statements)
    PROVE  Committed(db, t \o u) = Committed(Committed(db, t), u)
<1> DEFINE G == [k \in 1 .. Len(t \o u) |-> [d \in Databases |-> Execute(d, (t \o u)[k])]]
           H == [k \in 1 .. Len(u) |-> [d \in Databases |-> Execute(d, u[k])]]
<1>1. /\ t \o u \in Seq(Statements) /\ Len(t \o u) = Len(t) + Len(u)
      /\ Len(t) \in Nat /\ Len(u) \in Nat
      /\ \A k \in 1 .. Len(t) : (t \o u)[k] = t[k]
      /\ \A k \in 1 .. Len(u) : (t \o u)[Len(t) + k] = u[k]
  OBVIOUS
<1>2. PICK f \in [0 .. Len(t \o u) -> Databases] :
        /\ f[0] = db
        /\ \A k \in 1 .. Len(t \o u) : f[k] = Execute(f[k - 1], (t \o u)[k])
        /\ Committed(db, t \o u) = f[Len(t \o u)]
  BY <1>1, CommittedSteps
<1>3. PICK g \in [0 .. Len(t) -> Databases] :
        /\ g[0] = db
        /\ \A k \in 1 .. Len(t) : g[k] = Execute(g[k - 1], t[k])
        /\ Committed(db, t) = g[Len(t)]
  BY CommittedSteps
<1>4. PICK h \in [0 .. Len(u) -> Databases] :
        /\ h[0] = Committed(db, t)
        /\ \A k \in 1 .. Len(u) : h[k] = Execute(h[k - 1], u[k])
        /\ Committed(Committed(db, t), u) = h[Len(u)]
  BY CommittedSteps, CommittedType
<1>5. f[Len(t)] = g[Len(t)]
  <2>1. ASSUME NEW k \in 1 .. Len(t)
        PROVE  f[k] = G[k][f[k - 1]] /\ g[k] = G[k][g[k - 1]]
    <3>1. k \in 1 .. Len(t \o u) /\ k - 1 \in 0 .. Len(t) /\ k - 1 \in 0 .. Len(t \o u)
      BY <1>1
    <3>2. f[k - 1] \in Databases /\ g[k - 1] \in Databases
      BY <3>1
    <3>3. f[k] = Execute(f[k - 1], (t \o u)[k]) /\ g[k] = Execute(g[k - 1], (t \o u)[k])
      BY <1>1, <1>2, <1>3, <3>1
    <3> QED
      BY <3>1, <3>2, <3>3
  <2> HIDE DEF G
  <2>2. IsRun(f, db, Len(t), G) /\ IsRun(g, db, Len(t), G)
    BY <1>2, <1>3, <2>1 DEF IsRun
  <2> QED
    BY <1>1, <2>2, SameSteps
<1>6. f[Len(t) + Len(u)] = h[Len(u)]
  <2> DEFINE e == [k \in 0 .. Len(u) |-> f[Len(t) + k]]
  <2>1. ASSUME NEW k \in 1 .. Len(u)
        PROVE  e[k] = H[k][e[k - 1]] /\ h[k] = H[k][h[k - 1]]
    <3>1. /\ Len(t) + k \in 1 .. Len(t \o u) /\ k \in 0 .. Len(u) /\ k - 1 \in 0 .. Len(u)
          /\ Len(t) + k - 1 \in 0 .. Len(t \o u) /\ Len(t) + (k - 1) = Len(t) + k - 1
      BY <1>1
    <3>2. f[Len(t) + k - 1] \in Databases /\ h[k - 1] \in Databases
      BY <3>1
    <3>3. f[Len(t) + k] = Execute(f[Len(t) + k - 1], (t \o u)[Len(t) + k])
      BY <1>2, <3>1
    <3>4. f[Len(t) + k] = Execute(f[Len(t) + k - 1], u[k]) /\ h[k] = Execute(h[k - 1], u[k])
      BY <1>1, <1>4, <3>3
    <3>5. e[k] = f[Len(t) + k] /\ e[k - 1] = f[Len(t) + k - 1]
      BY <3>1
    <3> HIDE DEF e
    <3> QED
      BY <3>1, <3>2, <3>4, <3>5
  <2>2. 0 \in 0 .. Len(u) /\ Len(u) \in 0 .. Len(u) /\ Len(t) + 0 = Len(t)
    BY <1>1
  <2>3. e[0] = h[0] /\ e[Len(u)] = f[Len(t) + Len(u)]
    BY <1>3, <1>4, <1>5, <2>2
  <2> HIDE DEF H, e
  <2>4. IsRun(e, h[0], Len(u), H) /\ IsRun(h, h[0], Len(u), H)
    BY <2>1, <2>3 DEF IsRun
  <2>5. e[Len(u)] = h[Len(u)]
    BY <1>1, <2>4, SameSteps
  <2> QED
    BY <2>3, <2>5
<1> QED
  BY <1>1, <1>2, <1>4, <1>6

-----------------------------------------------------------------------------
(* The queue.                                                              *)

\* The fields of what waits in the queue.
LEMMA ElementKinds ==
    ASSUME NEW e \in Elements
    PROVE  \/ e.what = "transaction" /\ e.trans \in Seq(Statements)
           \/ e.what = "login" /\ e.player \in Players
  BY DEF Elements

\* So does every element of the queue.
LEMMA EffectType ==
    ASSUME NEW db \in Databases, NEW e \in Elements
    PROVE  Effect(db, e) \in Databases
  BY ElementKinds, CommittedType DEF Effect

\* The queue leads from database to database, an element at a time.
LEMMA StagesSteps ==
    ASSUME NEW db \in Databases, NEW queue \in Seq(Elements)
    PROVE  /\ Stages(db, queue) \in [0 .. Len(queue) -> Databases]
           /\ Stages(db, queue)[0] = db
           /\ \A k \in 1 .. Len(queue) :
                Stages(db, queue)[k] = Effect(Stages(db, queue)[k - 1], queue[k])
<1> DEFINE m == Len(queue)
           G == [k \in 1 .. m |-> [d \in Databases |-> Effect(d, queue[k])]]
           Is(f) == f = [n \in 0 .. m |-> IF n = 0 THEN db ELSE Effect(f[n - 1], queue[n])]
           after == CHOOSE f : Is(f)
<1>1. m \in Nat /\ \A k \in 1 .. m : queue[k] \in Elements
  OBVIOUS
<1>2. G \in [1 .. m -> [Databases -> Databases]]
  BY <1>1, EffectType
<1> HIDE DEF m
<1>3. PICK g \in [0 .. m -> Databases] : g[0] = db /\ \A k \in 1 .. m : g[k] = G[k][g[k - 1]]
  <2> HIDE DEF G
  <2>1. \E g \in [0 .. m -> Databases] : IsRun(g, db, m, G)
    BY <1>1, <1>2, IterationExists
  <2> QED
    BY <2>1 DEF IsRun
<1>4. Is(g)
  <2>1. ASSUME NEW n \in 0 .. m, n # 0 PROVE g[n] = Effect(g[n - 1], queue[n])
    <3>1. n \in 1 .. m /\ n - 1 \in 0 .. m
      BY <1>1, <2>1
    <3>2. g[n - 1] \in Databases
      BY <3>1
    <3>3. G[n][g[n - 1]] = Effect(g[n - 1], queue[n])
      BY <3>1, <3>2
    <3> HIDE DEF G
    <3> QED
      BY <1>3, <3>1, <3>3
  <2> HIDE DEF G
  <2> QED
    BY <1>3, <2>1
<1>5. Stages(db, queue) = after
  BY DEF Stages, m
<1>6. Is(after)
  BY <1>4
<1>7. PICK f : Is(f) /\ Stages(db, queue) = f
  <2> HIDE DEF Is, after
  <2> QED
    BY <1>5, <1>6
<1> HIDE DEF after
<1>8. /\ f[0] = db /\ DOMAIN f = 0 .. m /\ f = [n \in 0 .. m |-> f[n]]
      /\ \A k \in 1 .. m : f[k] = Effect(f[k - 1], queue[k])
  <2>1. f = [n \in 0 .. m |-> IF n = 0 THEN db ELSE Effect(f[n - 1], queue[n])]
    BY <1>7
  <2>2. DOMAIN f = 0 .. m
    BY ONLY <2>1
  <2>3. f = [n \in 0 .. m |-> f[n]]
    BY ONLY <2>1
  <2>4. \A n \in 0 .. m : f[n] = IF n = 0 THEN db ELSE Effect(f[n - 1], queue[n])
    BY ONLY <2>1
  <2>5. 0 \in 0 .. m /\ \A k \in 1 .. m : k \in 0 .. m /\ k # 0
    BY <1>1
  <2> QED
    BY <2>2, <2>3, <2>4, <2>5
<1>9. \A n \in 0 .. m : f[n] \in Databases
  <2> DEFINE S == {n \in 0 .. m : f[n] \in Databases}
  <2>1. 0 \in S
    BY <1>1, <1>8
  <2>2. ASSUME NEW n \in 0 .. m - 1, n \in S PROVE n + 1 \in S
    <3>1. n + 1 \in 1 .. m /\ n + 1 \in 0 .. m /\ n + 1 - 1 = n
      BY <1>1
    <3>2. f[n + 1] = Effect(f[n], queue[n + 1]) /\ queue[n + 1] \in Elements /\ f[n] \in Databases
      BY <1>1, <1>8, <2>2, <3>1
    <3> QED
      BY <3>1, <3>2, EffectType
  <2> HIDE DEF S
  <2>3. \A n \in 0 .. m : n \in S
    BY <1>1, <2>1, <2>2, BoundedInduction
  <2> QED
    BY <2>3 DEF S
<1>10. f \in [0 .. m -> Databases]
  BY <1>8, <1>9
<1> QED
  BY <1>7, <1>8, <1>10 DEF m

\* A queue does the same to a database from the same place on.
LEMMA StagesSame ==
    ASSUME NEW db \in Databases, NEW queue \in Seq(Elements),
           NEW n \in 0 .. Len(queue), NEW f, f[0] = db,
           \A k \in 1 .. n : f[k] = Effect(f[k - 1], queue[k])
    PROVE  f[n] = Stages(db, queue)[n]
<1> DEFINE S == {k \in 0 .. n : f[k] = Stages(db, queue)[k]}
<1>1. n \in Nat /\ n <= Len(queue) /\ Len(queue) \in Nat
  OBVIOUS
<1>2. 0 \in S
  BY <1>1, StagesSteps
<1>3. ASSUME NEW k \in 0 .. n - 1, k \in S PROVE k + 1 \in S
  <2>1. k + 1 \in 1 .. n /\ k + 1 \in 0 .. n /\ k + 1 \in 1 .. Len(queue) /\ k + 1 - 1 = k
    BY <1>1
  <2>2. f[k + 1] = Effect(f[k], queue[k + 1]) /\ f[k] = Stages(db, queue)[k]
    BY <1>3, <2>1
  <2>3. Stages(db, queue)[k + 1] = Effect(Stages(db, queue)[k], queue[k + 1])
    BY <2>1, StagesSteps
  <2> QED
    BY <2>1, <2>2, <2>3
<1> HIDE DEF S
<1>4. \A k \in 0 .. n : k \in S
  BY <1>1, <1>2, <1>3, BoundedInduction
<1> QED
  BY <1>1, <1>4 DEF S

\* An element at the end of the queue adds a stage after the others.
LEMMA StagesAppend ==
    ASSUME NEW db \in Databases, NEW queue \in Seq(Elements), NEW e \in Elements
    PROVE  /\ \A k \in 0 .. Len(queue) : Stages(db, Append(queue, e))[k] = Stages(db, queue)[k]
           /\ Stages(db, Append(queue, e))[Len(queue) + 1] = Effect(Stages(db, queue)[Len(queue)], e)
<1> DEFINE more == Append(queue, e)
<1>1. /\ more \in Seq(Elements) /\ Len(more) = Len(queue) + 1 /\ Len(queue) \in Nat
      /\ \A k \in 1 .. Len(queue) : more[k] = queue[k]
      /\ more[Len(queue) + 1] = e
  OBVIOUS
<1> HIDE DEF more
<1>2. PICK f : f = Stages(db, more)
  OBVIOUS
<1>3. f[0] = db /\ \A k \in 1 .. Len(queue) + 1 : f[k] = Effect(f[k - 1], more[k])
  BY <1>1, <1>2, StagesSteps
<1>4. ASSUME NEW n \in 0 .. Len(queue) PROVE f[n] = Stages(db, queue)[n]
  <2>1. \A k \in 1 .. n : k \in 1 .. Len(queue) /\ k \in 1 .. Len(queue) + 1
    BY <1>1
  <2>2. \A k \in 1 .. n : f[k] = Effect(f[k - 1], queue[k])
    BY <1>1, <1>3, <2>1
  <2> QED
    BY <1>3, <2>2, StagesSame
<1>5. f[Len(queue) + 1] = Effect(f[Len(queue)], e)
  <2>1. Len(queue) + 1 \in 1 .. Len(queue) + 1 /\ Len(queue) + 1 - 1 = Len(queue)
    BY <1>1
  <2>2. f[Len(queue) + 1] = Effect(f[Len(queue) + 1 - 1], more[Len(queue) + 1])
    BY <1>3, <2>1
  <2> QED
    BY <1>1, <2>1, <2>2
<1>6. Len(queue) \in 0 .. Len(queue)
  BY <1>1
<1> QED
  BY <1>2, <1>4, <1>5, <1>6 DEF more

\* The head of the queue has led from the first stage to the second.
LEMMA StagesTail ==
    ASSUME NEW db \in Databases, NEW queue \in Seq(Elements), queue # <<>>
    PROVE  \A k \in 0 .. Len(queue) - 1 :
              Stages(Effect(db, Head(queue)), Tail(queue))[k] = Stages(db, queue)[k + 1]
<1> DEFINE less == Tail(queue)
<1>1. /\ less \in Seq(Elements) /\ Len(less) = Len(queue) - 1 /\ Len(queue) \in Nat
      /\ Len(queue) >= 1 /\ Head(queue) = queue[1] /\ Head(queue) \in Elements
      /\ \A k \in 1 .. Len(queue) - 1 : less[k] = queue[k + 1]
  OBVIOUS
<1> HIDE DEF less
<1>2. PICK s : s = Stages(db, queue)
  OBVIOUS
<1>3. s[0] = db /\ \A k \in 1 .. Len(queue) : s[k] = Effect(s[k - 1], queue[k])
  BY <1>2, StagesSteps
<1> DEFINE f == [k \in 0 .. Len(queue) - 1 |-> s[k + 1]]
<1>4. f[0] = Effect(db, Head(queue))
  <2>1. 0 \in 0 .. Len(queue) - 1 /\ 0 + 1 = 1 /\ 1 \in 1 .. Len(queue) /\ 1 - 1 = 0
    BY <1>1
  <2>2. f[0] = s[1] /\ s[1] = Effect(s[0], queue[1])
    BY <1>3, <2>1
  <2> QED
    BY <1>1, <1>3, <2>2
<1>5. ASSUME NEW k \in 1 .. Len(less) PROVE f[k] = Effect(f[k - 1], less[k])
  <2>1. /\ k \in 0 .. Len(queue) - 1 /\ k - 1 \in 0 .. Len(queue) - 1
        /\ k \in 1 .. Len(queue) - 1
        /\ k - 1 + 1 = k /\ k + 1 \in 1 .. Len(queue) /\ k + 1 - 1 = k
    BY <1>1
  <2>2. f[k] = s[k + 1] /\ f[k - 1] = s[k]
    BY <2>1
  <2>3. s[k + 1] = Effect(s[k], queue[k + 1])
    BY <1>3, <2>1
  <2> QED
    BY <1>1, <2>1, <2>2, <2>3
<1>6. Effect(db, Head(queue)) \in Databases
  BY <1>1, EffectType
<1>7. ASSUME NEW n \in 0 .. Len(queue) - 1
      PROVE  Stages(Effect(db, Head(queue)), less)[n] = Stages(db, queue)[n + 1]
  <2>1. n \in 0 .. Len(less) /\ \A k \in 1 .. n : k \in 1 .. Len(less)
    BY <1>1
  <2>2. f[n] = s[n + 1]
    OBVIOUS
  <2> HIDE DEF f
  <2>3. \A k \in 1 .. n : f[k] = Effect(f[k - 1], less[k])
    BY <1>5, <2>1
  <2>4. f[n] = Stages(Effect(db, Head(queue)), less)[n]
    BY <1>1, <1>4, <1>6, <2>1, <2>3, StagesSame
  <2> QED
    BY <1>2, <2>2, <2>4
<1> QED
  BY <1>7 DEF less

-----------------------------------------------------------------------------
(* A statement for each of a set of items.                                 *)

\* trans has a statement of one kind for each of the items, and no other.
OneForEach(trans, stmt, items) ==
    /\ \A k \in 1 .. Len(trans) : trans[k].stmt = stmt /\ trans[k].item \in items
    /\ \A i \in items : \E k \in 1 .. Len(trans) : trans[k].item = i

\* The statements of trans are about one mail.
AllAbout(trans, id) == \A k \in 1 .. Len(trans) : trans[k].id = id

\* A finite set, enumerated.
LEMMA Enumerated ==
    ASSUME NEW S, IsFiniteSet(S)
    PROVE  \E m \in Nat : /\ SetToSeq(S) \in [1 .. m -> S]
                          /\ \A x \in S : \E k \in 1 .. m : SetToSeq(S)[k] = x
<1> DEFINE m == Cardinality(S)
           Is(f) == f \in [1 .. m -> S] /\ IsInjective(f)
<1>1. m \in Nat /\ ExistsBijection(1 .. m, S)
  BY FS_CardinalityType
<1>2. \E f : Is(f)
  BY <1>1 DEF ExistsBijection, Bijection, Injection
<1>3. SetToSeq(S) = CHOOSE f \in [1 .. m -> S] : IsInjective(f)
  BY DEF SetToSeq
<1>4. Is(SetToSeq(S))
  BY <1>2, <1>3
<1>5. SetToSeq(S) \in Injection(1 .. m, S)
  BY <1>4 DEF Injection
<1>6. Cardinality(1 .. m) = m
  BY <1>1, FS_Interval
<1>7. SetToSeq(S) \in Surjection(1 .. m, S)
  BY <1>5, <1>6, FS_Injection
<1> QED
  BY <1>1, <1>4, <1>7 DEF Surjection

\* DEL_INVENTORY for some items: nobody carries them.
LEMMA DropItems ==
    ASSUME NEW db \in Databases, NEW trans \in Seq(Statements), NEW items \in SUBSET Items,
           OneForEach(trans, "DEL_INVENTORY", items)
    PROVE  LET d == Committed(db, trans)
           IN /\ d \in Databases
              /\ \A i \in Items : d.inventory[i] = IF i \in items THEN Nobody ELSE db.inventory[i]
              /\ d.money = db.money /\ d.instances = db.instances /\ d.mail = db.mail
              /\ d.mailItems = db.mailItems
<1> DEFINE Done(i, k) == \E j \in 1 .. k : trans[j].item = i
           Holds(d, k) ==
                /\ \A i \in Items : d.inventory[i] = IF Done(i, k) THEN Nobody ELSE db.inventory[i]
                /\ d.money = db.money /\ d.instances = db.instances /\ d.mail = db.mail
                /\ d.mailItems = db.mailItems
           P == [k \in 0 .. Len(trans) |-> {d \in Databases : Holds(d, k)}]
<1>1. /\ Len(trans) \in Nat
      /\ \A k \in 1 .. Len(trans) :
            trans[k] \in Statements /\ k - 1 \in 0 .. Len(trans) /\ k \in 0 .. Len(trans)
  OBVIOUS
<1>2. /\ \A k \in 1 .. Len(trans) : trans[k].stmt = "DEL_INVENTORY" /\ trans[k].item \in items
      /\ \A i \in items : \E k \in 1 .. Len(trans) : trans[k].item = i
  BY DEF OneForEach
<1>3. Holds(db, 0)
  BY DEF Databases
<1>4. ASSUME NEW k \in 1 .. Len(trans), NEW d \in Databases, Holds(d, k - 1)
      PROVE  Holds(Execute(d, trans[k]), k)
  <2>1. \A i : Done(i, k) <=> Done(i, k - 1) \/ trans[k].item = i
    <3>1. \A j \in 1 .. k : j \in 1 .. k - 1 \/ j = k
      BY <1>1
    <3>2. k \in 1 .. k /\ \A j \in 1 .. k - 1 : j \in 1 .. k
      BY <1>1
    <3> QED
      BY <3>1, <3>2
  <2> HIDE DEF Done
  <2>2. PICK e : e = Execute(d, trans[k])
    OBVIOUS
  <2>3. /\ e.inventory[trans[k].item] = Nobody
        /\ \A i \in Items : i # trans[k].item => e.inventory[i] = d.inventory[i]
    BY <1>2, <1>1, <2>2, ExecuteDropItem
  <2>4. /\ e.money = db.money /\ e.instances = db.instances /\ e.mail = db.mail
        /\ e.mailItems = db.mailItems
    BY <1>2, <1>1, <1>4, <2>2, ExecuteDropItem
  <2>5. \A i \in Items : e.inventory[i] = IF Done(i, k) THEN Nobody ELSE db.inventory[i]
    BY <1>4, <2>1, <2>3
  <2> QED
    BY <2>2, <2>4, <2>5
<1> HIDE DEF Holds
<1>5. db \in P[0]
  BY <1>1, <1>3
<1>6. \A k \in 1 .. Len(trans) : \A d \in Databases : d \in P[k - 1] => Execute(d, trans[k]) \in P[k]
  BY <1>1, <1>4, ExecuteType
<1> HIDE DEF P
<1>7. Committed(db, trans) \in P[Len(trans)]
  BY <1>5, <1>6, CommittedReaches
<1>8. Holds(Committed(db, trans), Len(trans))
  BY <1>1, <1>7 DEF P
<1>9. \A i \in Items : Done(i, Len(trans)) <=> i \in items
  BY <1>2
<1> HIDE DEF Done
<1>10. db.instances \subseteq Items /\ Committed(db, trans) \in Databases
  BY CommittedType DEF Databases
<1> QED
  BY <1>8, <1>9, <1>10 DEF Holds

\* INS_MAIL_ITEM for some items: they are attached to the mail.
LEMMA AttachItems ==
    ASSUME NEW db \in Databases, NEW trans \in Seq(Statements), NEW items \in SUBSET Items,
           NEW id \in MailIds,
           OneForEach(trans, "INS_MAIL_ITEM", items), AllAbout(trans, id)
    PROVE  LET d == Committed(db, trans)
           IN /\ d \in Databases
              /\ \A i \in Items : d.mailItems[i] = IF i \in items THEN id ELSE db.mailItems[i]
              /\ d.money = db.money /\ d.inventory = db.inventory
              /\ d.instances = db.instances /\ d.mail = db.mail
<1> DEFINE Done(i, k) == \E j \in 1 .. k : trans[j].item = i
           Holds(d, k) ==
                /\ \A i \in Items : d.mailItems[i] = IF Done(i, k) THEN id ELSE db.mailItems[i]
                /\ d.money = db.money /\ d.inventory = db.inventory
                /\ d.instances = db.instances /\ d.mail = db.mail
           P == [k \in 0 .. Len(trans) |-> {d \in Databases : Holds(d, k)}]
<1>1. /\ Len(trans) \in Nat
      /\ \A k \in 1 .. Len(trans) :
            trans[k] \in Statements /\ k - 1 \in 0 .. Len(trans) /\ k \in 0 .. Len(trans)
  OBVIOUS
<1>2. /\ \A k \in 1 .. Len(trans) :
            trans[k].stmt = "INS_MAIL_ITEM" /\ trans[k].id = id /\ trans[k].item \in items
      /\ \A i \in items : \E k \in 1 .. Len(trans) : trans[k].item = i
  BY DEF OneForEach, AllAbout
<1>3. Holds(db, 0)
  BY DEF Databases
<1>4. ASSUME NEW k \in 1 .. Len(trans), NEW d \in Databases, Holds(d, k - 1)
      PROVE  Holds(Execute(d, trans[k]), k)
  <2>1. \A i : Done(i, k) <=> Done(i, k - 1) \/ trans[k].item = i
    <3>1. \A j \in 1 .. k : j \in 1 .. k - 1 \/ j = k
      BY <1>1
    <3>2. k \in 1 .. k /\ \A j \in 1 .. k - 1 : j \in 1 .. k
      BY <1>1
    <3> QED
      BY <3>1, <3>2
  <2> HIDE DEF Done
  <2>2. PICK e : e = Execute(d, trans[k])
    OBVIOUS
  <2>3. /\ e.mailItems[trans[k].item] = id
        /\ \A i \in Items : i # trans[k].item => e.mailItems[i] = d.mailItems[i]
    BY <1>2, <1>1, <2>2, ExecuteAttach
  <2>4. /\ e.money = db.money /\ e.inventory = db.inventory /\ e.instances = db.instances
        /\ e.mail = db.mail
    BY <1>2, <1>1, <1>4, <2>2, ExecuteAttach
  <2>5. \A i \in Items : e.mailItems[i] = IF Done(i, k) THEN id ELSE db.mailItems[i]
    BY <1>4, <2>1, <2>3
  <2> QED
    BY <2>2, <2>4, <2>5
<1> HIDE DEF Holds
<1>5. db \in P[0]
  BY <1>1, <1>3
<1>6. \A k \in 1 .. Len(trans) : \A d \in Databases : d \in P[k - 1] => Execute(d, trans[k]) \in P[k]
  BY <1>1, <1>4, ExecuteType
<1> HIDE DEF P
<1>7. Committed(db, trans) \in P[Len(trans)]
  BY <1>5, <1>6, CommittedReaches
<1>8. Holds(Committed(db, trans), Len(trans))
  BY <1>1, <1>7 DEF P
<1>9. \A i \in Items : Done(i, Len(trans)) <=> i \in items
  BY <1>2
<1> HIDE DEF Done
<1>10. db.instances \subseteq Items /\ Committed(db, trans) \in Databases
  BY CommittedType DEF Databases
<1> QED
  BY <1>8, <1>9, <1>10 DEF Holds

\* DEL_MAIL_ITEM for some items: they are attached to no mail.
LEMMA DetachItems ==
    ASSUME NEW db \in Databases, NEW trans \in Seq(Statements), NEW items \in SUBSET Items,
           OneForEach(trans, "DEL_MAIL_ITEM", items)
    PROVE  LET d == Committed(db, trans)
           IN /\ d \in Databases
              /\ \A i \in Items : d.mailItems[i] = IF i \in items THEN NoMail ELSE db.mailItems[i]
              /\ d.money = db.money /\ d.inventory = db.inventory
              /\ d.instances = db.instances /\ d.mail = db.mail
<1> DEFINE Done(i, k) == \E j \in 1 .. k : trans[j].item = i
           Holds(d, k) ==
                /\ \A i \in Items : d.mailItems[i] = IF Done(i, k) THEN NoMail ELSE db.mailItems[i]
                /\ d.money = db.money /\ d.inventory = db.inventory
                /\ d.instances = db.instances /\ d.mail = db.mail
           P == [k \in 0 .. Len(trans) |-> {d \in Databases : Holds(d, k)}]
<1>1. /\ Len(trans) \in Nat
      /\ \A k \in 1 .. Len(trans) :
            trans[k] \in Statements /\ k - 1 \in 0 .. Len(trans) /\ k \in 0 .. Len(trans)
  OBVIOUS
<1>2. /\ \A k \in 1 .. Len(trans) : trans[k].stmt = "DEL_MAIL_ITEM" /\ trans[k].item \in items
      /\ \A i \in items : \E k \in 1 .. Len(trans) : trans[k].item = i
  BY DEF OneForEach
<1>3. Holds(db, 0)
  BY DEF Databases
<1>4. ASSUME NEW k \in 1 .. Len(trans), NEW d \in Databases, Holds(d, k - 1)
      PROVE  Holds(Execute(d, trans[k]), k)
  <2>1. \A i : Done(i, k) <=> Done(i, k - 1) \/ trans[k].item = i
    <3>1. \A j \in 1 .. k : j \in 1 .. k - 1 \/ j = k
      BY <1>1
    <3>2. k \in 1 .. k /\ \A j \in 1 .. k - 1 : j \in 1 .. k
      BY <1>1
    <3> QED
      BY <3>1, <3>2
  <2> HIDE DEF Done
  <2>2. PICK e : e = Execute(d, trans[k])
    OBVIOUS
  <2>3. /\ e.mailItems[trans[k].item] = NoMail
        /\ \A i \in Items : i # trans[k].item => e.mailItems[i] = d.mailItems[i]
    BY <1>2, <1>1, <2>2, ExecuteDetach
  <2>4. /\ e.money = db.money /\ e.inventory = db.inventory /\ e.instances = db.instances
        /\ e.mail = db.mail
    BY <1>2, <1>1, <1>4, <2>2, ExecuteDetach
  <2>5. \A i \in Items : e.mailItems[i] = IF Done(i, k) THEN NoMail ELSE db.mailItems[i]
    BY <1>4, <2>1, <2>3
  <2> QED
    BY <2>2, <2>4, <2>5
<1> HIDE DEF Holds
<1>5. db \in P[0]
  BY <1>1, <1>3
<1>6. \A k \in 1 .. Len(trans) : \A d \in Databases : d \in P[k - 1] => Execute(d, trans[k]) \in P[k]
  BY <1>1, <1>4, ExecuteType
<1> HIDE DEF P
<1>7. Committed(db, trans) \in P[Len(trans)]
  BY <1>5, <1>6, CommittedReaches
<1>8. Holds(Committed(db, trans), Len(trans))
  BY <1>1, <1>7 DEF P
<1>9. \A i \in Items : Done(i, Len(trans)) <=> i \in items
  BY <1>2
<1> HIDE DEF Done
<1>10. db.instances \subseteq Items /\ Committed(db, trans) \in Databases
  BY CommittedType DEF Databases
<1> QED
  BY <1>8, <1>9, <1>10 DEF Holds

\* DEL_ITEM_INSTANCE for some items: they are gone.
LEMMA DeleteItems ==
    ASSUME NEW db \in Databases, NEW trans \in Seq(Statements), NEW items \in SUBSET Items,
           OneForEach(trans, "DEL_ITEM_INSTANCE", items)
    PROVE  LET d == Committed(db, trans)
           IN /\ d \in Databases
              /\ d.instances = {i \in db.instances : ~(i \in items)}
              /\ d.money = db.money /\ d.inventory = db.inventory /\ d.mail = db.mail
              /\ d.mailItems = db.mailItems
<1> DEFINE Done(i, k) == \E j \in 1 .. k : trans[j].item = i
           Holds(d, k) ==
                /\ d.instances = {i \in db.instances : ~(Done(i, k))}
                /\ d.money = db.money /\ d.inventory = db.inventory /\ d.mail = db.mail
                /\ d.mailItems = db.mailItems
           P == [k \in 0 .. Len(trans) |-> {d \in Databases : Holds(d, k)}]
<1>1. /\ Len(trans) \in Nat
      /\ \A k \in 1 .. Len(trans) :
            trans[k] \in Statements /\ k - 1 \in 0 .. Len(trans) /\ k \in 0 .. Len(trans)
  OBVIOUS
<1>2. /\ \A k \in 1 .. Len(trans) : trans[k].stmt = "DEL_ITEM_INSTANCE" /\ trans[k].item \in items
      /\ \A i \in items : \E k \in 1 .. Len(trans) : trans[k].item = i
  BY DEF OneForEach
<1>3. Holds(db, 0)
  BY DEF Databases
<1>4. ASSUME NEW k \in 1 .. Len(trans), NEW d \in Databases, Holds(d, k - 1)
      PROVE  Holds(Execute(d, trans[k]), k)
  <2>1. \A i : Done(i, k) <=> Done(i, k - 1) \/ trans[k].item = i
    <3>1. \A j \in 1 .. k : j \in 1 .. k - 1 \/ j = k
      BY <1>1
    <3>2. k \in 1 .. k /\ \A j \in 1 .. k - 1 : j \in 1 .. k
      BY <1>1
    <3> QED
      BY <3>1, <3>2
  <2> HIDE DEF Done
  <2>2. PICK e : e = Execute(d, trans[k])
    OBVIOUS
  <2>3. e.instances = d.instances \ {trans[k].item}
    BY <1>2, <1>1, <2>2, ExecuteDeleteInstance
  <2>4. /\ e.money = db.money /\ e.inventory = db.inventory /\ e.mail = db.mail
        /\ e.mailItems = db.mailItems
    BY <1>2, <1>1, <1>4, <2>2, ExecuteDeleteInstance
  <2>5. e.instances = {i \in db.instances : ~(Done(i, k))}
    BY <1>4, <2>1, <2>3
  <2> QED
    BY <2>2, <2>4, <2>5
<1> HIDE DEF Holds
<1>5. db \in P[0]
  BY <1>1, <1>3
<1>6. \A k \in 1 .. Len(trans) : \A d \in Databases : d \in P[k - 1] => Execute(d, trans[k]) \in P[k]
  BY <1>1, <1>4, ExecuteType
<1> HIDE DEF P
<1>7. Committed(db, trans) \in P[Len(trans)]
  BY <1>5, <1>6, CommittedReaches
<1>8. Holds(Committed(db, trans), Len(trans))
  BY <1>1, <1>7 DEF P
<1>9. \A i \in Items : Done(i, Len(trans)) <=> i \in items
  BY <1>2
<1> HIDE DEF Done
<1>10. db.instances \subseteq Items /\ Committed(db, trans) \in Databases
  BY CommittedType DEF Databases
<1> QED
  BY <1>8, <1>9, <1>10 DEF Holds

-----------------------------------------------------------------------------
(* One sequence after the other.                                           *)

\* The sequence t, then the sequence u.
Then(t, u) == t \o u

\* Sequences one after the other, a sequence at a time.
LEMMA FlattenSteps ==
    ASSUME NEW A, NEW ss \in Seq(Seq(A))
    PROVE  \E f \in [0 .. Len(ss) -> Seq(A)] :
              /\ f[0] = <<>>
              /\ \A k \in 1 .. Len(ss) : f[k] = Then(f[k - 1], ss[k])
              /\ FlattenSeq(ss) = f[Len(ss)]
<1> DEFINE m == Len(ss)
           G == [k \in 1 .. m |-> [t \in Seq(A) |-> Then(t, ss[k])]]
           Is(f) == f = [i \in 1 .. m |-> IF i = 1 THEN ss[i] ELSE Then(f[i - 1], ss[i])]
           flatten == CHOOSE f : Is(f)
<1>1. m \in Nat /\ (\A k \in 1 .. m : ss[k] \in Seq(A)) /\ <<>> \in Seq(A)
  OBVIOUS
<1>2. G \in [1 .. m -> [Seq(A) -> Seq(A)]]
  <2>1. \A t \in Seq(A), u \in Seq(A) : Then(t, u) \in Seq(A)
    BY DEF Then
  <2> QED
    BY <1>1, <2>1
<1>3. m = 0 => FlattenSeq(ss) = <<>>
  BY DEF FlattenSeq
<1>4. m # 0 => FlattenSeq(ss) = flatten[m]
  BY DEF FlattenSeq, Then
<1> HIDE DEF m
<1>5. PICK g \in [0 .. m -> Seq(A)] : g[0] = <<>> /\ \A k \in 1 .. m : g[k] = G[k][g[k - 1]]
  <2> HIDE DEF G
  <2>1. \E g \in [0 .. m -> Seq(A)] : IsRun(g, <<>>, m, G)
    <3>1. PICK e : e = <<>>
      OBVIOUS
    <3>2. e \in Seq(A)
      BY <1>1, <3>1
    <3>3. \E g \in [0 .. m -> Seq(A)] : IsRun(g, e, m, G)
      BY <1>1, <1>2, <3>2, IterationExists
    <3> QED
      BY <3>1, <3>3
  <2> QED
    BY <2>1 DEF IsRun
<1>6. \A k \in 1 .. m : g[k] = Then(g[k - 1], ss[k])
  <2>1. TAKE k \in 1 .. m
  <2>2. k - 1 \in 0 .. m
    BY <1>1
  <2>3. g[k - 1] \in Seq(A)
    BY <2>2
  <2>4. G[k][g[k - 1]] = Then(g[k - 1], ss[k])
    BY <2>3
  <2> HIDE DEF G
  <2> QED
    BY <1>5, <2>4
<1> HIDE DEF G
<1>7. Is([i \in 1 .. m |-> g[i]])
  <2>1. ASSUME NEW i \in 1 .. m PROVE g[i] = IF i = 1 THEN ss[i] ELSE Then(g[i - 1], ss[i])
    <3>1. CASE i = 1
      <4>1. g[1] = Then(g[0], ss[1]) /\ ss[1] \in Seq(A)
        BY <1>1, <1>6, <3>1
      <4>2. Then(<<>>, ss[1]) = ss[1]
        BY <4>1 DEF Then
      <4> QED
        BY <1>5, <3>1, <4>1, <4>2
    <3>2. CASE i # 1
      BY <1>6, <3>2
    <3> QED
      BY <3>1, <3>2
  <2>2. \A i \in 1 .. m : i # 1 => i - 1 \in 1 .. m
    BY <1>1
  <2> QED
    BY <2>1, <2>2
<1>8. Is(flatten)
  BY <1>7
<1>9. PICK f : Is(f) /\ f = flatten
  <2> HIDE DEF Is, flatten
  <2> QED
    BY <1>8
<1> HIDE DEF flatten
<1>10. \A i \in 1 .. m : f[i] = IF i = 1 THEN ss[i] ELSE Then(f[i - 1], ss[i])
  <2>1. f = [i \in 1 .. m |-> IF i = 1 THEN ss[i] ELSE Then(f[i - 1], ss[i])]
    BY <1>9
  <2> QED
    BY ONLY <2>1
<1>11. \A n \in 0 .. m : n # 0 => f[n] = g[n]
  <2> DEFINE S == {n \in 0 .. m : n # 0 => f[n] = g[n]}
  <2>1. 0 \in S
    BY <1>1
  <2>2. ASSUME NEW n \in 0 .. m - 1, n \in S PROVE n + 1 \in S
    <3>1. n + 1 \in 1 .. m /\ n + 1 \in 0 .. m /\ n + 1 - 1 = n
      BY <1>1
    <3>2. CASE n = 0
      <4>1. 1 \in 1 .. m /\ g[1] = Then(g[0], ss[1]) /\ f[1] = ss[1] /\ ss[1] \in Seq(A)
        BY <1>1, <1>6, <1>10, <3>1, <3>2
      <4>2. Then(<<>>, ss[1]) = ss[1]
        BY <4>1 DEF Then
      <4> QED
        BY <1>5, <3>1, <3>2, <4>1, <4>2
    <3>3. CASE n # 0
      <4>1. f[n + 1] = Then(f[n], ss[n + 1]) /\ g[n + 1] = Then(g[n], ss[n + 1]) /\ f[n] = g[n]
        BY <1>6, <1>10, <2>2, <3>1, <3>3
      <4> QED
        BY <3>1, <4>1
    <3> QED
      BY <3>2, <3>3
  <2> HIDE DEF S
  <2>3. \A n \in 0 .. m : n \in S
    BY <1>1, <2>1, <2>2, BoundedInduction
  <2> QED
    BY <2>3 DEF S
<1>12. FlattenSeq(ss) = g[m]
  <2>1. m \in 0 .. m
    BY <1>1
  <2>2. CASE m = 0
    BY <1>3, <1>5, <2>2
  <2>3. CASE m # 0
    BY <1>4, <1>9, <1>11, <2>1, <2>3
  <2> QED
    BY <2>2, <2>3
<1> QED
  BY <1>5, <1>6, <1>12 DEF m

\* Transactions one after the other: what each of them carries on holds at last.
LEMMA FlattenReaches ==
    ASSUME NEW db \in Databases, NEW ss \in Seq(Seq(Statements)),
           NEW P, db \in P[0],
           \A k \in 1 .. Len(ss) : \A d \in Databases :
                d \in P[k - 1] => Committed(d, ss[k]) \in P[k]
    PROVE  /\ FlattenSeq(ss) \in Seq(Statements)
           /\ Committed(db, FlattenSeq(ss)) \in P[Len(ss)]
<1>1. PICK f \in [0 .. Len(ss) -> Seq(Statements)] :
        /\ f[0] = <<>>
        /\ \A k \in 1 .. Len(ss) : f[k] = Then(f[k - 1], ss[k])
        /\ FlattenSeq(ss) = f[Len(ss)]
  BY FlattenSteps
<1>2. Len(ss) \in Nat /\ \A k \in 1 .. Len(ss) : ss[k] \in Seq(Statements)
  OBVIOUS
<1> DEFINE S == {n \in 0 .. Len(ss) : Committed(db, f[n]) \in P[n]}
<1>3. 0 \in S
  BY <1>1, <1>2, CommittedNone
<1>4. ASSUME NEW n \in 0 .. Len(ss) - 1, n \in S PROVE n + 1 \in S
  <2>1. n + 1 \in 1 .. Len(ss) /\ n \in 0 .. Len(ss) /\ n + 1 - 1 = n /\ n + 1 \in 0 .. Len(ss)
    BY <1>2
  <2>2. f[n] \in Seq(Statements) /\ ss[n + 1] \in Seq(Statements) /\ f[n + 1] = Then(f[n], ss[n + 1])
    <3>1. f[n] \in Seq(Statements) /\ ss[n + 1] \in Seq(Statements)
      BY <1>2, <2>1
    <3>2. f[n + 1] = Then(f[n], ss[n + 1])
      BY ONLY <1>1, <2>1
    <3> QED
      BY <3>1, <3>2
  <2>3. Committed(db, f[n + 1]) = Committed(Committed(db, f[n]), ss[n + 1])
    BY <2>2, CommittedConcat DEF Then
  <2>4. Committed(db, f[n]) \in Databases /\ Committed(db, f[n]) \in P[n]
    BY <1>4, <2>2, CommittedType
  <2> QED
    BY <2>1, <2>3, <2>4
<1> HIDE DEF S
<1>5. \A n \in 0 .. Len(ss) : n \in S
  BY <1>2, <1>3, <1>4, BoundedInduction
<1>6. Len(ss) \in 0 .. Len(ss)
  BY <1>2
<1> QED
  BY <1>1, <1>5, <1>6 DEF S

\* A member of sequences one after the other has been a member of one of them,
\* and comes after those which came before it there.
LEMMA FlattenMembers ==
    ASSUME NEW A, NEW ss \in Seq(Seq(A))
    PROVE  /\ FlattenSeq(ss) \in Seq(A)
           /\ \A k \in 1 .. Len(FlattenSeq(ss)) :
                \E a \in 1 .. Len(ss) : \E b \in 1 .. Len(ss[a]) :
                    /\ FlattenSeq(ss)[k] = ss[a][b]
                    /\ \A c \in 1 .. b - 1 : \E j \in 1 .. k - 1 : FlattenSeq(ss)[j] = ss[a][c]
<1>1. PICK f \in [0 .. Len(ss) -> Seq(A)] :
        /\ f[0] = <<>>
        /\ \A k \in 1 .. Len(ss) : f[k] = Then(f[k - 1], ss[k])
        /\ FlattenSeq(ss) = f[Len(ss)]
  BY FlattenSteps
<1>2. Len(ss) \in Nat /\ \A k \in 1 .. Len(ss) : ss[k] \in Seq(A)
  OBVIOUS
<1> DEFINE Placed(t, k) ==
              \E a \in 1 .. Len(ss) : \E b \in 1 .. Len(ss[a]) :
                  t[k] = ss[a][b] /\ \A c \in 1 .. b - 1 : \E j \in 1 .. k - 1 : t[j] = ss[a][c]
           S == {n \in 0 .. Len(ss) : \A k \in 1 .. Len(f[n]) : Placed(f[n], k)}
<1>3. 0 \in S
  BY <1>1, <1>2
<1>4. ASSUME NEW n \in 0 .. Len(ss) - 1, n \in S PROVE n + 1 \in S
  <2>1. n + 1 \in 1 .. Len(ss) /\ n \in 0 .. Len(ss) /\ n + 1 - 1 = n /\ n + 1 \in 0 .. Len(ss)
    BY <1>2
  <2>2. PICK t, u : t = f[n] /\ u = ss[n + 1]
    OBVIOUS
  <2>3. t \in Seq(A) /\ u \in Seq(A) /\ f[n + 1] = Then(t, u)
    <3>1. f[n] \in Seq(A) /\ ss[n + 1] \in Seq(A)
      BY <1>2, <2>1
    <3>2. f[n + 1] = Then(f[n], ss[n + 1])
      BY ONLY <1>1, <2>1
    <3> QED
      BY <2>2, <3>1, <3>2
  <2>4. /\ Len(t \o u) = Len(t) + Len(u) /\ Len(t) \in Nat /\ Len(u) \in Nat
        /\ \A k \in 1 .. Len(t) : (t \o u)[k] = t[k]
        /\ \A k \in 1 .. Len(u) : (t \o u)[Len(t) + k] = u[k]
    BY <2>3
  <2>5. PICK v : v = t \o u /\ v = Then(t, u)
    BY DEF Then
  <2>6. ASSUME NEW k \in 1 .. Len(v) PROVE Placed(v, k)
    <3>1. CASE k \in 1 .. Len(t)
      <4>1. Placed(t, k)
        BY <1>4, <2>2, <3>1
      <4>2. v[k] = t[k] /\ \A j \in 1 .. k - 1 : v[j] = t[j]
        <5>1. k <= Len(t) /\ \A j \in 1 .. k - 1 : j \in 1 .. Len(t)
          BY <2>4, <3>1
        <5> QED
          BY <2>4, <2>5, <3>1, <5>1
      <4> QED
        BY <4>1, <4>2
    <3>2. CASE k \notin 1 .. Len(t)
      <4> DEFINE b == k - Len(t)
      <4>1. /\ b \in 1 .. Len(u) /\ k = Len(t) + b
            /\ \A c \in 1 .. b - 1 : c \in 1 .. Len(u) /\ Len(t) + c \in 1 .. k - 1
        BY <2>4, <2>5, <3>2
      <4> HIDE DEF b
      <4>2. v[k] = u[b] /\ \A c \in 1 .. b - 1 : v[Len(t) + c] = u[c]
        BY <2>4, <2>5, <4>1
      <4>3. \A c \in 1 .. b - 1 : \E j \in 1 .. k - 1 : v[j] = u[c]
        BY <4>1, <4>2
      <4> QED
        BY <2>1, <2>2, <4>1, <4>2, <4>3
    <3> QED
      BY <3>1, <3>2
  <2> HIDE DEF Placed
  <2> QED
    BY <2>1, <2>3, <2>5, <2>6
<1> HIDE DEF S
<1>5. \A n \in 0 .. Len(ss) : n \in S
  BY <1>2, <1>3, <1>4, BoundedInduction
<1>6. Len(ss) \in 0 .. Len(ss)
  BY <1>2
<1>7. \A k \in 1 .. Len(f[Len(ss)]) : Placed(f[Len(ss)], k)
  <2> HIDE DEF Placed
  <2> QED
    BY <1>5, <1>6 DEF S
<1> QED
  BY <1>1, <1>6, <1>7

-----------------------------------------------------------------------------
(* What the transactions of the handlers are made of.                      *)

\* A set of items is finite.
LEMMA ItemsFinite ==
    ASSUME NEW items \in SUBSET Items
    PROVE  IsFiniteSet(items)
  BY FiniteAssumption, FS_Subset

\* The items of a mail leave the inventory of its sender.
LEMMA DropsItems ==
    ASSUME NEW items \in SUBSET Items
    PROVE  \E t \in Seq(Statements) :
              /\ t = ForEach(items, LAMBDA i : [stmt |-> "DEL_INVENTORY", item |-> i])
              /\ OneForEach(t, "DEL_INVENTORY", items)
<1> DEFINE stmt(i) == [stmt |-> "DEL_INVENTORY", item |-> i]
<1>1. PICK m \in Nat : /\ SetToSeq(items) \in [1 .. m -> items]
                       /\ \A x \in items : \E k \in 1 .. m : SetToSeq(items)[k] = x
  BY ItemsFinite, Enumerated
<1>2. PICK s, t : s = SetToSeq(items) /\ t = [k \in 1 .. m |-> stmt(s[k])]
  OBVIOUS
<1>3. t = ForEach(items, LAMBDA i : [stmt |-> "DEL_INVENTORY", item |-> i])
  BY <1>1, <1>2 DEF ForEach
<1>4. \A i \in Items : stmt(i) \in Statements /\ stmt(i).stmt = "DEL_INVENTORY" /\ stmt(i).item = i
  BY DEF Statements
<1> HIDE DEF stmt
<1>5. /\ t \in Seq(Statements) /\ Len(t) = m
      /\ \A k \in 1 .. m : t[k] = stmt(s[k]) /\ s[k] \in items
  BY <1>1, <1>2, <1>4
<1>6. /\ \A k \in 1 .. Len(t) : t[k].stmt = "DEL_INVENTORY" /\ t[k].item \in items
      /\ \A i \in items : \E k \in 1 .. Len(t) : t[k].item = i
  BY <1>1, <1>2, <1>4, <1>5
<1> QED
  BY <1>3, <1>5, <1>6 DEF OneForEach

\* They are attached to the mail.
LEMMA AttachesItems ==
    ASSUME NEW id \in MailIds, NEW items \in SUBSET Items
    PROVE  \E t \in Seq(Statements) :
              /\ t = ForEach(items, LAMBDA i : MailItem(id, i))
              /\ OneForEach(t, "INS_MAIL_ITEM", items) /\ AllAbout(t, id)
<1> DEFINE stmt(i) == [stmt |-> "INS_MAIL_ITEM", id |-> id, item |-> i]
<1>1. PICK m \in Nat : /\ SetToSeq(items) \in [1 .. m -> items]
                       /\ \A x \in items : \E k \in 1 .. m : SetToSeq(items)[k] = x
  BY ItemsFinite, Enumerated
<1>2. PICK s, t : s = SetToSeq(items) /\ t = [k \in 1 .. m |-> stmt(s[k])]
  OBVIOUS
<1>3. t = ForEach(items, LAMBDA i : MailItem(id, i))
  BY <1>1, <1>2 DEF ForEach, MailItem
<1>4. \A i \in Items : /\ stmt(i) \in Statements /\ stmt(i).stmt = "INS_MAIL_ITEM"
                      /\ stmt(i).item = i /\ stmt(i).id = id
  BY DEF Statements
<1> HIDE DEF stmt
<1>5. /\ t \in Seq(Statements) /\ Len(t) = m
      /\ \A k \in 1 .. m : t[k] = stmt(s[k]) /\ s[k] \in items
  BY <1>1, <1>2, <1>4
<1>6. /\ \A k \in 1 .. Len(t) : t[k].stmt = "INS_MAIL_ITEM" /\ t[k].id = id /\ t[k].item \in items
      /\ \A i \in items : \E k \in 1 .. Len(t) : t[k].item = i
  BY <1>1, <1>2, <1>4, <1>5
<1> QED
  BY <1>3, <1>5, <1>6 DEF OneForEach, AllAbout

\* Taken items are detached from it.
LEMMA DetachesItems ==
    ASSUME NEW items \in SUBSET Items
    PROVE  \E t \in Seq(Statements) :
              /\ t = ForEach(items, DeleteMailItem)
              /\ OneForEach(t, "DEL_MAIL_ITEM", items)
<1> DEFINE stmt(i) == [stmt |-> "DEL_MAIL_ITEM", item |-> i]
<1>1. PICK m \in Nat : /\ SetToSeq(items) \in [1 .. m -> items]
                       /\ \A x \in items : \E k \in 1 .. m : SetToSeq(items)[k] = x
  BY ItemsFinite, Enumerated
<1>2. PICK s, t : s = SetToSeq(items) /\ t = [k \in 1 .. m |-> stmt(s[k])]
  OBVIOUS
<1>3. t = ForEach(items, DeleteMailItem)
  BY <1>1, <1>2 DEF ForEach, DeleteMailItem
<1>4. \A i \in Items : stmt(i) \in Statements /\ stmt(i).stmt = "DEL_MAIL_ITEM" /\ stmt(i).item = i
  BY DEF Statements
<1> HIDE DEF stmt
<1>5. /\ t \in Seq(Statements) /\ Len(t) = m
      /\ \A k \in 1 .. m : t[k] = stmt(s[k]) /\ s[k] \in items
  BY <1>1, <1>2, <1>4
<1>6. /\ \A k \in 1 .. Len(t) : t[k].stmt = "DEL_MAIL_ITEM" /\ t[k].item \in items
      /\ \A i \in items : \E k \in 1 .. Len(t) : t[k].item = i
  BY <1>1, <1>2, <1>4, <1>5
<1> QED
  BY <1>3, <1>5, <1>6 DEF OneForEach

\* The items of a deleted mail are deleted.
LEMMA DeletesItems ==
    ASSUME NEW items \in SUBSET Items
    PROVE  \E t \in Seq(Statements) :
              /\ t = ForEach(items, DeleteInstance)
              /\ OneForEach(t, "DEL_ITEM_INSTANCE", items)
<1> DEFINE stmt(i) == [stmt |-> "DEL_ITEM_INSTANCE", item |-> i]
<1>1. PICK m \in Nat : /\ SetToSeq(items) \in [1 .. m -> items]
                       /\ \A x \in items : \E k \in 1 .. m : SetToSeq(items)[k] = x
  BY ItemsFinite, Enumerated
<1>2. PICK s, t : s = SetToSeq(items) /\ t = [k \in 1 .. m |-> stmt(s[k])]
  OBVIOUS
<1>3. t = ForEach(items, DeleteInstance)
  BY <1>1, <1>2 DEF ForEach, DeleteInstance
<1>4. \A i \in Items : stmt(i) \in Statements /\ stmt(i).stmt = "DEL_ITEM_INSTANCE" /\ stmt(i).item = i
  BY DEF Statements
<1> HIDE DEF stmt
<1>5. /\ t \in Seq(Statements) /\ Len(t) = m
      /\ \A k \in 1 .. m : t[k] = stmt(s[k]) /\ s[k] \in items
  BY <1>1, <1>2, <1>4
<1>6. /\ \A k \in 1 .. Len(t) : t[k].stmt = "DEL_ITEM_INSTANCE" /\ t[k].item \in items
      /\ \A i \in items : \E k \in 1 .. Len(t) : t[k].item = i
  BY <1>1, <1>2, <1>4, <1>5
<1> QED
  BY <1>3, <1>5, <1>6 DEF OneForEach

\* A mail is written, and its items are attached to it.
LEMMA MailIsSent ==
    ASSUME NEW db \in Databases, NEW id \in MailIds, NEW row \in Rows,
           NEW items \in SUBSET Items
    PROVE  /\ SendMailTo(id, row, items) \in Seq(Statements)
           /\ LET d == Committed(db, SendMailTo(id, row, items))
              IN /\ d \in Databases
                 /\ d.mail[id] = row
                 /\ \A o \in MailIds : o # id => d.mail[o] = db.mail[o]
                 /\ \A i \in Items : d.mailItems[i] = IF i \in items THEN id ELSE db.mailItems[i]
                 /\ d.money = db.money /\ d.inventory = db.inventory
                 /\ d.instances = db.instances
<1>1. PICK t \in Seq(Statements) :
        /\ t = ForEach(items, LAMBDA i : MailItem(id, i))
        /\ OneForEach(t, "INS_MAIL_ITEM", items) /\ AllAbout(t, id)
  BY AttachesItems
<1>2. PICK s : s = [stmt |-> "INS_MAIL", id |-> id, row |-> row]
  OBVIOUS
<1>3. s \in Statements /\ s.stmt = "INS_MAIL" /\ s.id = id /\ s.row = row
  BY <1>2 DEF Statements
<1>4. SendMailTo(id, row, items) = <<s>> \o t
  BY <1>1, <1>2 DEF SendMailTo
<1>5. <<s>> \in Seq(Statements) /\ <<s>> \o t \in Seq(Statements)
  BY <1>3
<1>6. PICK c : c = Execute(db, s)
  OBVIOUS
<1>7. /\ c \in Databases /\ c.mail[id] = row /\ \A o \in MailIds : o # id => c.mail[o] = db.mail[o]
      /\ c.money = db.money /\ c.inventory = db.inventory /\ c.instances = db.instances
      /\ c.mailItems = db.mailItems
  BY <1>3, <1>6, ExecuteInsertMail
<1>8. PICK d : d = Committed(c, t)
  OBVIOUS
<1>9. Committed(db, <<s>> \o t) = d
  <2>1. PICK a : a = <<s>>
    OBVIOUS
  <2>2. a \in Seq(Statements) /\ Committed(db, a) = c
    BY <1>3, <1>5, <1>6, <2>1, CommittedOne
  <2>3. Committed(db, a \o t) = d
    BY <1>8, <2>2, CommittedConcat
  <2> QED
    BY <2>1, <2>3
<1>10. /\ d \in Databases
       /\ \A i \in Items : d.mailItems[i] = IF i \in items THEN id ELSE c.mailItems[i]
       /\ d.money = c.money /\ d.inventory = c.inventory /\ d.instances = c.instances
       /\ d.mail = c.mail
  <2>1. id \in MailIds /\ items \in SUBSET Items /\ t \in Seq(Statements) /\ c \in Databases
    BY <1>7
  <2>2. OneForEach(t, "INS_MAIL_ITEM", items) /\ AllAbout(t, id)
    BY <1>1
  <2> QED
    BY ONLY <1>8, <2>1, <2>2, AttachItems
<1> QED
  BY <1>4, <1>5, <1>7, <1>9, <1>10

\* A mail is deleted, and nothing stays attached to it.
LEMMA MailIsDeleted ==
    ASSUME NEW db \in Databases, NEW id \in MailIds
    PROVE  /\ DeleteMail(id) \in Seq(Statements)
           /\ LET d == Committed(db, DeleteMail(id))
              IN /\ d \in Databases
                 /\ d.mail[id] = NoMail
                 /\ \A o \in MailIds : o # id => d.mail[o] = db.mail[o]
                 /\ \A i \in Items :
                        d.mailItems[i] = IF db.mailItems[i] = id THEN NoMail ELSE db.mailItems[i]
                 /\ d.money = db.money /\ d.inventory = db.inventory
                 /\ d.instances = db.instances
<1>1. PICK s, u : /\ s = [stmt |-> "DEL_MAIL_BY_ID", id |-> id]
                  /\ u = [stmt |-> "DEL_MAIL_ITEM_BY_ID", id |-> id]
  OBVIOUS
<1>2. /\ s \in Statements /\ s.stmt = "DEL_MAIL_BY_ID" /\ s.id = id
      /\ u \in Statements /\ u.stmt = "DEL_MAIL_ITEM_BY_ID" /\ u.id = id
  BY <1>1 DEF Statements
<1>3. DeleteMail(id) = <<s>> \o <<u>> /\ DeleteMail(id) \in Seq(Statements)
  BY <1>1, <1>2 DEF DeleteMail
<1>4. <<s>> \in Seq(Statements) /\ <<u>> \in Seq(Statements)
  BY <1>2
<1>5. PICK c : c = Execute(db, s)
  OBVIOUS
<1>6. /\ c \in Databases /\ c.mail[id] = NoMail
      /\ \A o \in MailIds : o # id => c.mail[o] = db.mail[o]
      /\ c.money = db.money /\ c.inventory = db.inventory /\ c.instances = db.instances
      /\ c.mailItems = db.mailItems
  BY <1>2, <1>5, ExecuteDeleteMail
<1>7. PICK d : d = Execute(c, u)
  OBVIOUS
<1>8. Committed(db, DeleteMail(id)) = d
  <2>1. PICK a, b : a = <<s>> /\ b = <<u>>
    OBVIOUS
  <2>2. a \in Seq(Statements) /\ b \in Seq(Statements) /\ DeleteMail(id) = a \o b
    BY <1>3, <1>4, <2>1
  <2>3. Committed(db, a) = c /\ Committed(c, b) = d
    BY <1>2, <1>5, <1>6, <1>7, <2>1, CommittedOne
  <2>4. Committed(db, a \o b) = d
    BY <2>2, <2>3, CommittedConcat
  <2> QED
    BY <2>2, <2>4
<1>9. /\ d \in Databases /\ d.mail = c.mail
      /\ \A i \in Items : d.mailItems[i] = IF c.mailItems[i] = id THEN NoMail ELSE c.mailItems[i]
      /\ d.money = c.money /\ d.inventory = c.inventory /\ d.instances = c.instances
  BY <1>2, <1>6, <1>7, ExecuteDetachAll
<1> QED
  BY <1>3, <1>6, <1>8, <1>9

\* The money of a player is saved.
LEMMA MoneyIsSaved ==
    ASSUME NEW db \in Databases, NEW player \in Players, NEW money \in SUBSET Coins
    PROVE  /\ SaveGoldToDB(player, money) \in Seq(Statements)
           /\ LET d == Committed(db, SaveGoldToDB(player, money))
              IN /\ d \in Databases
                 /\ d.money[player] = money
                 /\ \A p \in Players : p # player => d.money[p] = db.money[p]
                 /\ d.inventory = db.inventory /\ d.instances = db.instances
                 /\ d.mail = db.mail /\ d.mailItems = db.mailItems
<1>1. PICK s : s = [stmt |-> "UPD_CHAR_MONEY", player |-> player, money |-> money]
  OBVIOUS
<1>2. s \in Statements /\ s.stmt = "UPD_CHAR_MONEY" /\ s.player = player /\ s.money = money
  BY <1>1 DEF Statements
<1>3. SaveGoldToDB(player, money) = <<s>> /\ <<s>> \in Seq(Statements)
  BY <1>1, <1>2 DEF SaveGoldToDB
<1> QED
  BY <1>2, <1>3, CommittedOne, ExecuteMoney

-----------------------------------------------------------------------------
(* Saving a mailbox.                                                       *)

\* What a mail in memory makes of its row.
RowSaved(m, old, new) ==
    IF m = NoMail THEN new = old
    ELSE /\ m.state = "UNCHANGED" => new = old
         /\ m.state = "DELETED" => new = NoMail
         /\ m.state = "CHANGED" /\ old = NoMail => new = NoMail
         /\ m.state = "CHANGED" /\ old # NoMail =>
                /\ new \in Rows /\ new.sender = old.sender
                /\ new.receiver = old.receiver /\ new.checked = old.checked
                /\ new.has_items = (m.items # {})
                /\ new.money = m.money /\ new.COD = m.COD

\* It detaches an item which is attached to the mail holder, and deletes one.
Detaches(m, id, holder, i) ==
    /\ m # NoMail
    /\ \/ m.state = "CHANGED" /\ i \in m.removedItems
       \/ m.state = "DELETED" /\ holder = id
Deletes(m, i) == m # NoMail /\ m.state = "DELETED" /\ i \in m.items

\* The statements for one mail.
LEMMA MailIsSaved ==
    ASSUME NEW db \in Databases, NEW id \in MailIds, NEW m \in Mails \cup {NoMail}
    PROVE  /\ SaveMail(id, m) \in Seq(Statements)
           /\ LET d == Committed(db, SaveMail(id, m))
              IN /\ d \in Databases
                 /\ RowSaved(m, db.mail[id], d.mail[id])
                 /\ \A o \in MailIds : o # id => d.mail[o] = db.mail[o]
                 /\ \A i \in Items :
                        d.mailItems[i] =
                            IF Detaches(m, id, db.mailItems[i], i) THEN NoMail
                            ELSE db.mailItems[i]
                 /\ d.instances = {i \in db.instances : ~Deletes(m, i)}
                 /\ d.money = db.money /\ d.inventory = db.inventory
<1> DEFINE Good(t, d) ==
        /\ t \in Seq(Statements)
        /\ d \in Databases
        /\ RowSaved(m, db.mail[id], d.mail[id])
        /\ \A o \in MailIds : o # id => d.mail[o] = db.mail[o]
        /\ \A i \in Items :
              d.mailItems[i] =
                  IF Detaches(m, id, db.mailItems[i], i) THEN NoMail ELSE db.mailItems[i]
        /\ d.instances = {i \in db.instances : ~Deletes(m, i)}
        /\ d.money = db.money /\ d.inventory = db.inventory
<1> SUFFICES Good(SaveMail(id, m), Committed(db, SaveMail(id, m)))
  OBVIOUS
<1>1. CASE m = NoMail \/ m.state = "UNCHANGED"
  <2>1. SaveMail(id, m) = <<>> /\ <<>> \in Seq(Statements)
    BY <1>1 DEF SaveMail
  <2>2. Committed(db, SaveMail(id, m)) = db
    BY <2>1, CommittedNone
  <2>3. \A i : ~Deletes(m, i) /\ \A o : ~Detaches(m, id, o, i)
    BY <1>1 DEF Deletes, Detaches
  <2>4. db.instances = {i \in db.instances : ~Deletes(m, i)}
    BY <2>3
  <2>5. RowSaved(m, db.mail[id], db.mail[id])
    BY <1>1 DEF RowSaved
  <2> QED
    BY <2>1, <2>2, <2>3, <2>4, <2>5
<1>2. CASE m # NoMail /\ m.state = "CHANGED"
  <2>1. /\ m.items \in SUBSET Items /\ m.money \in SUBSET Coins /\ m.COD \in 0 .. MaxCOD
        /\ m.removedItems \in SUBSET Items
    BY <1>2 DEF Mails
  <2>2. PICK s : s = [stmt |-> "UPD_MAIL", id |-> id, has_items |-> m.items # {},
                      money |-> m.money, COD |-> m.COD]
    OBVIOUS
  <2>3. /\ s \in Statements /\ s.stmt = "UPD_MAIL" /\ s.id = id
        /\ s.has_items = (m.items # {}) /\ s.money = m.money /\ s.COD = m.COD
    BY <2>1, <2>2 DEF Statements
  <2>4. PICK t \in Seq(Statements) :
            /\ t = ForEach(m.removedItems, DeleteMailItem)
            /\ OneForEach(t, "DEL_MAIL_ITEM", m.removedItems)
    BY <2>1, DetachesItems
  <2>5. PICK a : a = <<s>>
    OBVIOUS
  <2>6. a \in Seq(Statements) /\ SaveMail(id, m) = a \o t
    BY <1>2, <2>2, <2>3, <2>4, <2>5 DEF SaveMail
  <2>7. PICK c, d : c = Execute(db, s) /\ d = Committed(c, t)
    OBVIOUS
  <2>8. /\ c \in Databases
        /\ db.mail[id] = NoMail => c.mail[id] = NoMail
        /\ db.mail[id] # NoMail =>
                /\ c.mail[id] \in Rows /\ c.mail[id].sender = db.mail[id].sender
                /\ c.mail[id].receiver = db.mail[id].receiver
                /\ c.mail[id].checked = db.mail[id].checked
                /\ c.mail[id].has_items = (m.items # {})
                /\ c.mail[id].money = m.money /\ c.mail[id].COD = m.COD
        /\ \A o \in MailIds : o # id => c.mail[o] = db.mail[o]
        /\ c.money = db.money /\ c.inventory = db.inventory
        /\ c.instances = db.instances /\ c.mailItems = db.mailItems
    BY <2>3, <2>7, ExecuteUpdateMail
  <2>9. Committed(db, SaveMail(id, m)) = d
    <3>1. Committed(db, a) = c
      BY <2>3, <2>5, <2>7, CommittedOne
    <3> QED
      BY <2>6, <2>7, <3>1, CommittedConcat
  <2>10. /\ d \in Databases
         /\ \A i \in Items : d.mailItems[i] = IF i \in m.removedItems THEN NoMail ELSE c.mailItems[i]
         /\ d.money = c.money /\ d.inventory = c.inventory /\ d.instances = c.instances
         /\ d.mail = c.mail
    <3>1. m.removedItems \in SUBSET Items /\ t \in Seq(Statements) /\ c \in Databases
      BY <2>1, <2>8
    <3>2. OneForEach(t, "DEL_MAIL_ITEM", m.removedItems)
      BY <2>4
    <3> QED
      BY ONLY <2>7, <3>1, <3>2, DetachItems
  <2>11. \A i : ~Deletes(m, i) /\ \A o : Detaches(m, id, o, i) <=> i \in m.removedItems
    BY <1>2 DEF Deletes, Detaches
  <2>12. d.instances = {i \in db.instances : ~Deletes(m, i)}
    BY <2>8, <2>10, <2>11
  <2>13. RowSaved(m, db.mail[id], d.mail[id])
    BY <1>2, <2>8, <2>10 DEF RowSaved
  <2> HIDE DEF Good
  <2>14. a \o t \in Seq(Statements)
    BY <2>6
  <2>15. Good(SaveMail(id, m), d)
    BY <2>6, <2>8, <2>10, <2>11, <2>12, <2>13, <2>14 DEF Good
  <2> QED
    BY <2>9, <2>15
<1>3. CASE m # NoMail /\ m.state = "DELETED"
  <2>1. m.items \in SUBSET Items
    BY <1>3 DEF Mails
  <2>2. PICK t \in Seq(Statements) :
            t = ForEach(m.items, DeleteInstance) /\ OneForEach(t, "DEL_ITEM_INSTANCE", m.items)
    BY <2>1, DeletesItems
  <2>3. PICK u : u = DeleteMail(id)
    OBVIOUS
  <2>4. u \in Seq(Statements) /\ SaveMail(id, m) = t \o u
    BY <1>3, <2>2, <2>3, MailIsDeleted DEF SaveMail
  <2>5. PICK c, d : c = Committed(db, t) /\ d = Committed(c, u)
    OBVIOUS
  <2>6. /\ c \in Databases
        /\ c.instances = {i \in db.instances : ~(i \in m.items)}
        /\ c.money = db.money /\ c.inventory = db.inventory
        /\ c.mail = db.mail /\ c.mailItems = db.mailItems
    <3>1. m.items \in SUBSET Items /\ t \in Seq(Statements) /\ db \in Databases
      BY <2>1
    <3>2. OneForEach(t, "DEL_ITEM_INSTANCE", m.items)
      BY <2>2
    <3> QED
      BY ONLY <2>5, <3>1, <3>2, DeleteItems
  <2>7. /\ d \in Databases
        /\ d.mail[id] = NoMail
        /\ \A o \in MailIds : o # id => d.mail[o] = c.mail[o]
        /\ \A i \in Items : d.mailItems[i] = IF c.mailItems[i] = id THEN NoMail ELSE c.mailItems[i]
        /\ d.money = c.money /\ d.inventory = c.inventory /\ d.instances = c.instances
    BY <2>3, <2>5, <2>6, MailIsDeleted
  <2>8. Committed(db, SaveMail(id, m)) = d
    BY <2>4, <2>5, CommittedConcat
  <2>9. \A i : (Deletes(m, i) <=> i \in m.items) /\ \A o : Detaches(m, id, o, i) <=> o = id
    BY <1>3 DEF Deletes, Detaches
  <2>10. d.instances = {i \in db.instances : ~Deletes(m, i)}
    BY <2>6, <2>7, <2>9
  <2>11. RowSaved(m, db.mail[id], d.mail[id])
    BY <1>3, <2>7 DEF RowSaved
  <2> HIDE DEF Good
  <2>12. t \o u \in Seq(Statements)
    BY <2>4
  <2>13. Good(SaveMail(id, m), d)
    BY <2>4, <2>6, <2>7, <2>9, <2>10, <2>11, <2>12 DEF Good
  <2> QED
    BY <2>8, <2>13
<1>4. m # NoMail => m.state \in {"UNCHANGED", "CHANGED", "DELETED"}
  BY DEF Mails
<1> QED
  BY <1>1, <1>2, <1>3, <1>4

\* The mailboxes a player can have in memory.
Boxes == [MailIds -> Mails \cup {NoMail}]

\* The statements for a mailbox.
LEMMA BoxIsSaved ==
    ASSUME NEW db \in Databases, NEW box \in Boxes
    PROVE  /\ _SaveMail(box) \in Seq(Statements)
           /\ LET d == Committed(db, _SaveMail(box))
              IN /\ d \in Databases
                 /\ \A id \in MailIds : RowSaved(box[id], db.mail[id], d.mail[id])
                 /\ \A i \in Items :
                        d.mailItems[i] =
                            IF \E id \in MailIds : Detaches(box[id], id, db.mailItems[i], i)
                            THEN NoMail ELSE db.mailItems[i]
                 /\ d.instances = {i \in db.instances : \A id \in MailIds : ~Deletes(box[id], i)}
                 /\ d.money = db.money /\ d.inventory = db.inventory
<1> DEFINE ss == [id \in MailIds |-> SaveMail(id, box[id])]
           Gone(n, i) == \E id \in 1 .. n : Deletes(box[id], i)
           Off(n, i) == \E id \in 1 .. n : Detaches(box[id], id, db.mailItems[i], i)
           Holds(d, n) ==
                /\ \A id \in 1 .. n : RowSaved(box[id], db.mail[id], d.mail[id])
                /\ \A id \in MailIds : id > n => d.mail[id] = db.mail[id]
                /\ \A i \in Items : d.mailItems[i] = IF Off(n, i) THEN NoMail ELSE db.mailItems[i]
                /\ \A i \in Items : i \in d.instances <=> i \in db.instances /\ ~Gone(n, i)
                /\ d.money = db.money /\ d.inventory = db.inventory
           P == [n \in 0 .. MaxMails |-> {d \in Databases : Holds(d, n)}]
<1>1. /\ MaxMails \in Nat /\ MailIds = 1 .. MaxMails
      /\ \A n \in 1 .. MaxMails : n - 1 \in 0 .. MaxMails /\ n \in 0 .. MaxMails /\ n \in Nat
  BY BoundAssumption DEF MailIds
<1>2. \A id \in MailIds : box[id] \in Mails \cup {NoMail} /\ SaveMail(id, box[id]) \in Seq(Statements)
  BY MailIsSaved DEF Boxes
<1>3. /\ ss \in Seq(Seq(Statements)) /\ Len(ss) = MaxMails
      /\ \A n \in 1 .. MaxMails : ss[n] = SaveMail(n, box[n])
  BY <1>1, <1>2
<1>4. _SaveMail(box) = FlattenSeq(ss)
  BY DEF _SaveMail
<1> HIDE DEF ss
<1>5. Holds(db, 0)
  <2>1. \A id \in MailIds : id > 0
    BY <1>1
  <2>2. \A i : ~Off(0, i) /\ ~Gone(0, i)
    OBVIOUS
  <2>3. 1 .. 0 = {}
    OBVIOUS
  <2> HIDE DEF Off, Gone
  <2> QED
    BY <2>1, <2>2, <2>3
<1>6. ASSUME NEW n \in 1 .. MaxMails, NEW c \in Databases, Holds(c, n - 1)
      PROVE  Holds(Committed(c, ss[n]), n)
  <2>1. PICK d, m : d = Committed(c, ss[n]) /\ m = box[n]
    OBVIOUS
  <2>2. n \in MailIds /\ ss[n] = SaveMail(n, m) /\ m \in Mails \cup {NoMail}
    BY <1>1, <1>2, <1>3, <2>1
  <2>3. /\ d \in Databases
        /\ RowSaved(m, c.mail[n], d.mail[n])
        /\ \A o \in MailIds : o # n => d.mail[o] = c.mail[o]
        /\ \A i \in Items :
              d.mailItems[i] = IF Detaches(m, n, c.mailItems[i], i) THEN NoMail ELSE c.mailItems[i]
        /\ d.instances = {i \in c.instances : ~Deletes(m, i)}
        /\ d.money = c.money /\ d.inventory = c.inventory
    BY <2>1, <2>2, MailIsSaved
  <2>4. (\A id \in 1 .. n : id = n \/ id \in 1 .. n - 1) /\ n > n - 1
    BY <1>1
  <2>5. \A id \in 1 .. n - 1 : id \in 1 .. n /\ id \in MailIds /\ id # n
    BY <1>1
  <2>6. n \in 1 .. n
    BY <1>1
  <2>7. \A id \in 1 .. n : RowSaved(box[id], db.mail[id], d.mail[id])
    BY <1>6, <2>1, <2>2, <2>3, <2>4, <2>5
  <2>8. \A id \in MailIds : id > n => id > n - 1 /\ id # n
    BY <1>1
  <2>9. \A id \in MailIds : id > n => d.mail[id] = db.mail[id]
    BY <1>6, <2>3, <2>8
  <2>10. ASSUME NEW i \in Items PROVE d.mailItems[i] = IF Off(n, i) THEN NoMail ELSE db.mailItems[i]
    <3>1. Off(n, i) <=> Off(n - 1, i) \/ Detaches(m, n, db.mailItems[i], i)
      BY <2>1, <2>4, <2>5, <2>6
    <3> HIDE DEF Off
    <3>2. c.mailItems[i] = IF Off(n - 1, i) THEN NoMail ELSE db.mailItems[i]
      BY <1>6
    <3>3. d.mailItems[i] = IF Detaches(m, n, c.mailItems[i], i) THEN NoMail ELSE c.mailItems[i]
      BY <2>3
    <3> QED
      BY <3>1, <3>2, <3>3
  <2>11. ASSUME NEW i \in Items PROVE i \in d.instances <=> i \in db.instances /\ ~Gone(n, i)
    <3>1. Gone(n, i) <=> Gone(n - 1, i) \/ Deletes(m, i)
      BY <2>1, <2>4, <2>5, <2>6
    <3> HIDE DEF Gone
    <3> QED
      BY <1>6, <2>3, <3>1
  <2>12. d.money = db.money /\ d.inventory = db.inventory
    BY <1>6, <2>3
  <2> HIDE DEF Off, Gone
  <2> QED
    BY <2>1, <2>7, <2>9, <2>10, <2>11, <2>12
<1> HIDE DEF Holds
<1>7. 0 \in 0 .. MaxMails /\ MaxMails \in 0 .. MaxMails
  BY <1>1
<1>8. db \in P[0]
  BY <1>5, <1>7
<1>9. \A n \in 1 .. Len(ss) : \A c \in Databases : c \in P[n - 1] => Committed(c, ss[n]) \in P[n]
  <2> SUFFICES ASSUME NEW n \in 1 .. Len(ss), NEW c \in Databases, c \in P[n - 1]
               PROVE  Committed(c, ss[n]) \in P[n]
    OBVIOUS
  <2>1. n \in 1 .. MaxMails /\ n - 1 \in 0 .. MaxMails /\ n \in 0 .. MaxMails
    BY <1>1, <1>3
  <2>2. Holds(c, n - 1)
    BY <2>1
  <2>3. Holds(Committed(c, ss[n]), n)
    BY <1>6, <2>1, <2>2
  <2>4. Committed(c, ss[n]) \in Databases
    BY <1>1, <1>2, <1>3, <2>1, CommittedType
  <2> QED
    BY <2>1, <2>3, <2>4
<1> HIDE DEF P
<1>10. FlattenSeq(ss) \in Seq(Statements) /\ Committed(db, FlattenSeq(ss)) \in P[MaxMails]
  BY <1>3, <1>8, <1>9, FlattenReaches
<1>11. PICK d : d = Committed(db, _SaveMail(box))
  OBVIOUS
<1>12. d \in Databases /\ Holds(d, MaxMails)
  BY <1>4, <1>7, <1>10, <1>11 DEF P
<1>13. /\ \A id \in MailIds : RowSaved(box[id], db.mail[id], d.mail[id])
       /\ \A i \in Items :
              d.mailItems[i] =
                  IF \E id \in MailIds : Detaches(box[id], id, db.mailItems[i], i)
                  THEN NoMail ELSE db.mailItems[i]
       /\ d.money = db.money /\ d.inventory = db.inventory
  BY <1>1, <1>12 DEF Holds
<1>14. d.instances = {i \in db.instances : \A id \in MailIds : ~Deletes(box[id], i)}
  <2>1. d.instances \subseteq Items /\ db.instances \subseteq Items
    BY <1>12 DEF Databases
  <2> QED
    BY <1>1, <1>12, <2>1 DEF Holds
<1> QED
  BY <1>4, <1>10, <1>11, <1>12, <1>13, <1>14

-----------------------------------------------------------------------------
(***************************************************************************)
(* The parts of the inductive invariant (MailProofs).  Sound is about each *)
(* database the queue leads through: next is the number of the next mail,  *)
(* gone is what has been deleted.                                          *)
(***************************************************************************)
Fresh(db, next) == \A id \in MailsOf(db) : id < next

\* No coin is with two players, in two mails, or with a player and in a mail.
CoinsApart(db) ==
    /\ \A p, q \in Players : p # q => db.money[p] \cap db.money[q] = {}
    /\ \A p \in Players, id \in MailsOf(db) : db.money[p] \cap db.mail[id].money = {}
    /\ \A id, o \in MailsOf(db) : id # o => db.mail[id].money \cap db.mail[o].money = {}

\* No item is with a player and in a mail.
ItemsApart(db) == \A i \in Items : db.inventory[i] = Nobody \/ db.mailItems[i] = NoMail

\* An item is attached to a mail which is there, and which says that it has items.
Attaches(db) ==
    \A i \in db.instances : db.mailItems[i] # NoMail =>
        db.mailItems[i] \in MailsOf(db) /\ db.mail[db.mailItems[i]].has_items

\* What has not been deleted is somewhere.
CoinsKept(db, gone) ==
    \A c \in Coins \ gone :
        \/ \E p \in Players : c \in db.money[p]
        \/ \E id \in MailsOf(db) : c \in db.mail[id].money
ItemsKept(db, gone) ==
    \A i \in Items \ gone :
        i \in db.instances /\ (db.inventory[i] # Nobody \/ db.mailItems[i] # NoMail)

Sound(db, next, gone) ==
    /\ Fresh(db, next)
    /\ CoinsApart(db)
    /\ ItemsApart(db)
    /\ Attaches(db)
    /\ CoinsKept(db, gone)
    /\ ItemsKept(db, gone)

(***************************************************************************)
(* The second part relates the stages of the queue to each other: st[k] is *)
(* the database after k elements of the queue q.                           *)
(***************************************************************************)
Carried(db, p) == {i \in db.instances : db.inventory[i] = p}
Addressed(db, p) == {id \in MailsOf(db) : db.mail[id].receiver = p}
Same(db, db2, id) == db2.mail[id] = db.mail[id] /\ Attached(db2, id) = Attached(db, id)

\* What PaidOnDelivery says of the step from db to db2.
PaidStep(db, db2) ==
    \A i \in Items, id \in MailsOf(db) :
        /\ db.mailItems[i] = id
        /\ db.mail[id].COD > 0
        /\ db2.inventory[i] = db.mail[id].receiver
        => \E pay \in MailIds :
            /\ db.mail[pay] = NoMail
            /\ db2.mail[pay] # NoMail
            /\ db2.mail[pay].receiver = db.mail[id].sender
            /\ Cardinality(db2.mail[pay].money) = db.mail[id].COD

\* From stage k on nobody but p, who is not there to do it, changes the mails of p.
Settled(st, k, n, p) ==
    \A a \in k .. n : \A id \in Addressed(st[a], p) : \A b \in a .. n : Same(st[a], st[b], id)

\* A login finds what is there in the end, and is the only one of its player.
LoginOK(st, q, on, k) ==
    LET p == q[k].player
        n == Len(q)
    IN /\ on[p] = "loading"
       /\ \A j \in 1 .. n : q[j].what = "login" /\ q[j].player = p => j = k
       /\ st[k].money[p] = st[n].money[p]
       /\ Carried(st[k], p) = Carried(st[n], p)
       /\ Settled(st, k, n, p)

QueueOK(st, q, on, next, gone) ==
    /\ \A k \in 0 .. Len(q) : Sound(st[k], next, gone)
    /\ \A k \in 1 .. Len(q) : PaidStep(st[k - 1], st[k])
    /\ \A k \in 1 .. Len(q) : q[k].what = "login" => LoginOK(st, q, on, k)

(***************************************************************************)
(* The third part is about a player: what he has in memory is what the     *)
(* database final, after the whole queue, has of him.                      *)
(***************************************************************************)
MailOK(m, id, p, final, listed, gone) ==
    /\ id \in Addressed(final, p)
    /\ final.mail[id].sender = m.sender
    /\ final.mail[id].money = m.money
    /\ final.mail[id].COD = m.COD
    /\ m.removedItems = {}
    /\ m.state = "DELETED" => m.money \cup m.items \subseteq gone
    /\ listed => m.items = Attached(final, id)

\* Between the queries the mails have no items, and are where the first one found them.
LoadingOK(m, id, p, db) ==
    m.items = {} /\ m.state = "UNCHANGED" /\ id \in Addressed(db, p)

PlayerOK(st, n, p, on, money, items, listed, box, ld, gone) ==
    /\ on # "in" => money = {} /\ items = {} /\ box = NoBox /\ ~listed /\ ld # p
    /\ on = "in" => money = st[n].money[p] /\ items = Carried(st[n], p)
    /\ listed => ld # p
    /\ ~listed /\ ld # p => box = NoBox
    /\ on = "in" /\ ~listed => Settled(st, 0, n, p)
    /\ \A id \in MailIds : box[id] # NoMail => MailOK(box[id], id, p, st[n], listed, gone)
    /\ ld = p => \A id \in MailIds : box[id] # NoMail => LoadingOK(box[id], id, p, st[0])

-----------------------------------------------------------------------------
(* Facts about the parts.                                                  *)

\* NoMail is no mail and no row, Nobody is no player.
LEMMA NoneApart ==
    /\ Nobody \notin Players
    /\ \A id \in MailIds : id # NoMail /\ id \in Int
    /\ \A row \in Rows : row # NoMail
    /\ \A m \in Mails : m # NoMail
  BY NobodyAssumption DEF MailIds

\* What the parts of a database are.
LEMMA DatabaseParts ==
    ASSUME NEW db \in Databases
    PROVE  /\ \A p \in Players : db.money[p] \in SUBSET Coins
           /\ \A i \in Items : db.inventory[i] \in Players \cup {Nobody}
           /\ db.instances \in SUBSET Items
           /\ \A id \in MailIds : db.mail[id] \in Rows \cup {NoMail}
           /\ \A i \in Items : db.mailItems[i] \in MailIds \cup {NoMail}
           /\ \A id \in MailsOf(db) : id \in MailIds /\ db.mail[id] \in Rows
           /\ \A id \in MailIds : id \in MailsOf(db) <=> db.mail[id] # NoMail
  BY DEF Databases, MailsOf

\* The bounds of a sound database may grow.
LEMMA SoundGrows ==
    ASSUME NEW db \in Databases, NEW next \in Nat, NEW next2 \in Nat, NEW gone, NEW gone2,
           Sound(db, next, gone), next <= next2, gone \subseteq gone2
    PROVE  Sound(db, next2, gone2)
<1>1. Fresh(db, next2)
  <2>1. \A id \in MailsOf(db) : id \in Int /\ id < next
    BY NoneApart, DatabaseParts DEF Sound, Fresh
  <2> QED
    BY <2>1 DEF Fresh
<1>2. CoinsKept(db, gone2) /\ ItemsKept(db, gone2)
  BY DEF Sound, CoinsKept, ItemsKept
<1> QED
  BY <1>1, <1>2 DEF Sound

\* A step that gives no item to a player has nothing to pay.
LEMMA NothingToPay ==
    ASSUME NEW db \in Databases, NEW db2, ItemsApart(db),
           \A i \in Items : db2.inventory[i] \in {db.inventory[i], Nobody}
    PROVE  PaidStep(db, db2)
<1> SUFFICES ASSUME NEW i \in Items, NEW id \in MailsOf(db), db.mailItems[i] = id,
                    db2.inventory[i] = db.mail[id].receiver
             PROVE  FALSE
  BY DEF PaidStep
<1>1. id # NoMail /\ db.mail[id].receiver \in Players
  BY NoneApart, DatabaseParts DEF Rows
<1>2. db.inventory[i] = Nobody
  BY <1>1 DEF ItemsApart
<1> QED
  BY <1>1, <1>2, NoneApart

\* The mails of a player stay settled when the next stage leaves them alone.
LEMMA SettledGrows ==
    ASSUME NEW n \in Nat, NEW k \in 0 .. n, NEW st, NEW st2, NEW p,
           Settled(st, k, n, p), \A a \in 0 .. n : st2[a] = st[a],
           \A id \in Addressed(st[n], p) : Same(st[n], st2[n + 1], id)
    PROVE  Settled(st2, k, n + 1, p)
<1> SUFFICES ASSUME NEW a \in k .. n + 1, NEW id \in Addressed(st2[a], p), NEW b \in a .. n + 1
             PROVE  Same(st2[a], st2[b], id)
  BY DEF Settled
<1>1. CASE a = n + 1
  BY <1>1 DEF Same
<1>2. CASE a # n + 1
  <2>1. a \in k .. n /\ a \in 0 .. n /\ n \in a .. n
    BY <1>2
  <2>2. st2[a] = st[a] /\ id \in Addressed(st[a], p)
    BY <2>1
  <2>3. CASE b # n + 1
    <3>1. b \in a .. n /\ b \in 0 .. n
      BY <2>1, <2>3
    <3>2. Same(st[a], st[b], id)
      BY <2>1, <2>2, <3>1 DEF Settled
    <3> QED
      BY <2>2, <3>1, <3>2
  <2>4. CASE b = n + 1
    <3>1. Same(st[a], st[n], id)
      BY <2>1, <2>2 DEF Settled
    <3>2. id \in Addressed(st[n], p)
      BY <2>2, <3>1 DEF Addressed, Same, MailsOf
    <3>3. Same(st[n], st2[n + 1], id)
      BY <3>2
    <3> QED
      BY <2>2, <2>4, <3>1, <3>3 DEF Same
  <2> QED
    BY <2>3, <2>4
<1> QED
  BY <1>1, <1>2

\* What a step leaves alone that does not concern the player p.
Kept(db, db2, p) ==
    /\ db2.money[p] = db.money[p]
    /\ Carried(db2, p) = Carried(db, p)
    /\ \A id \in Addressed(db, p) : Same(db, db2, id)

\* An element more in the queue.
LEMMA QueueGrows ==
    ASSUME NEW q \in Seq(Elements), NEW st \in [0 .. Len(q) -> Databases], NEW on,
           NEW next \in Nat, NEW gone,
           NEW st2, NEW e \in Elements, NEW on2, NEW next2 \in Nat, NEW gone2,
           QueueOK(st, q, on, next, gone),
           next <= next2, gone \subseteq gone2,
           \A k \in 0 .. Len(q) : st2[k] = st[k],
           Sound(st2[Len(q) + 1], next2, gone2),
           PaidStep(st[Len(q)], st2[Len(q) + 1]),
           \A p \in Players : on[p] = "loading" =>
                on2[p] = "loading" /\ Kept(st[Len(q)], st2[Len(q) + 1], p),
           e.what = "login" => /\ on[e.player] # "loading" /\ on2[e.player] = "loading"
    PROVE  QueueOK(st2, Append(q, e), on2, next2, gone2)
<1> DEFINE n == Len(q)
           r == Append(q, e)
<1>1. /\ n \in Nat /\ Len(r) = n + 1 /\ r[n + 1] = e
      /\ \A k \in 1 .. n : r[k] = q[k] /\ q[k] \in Elements
  OBVIOUS
<1>2. /\ Len(q) = n /\ \A k \in 0 .. n : st2[k] = st[k] /\ st[k] \in Databases
      /\ n \in 0 .. n
  BY <1>1
<1> HIDE DEF n, r
<1>3. ASSUME NEW k \in 0 .. n + 1 PROVE Sound(st2[k], next2, gone2)
  <2>1. CASE k = n + 1
    BY <1>2, <2>1
  <2>2. CASE k # n + 1
    <3>1. k \in 0 .. n
      BY <1>1, <2>2
    <3>2. Sound(st[k], next, gone)
      BY <1>2, <3>1 DEF QueueOK
    <3> QED
      BY <1>2, <3>1, <3>2, SoundGrows
  <2> QED
    BY <2>1, <2>2
<1>4. ASSUME NEW k \in 1 .. n + 1 PROVE PaidStep(st2[k - 1], st2[k])
  <2>1. CASE k = n + 1
    <3>1. k - 1 = n
      BY <1>1, <2>1
    <3> QED
      BY <1>2, <2>1, <3>1
  <2>2. CASE k # n + 1
    <3>1. k \in 1 .. n /\ k \in 0 .. n /\ k - 1 \in 0 .. n
      BY <1>1, <2>2
    <3>2. PaidStep(st[k - 1], st[k])
      BY <1>2, <3>1 DEF QueueOK
    <3> QED
      BY <1>2, <3>1, <3>2
  <2> QED
    BY <2>1, <2>2
<1>5. ASSUME NEW k \in 1 .. n, q[k].what = "login"
      PROVE  LoginOK(st, q, on, k) /\ q[k].player \in Players
  <2>1. LoginOK(st, q, on, k)
    BY <1>2, <1>5 DEF QueueOK
  <2>2. q[k] \in Elements
    BY <1>1
  <2> QED
    BY <1>5, <2>1, <2>2, ElementKinds
<1>6. ASSUME NEW k \in 1 .. n + 1, r[k].what = "login" PROVE LoginOK(st2, r, on2, k)
  <2>1. PICK p : p = r[k].player
    OBVIOUS
  <2>2. CASE k = n + 1
    <3>1. p = e.player /\ on[p] # "loading" /\ on2[p] = "loading"
      BY <1>1, <1>6, <2>1, <2>2
    <3>2. ASSUME NEW j \in 1 .. n + 1, r[j].what = "login", r[j].player = p PROVE j = k
      <4>1. CASE j \in 1 .. n
        <5>1. q[j].what = "login" /\ q[j].player = p
          BY <1>1, <3>2, <4>1
        <5> QED
          BY <1>5, <3>1, <4>1, <5>1 DEF LoginOK
      <4>2. CASE j \notin 1 .. n
        BY <1>1, <2>2, <4>2
      <4> QED
        BY <4>1, <4>2
    <3>3. Settled(st2, n + 1, n + 1, p)
      <4>1. \A a \in n + 1 .. n + 1 : a = n + 1 /\ \A b \in a .. n + 1 : b = a
        BY <1>1
      <4> QED
        BY <4>1 DEF Settled, Same
    <3> QED
      BY <1>1, <2>1, <2>2, <3>1, <3>2, <3>3 DEF LoginOK
  <2>3. CASE k # n + 1
    <3>1. k \in 1 .. n /\ k \in 0 .. n
      BY <1>1, <2>3
    <3>2. q[k].what = "login" /\ q[k].player = p
      BY <1>1, <1>6, <2>1, <3>1
    <3>3. LoginOK(st, q, on, k) /\ p \in Players
      BY <1>5, <3>1, <3>2
    <3>4. /\ on[p] = "loading"
          /\ \A j \in 1 .. n : q[j].what = "login" /\ q[j].player = p => j = k
          /\ st[k].money[p] = st[n].money[p]
          /\ Carried(st[k], p) = Carried(st[n], p)
          /\ Settled(st, k, n, p)
      BY <1>2, <3>2, <3>3 DEF LoginOK
    <3>5. on2[p] = "loading" /\ Kept(st[n], st2[n + 1], p)
      BY <1>2, <3>3, <3>4
    <3>6. ASSUME NEW j \in 1 .. n + 1, r[j].what = "login", r[j].player = p PROVE j = k
      <4>1. CASE j \in 1 .. n
        BY <1>1, <3>4, <3>6, <4>1
      <4>2. CASE j \notin 1 .. n
        <5>1. r[j] = e
          BY <1>1, <4>2
        <5> QED
          BY <3>4, <3>6, <5>1
      <4> QED
        BY <4>1, <4>2
    <3>7. Settled(st2, k, n + 1, p)
      BY <1>1, <1>2, <3>1, <3>4, <3>5, SettledGrows DEF Kept
    <3>8. st2[k].money[p] = st2[n + 1].money[p] /\ Carried(st2[k], p) = Carried(st2[n + 1], p)
      BY <1>2, <3>1, <3>4, <3>5 DEF Kept
    <3> QED
      BY <1>1, <2>1, <3>5, <3>6, <3>7, <3>8 DEF LoginOK
  <2> QED
    BY <2>2, <2>3
<1> QED
  BY <1>1, <1>3, <1>4, <1>6 DEF QueueOK, r

\* A mail in memory agrees with a row that nobody changes.
LEMMA MailKept ==
    ASSUME NEW m, NEW id, NEW p, NEW db, NEW db2, NEW listed, NEW gone, NEW gone2,
           MailOK(m, id, p, db, listed, gone), gone \subseteq gone2,
           \A o \in Addressed(db, p) : Same(db, db2, o)
    PROVE  MailOK(m, id, p, db2, listed, gone2)
<1>1. Same(db, db2, id) /\ id \in Addressed(db, p)
  BY DEF MailOK
<1>2. id \in Addressed(db2, p)
  BY <1>1 DEF Same, Addressed, MailsOf
<1> QED
  BY <1>1, <1>2 DEF MailOK, Same

\* A player whose mails are left alone, when the queue has one more element.
LEMMA PlayerGrows ==
    ASSUME NEW n \in Nat, NEW st, NEW st2, NEW p, NEW on, NEW money, NEW items, NEW listed,
           NEW box,
           NEW ld, NEW gone, NEW gone2, NEW money2, NEW items2,
           PlayerOK(st, n, p, on, money, items, listed, box, ld, gone),
           \A k \in 0 .. n : st2[k] = st[k],
           gone \subseteq gone2,
           \A id \in Addressed(st[n], p) : Same(st[n], st2[n + 1], id),
           on = "in" => money2 = st2[n + 1].money[p] /\ items2 = Carried(st2[n + 1], p),
           on # "in" => money2 = money /\ items2 = items
    PROVE  PlayerOK(st2, n + 1, p, on, money2, items2, listed, box, ld, gone2)
<1>1. /\ on # "in" => money2 = {} /\ items2 = {} /\ box = NoBox /\ ~listed /\ ld # p
      /\ on = "in" => money2 = st2[n + 1].money[p] /\ items2 = Carried(st2[n + 1], p)
      /\ listed => ld # p
      /\ ~listed /\ ld # p => box = NoBox
  BY DEF PlayerOK
<1>2. ASSUME on = "in", ~listed PROVE Settled(st2, 0, n + 1, p)
  <2>1. Settled(st, 0, n, p) /\ 0 \in 0 .. n
    BY <1>2 DEF PlayerOK
  <2> QED
    BY <2>1, SettledGrows
<1>3. ASSUME NEW id \in MailIds, box[id] # NoMail
      PROVE  MailOK(box[id], id, p, st2[n + 1], listed, gone2)
  <2>1. MailOK(box[id], id, p, st[n], listed, gone)
    BY <1>3 DEF PlayerOK
  <2> QED
    BY <2>1, MailKept
<1>4. st2[0] = st[0]
  OBVIOUS
<1>5. ld = p => \A id \in MailIds : box[id] # NoMail => LoadingOK(box[id], id, p, st2[0])
  BY <1>4 DEF PlayerOK
<1> QED
  BY <1>1, <1>2, <1>3, <1>5 DEF PlayerOK

\* A mail delivered to a player who has listed his mails.
LEMMA PlayerGetsMail ==
    ASSUME NEW n, NEW st, NEW p, NEW on, NEW money, NEW items, NEW box \in Boxes,
           NEW ld, NEW gone, NEW id \in MailIds, NEW m,
           PlayerOK(st, n, p, on, money, items, TRUE, box, ld, gone),
           MailOK(m, id, p, st[n], TRUE, gone)
    PROVE  PlayerOK(st, n, p, on, money, items, TRUE, [box EXCEPT ![id] = m], ld, gone)
<1> DEFINE more == [box EXCEPT ![id] = m]
<1>1. more[id] = m /\ \A o \in MailIds : o # id => more[o] = box[o]
  BY DEF Boxes
<1> HIDE DEF more
<1>2. on = "in" /\ ld # p
  BY DEF PlayerOK
<1>3. \A o \in MailIds : more[o] # NoMail => MailOK(more[o], o, p, st[n], TRUE, gone)
  BY <1>1 DEF PlayerOK
<1>4. PlayerOK(st, n, p, on, money, items, TRUE, more, ld, gone)
  BY <1>2, <1>3 DEF PlayerOK
<1> QED
  BY <1>4 DEF more

-----------------------------------------------------------------------------
(***************************************************************************)
(* A player's box is saved.  The handlers which do it take the coins taken *)
(* and the items ti out of one mail id0 of his box a, which makes it b,    *)
(* and pay the coins paid with the mail next, if row is the row of one.    *)
(***************************************************************************)
MailboxOK(a, p, db, gone) ==
    \A id \in MailIds : a[id] # NoMail => MailOK(a[id], id, p, db, TRUE, gone)

Touches(m, m2, taken, ti) ==
    /\ m # NoMail /\ m2 # NoMail
    /\ m.state # "DELETED" /\ m2.state = "CHANGED"
    /\ m2.sender = m.sender
    /\ m2.money = m.money \ taken /\ taken \subseteq m.money
    /\ m2.items = m.items \ ti /\ ti \subseteq m.items
    /\ m2.removedItems = ti

Touched(a, b, id0, taken, ti) ==
    /\ \A id \in MailIds : id # id0 => b[id] = a[id]
    /\ \/ taken = {} /\ ti = {} /\ b = a
       \/ id0 \in MailIds /\ Touches(a[id0], b[id0], taken, ti)

BoxSaved(b, db, db2) ==
    /\ \A i \in Items :
            db2.mailItems[i] =
                IF \E id \in MailIds : Detaches(b[id], id, db.mailItems[i], i)
                THEN NoMail ELSE db.mailItems[i]
    /\ db2.instances = {i \in db.instances : \A id \in MailIds : ~Deletes(b[id], i)}

Saves(db, db2, p, b, taken, paid, ti, next, row) ==
    /\ db2.money[p] = (db.money[p] \cup taken) \ paid
    /\ \A q \in Players : q # p => db2.money[q] = db.money[q]
    /\ \A i \in Items : db2.inventory[i] = IF i \in ti THEN p ELSE db.inventory[i]
    /\ \A id \in MailIds : id # next => RowSaved(b[id], db.mail[id], db2.mail[id])
    /\ next \in MailIds => db2.mail[next] = row
    /\ BoxSaved(b, db, db2)

Payment(next, row, next2, paid) ==
    /\ row = NoMail => paid = {} /\ next2 = next
    /\ row # NoMail => /\ row \in Rows /\ row.money = paid
                       /\ next \in MailIds /\ next2 = next + 1

\* What saving does to the row of one mail.
RowFate(db, db2, m, m2, id) ==
    /\ m = NoMail => m2 = NoMail /\ db2.mail[id] = db.mail[id]
    /\ m # NoMail => /\ m2 # NoMail /\ m2.sender = m.sender
                     /\ m2.state \in {"UNCHANGED", "CHANGED", "DELETED"}
                     /\ id \in MailsOf(db) /\ m.items = Attached(db, id)
                     /\ db.mail[id].money = m.money
    /\ m # NoMail /\ m2.state = "UNCHANGED" => m2 = m /\ db2.mail[id] = db.mail[id]
    /\ m # NoMail /\ m2.state = "DELETED" => m2 = m /\ db2.mail[id] = NoMail
    /\ RowSaved(m2, db.mail[id], db2.mail[id])

\* What becomes of each mail when the box of the player is saved.
LEMMA RowFates ==
    ASSUME NEW db \in Databases, NEW db2 \in Databases, NEW p \in Players,
           NEW a \in Boxes, NEW b \in Boxes, NEW next, NEW gone, NEW id0,
           NEW taken, NEW paid, NEW ti, NEW row,
           MailboxOK(a, p, db, gone), Touched(a, b, id0, taken, ti),
           Saves(db, db2, p, b, taken, paid, ti, next, row),
           NEW id \in MailIds, id # next
    PROVE  RowFate(db, db2, a[id], b[id], id)
<1> DEFINE m == a[id]
           m2 == b[id]
<1>1. /\ m \in Mails \cup {NoMail} /\ m2 \in Mails \cup {NoMail}
      /\ RowSaved(m2, db.mail[id], db2.mail[id])
      /\ m2 = m \/ Touches(m, m2, taken, ti)
  BY DEF Boxes, Saves, Touched
<1>2. m # NoMail => MailOK(m, id, p, db, TRUE, gone)
  BY DEF MailboxOK
<1> HIDE DEF m, m2
<1>3. ASSUME m = NoMail PROVE RowFate(db, db2, m, m2, id)
  <2>1. m2 = NoMail
    BY <1>1, <1>3 DEF Touches
  <2>2. db2.mail[id] = db.mail[id]
    BY <1>1, <2>1 DEF RowSaved
  <2> QED
    BY <1>1, <1>3, <2>1, <2>2 DEF RowFate
<1>4. ASSUME m # NoMail PROVE RowFate(db, db2, m, m2, id)
  <2>1. /\ id \in MailsOf(db) /\ m.items = Attached(db, id)
        /\ db.mail[id].money = m.money /\ db.mail[id] # NoMail
    BY <1>2, <1>4 DEF MailOK, Addressed, MailsOf
  <2>2. m2 # NoMail /\ m2.sender = m.sender
    BY <1>1, <1>4 DEF Touches
  <2>3. m2 \in Mails /\ m2.state \in {"UNCHANGED", "CHANGED", "DELETED"}
    BY <1>1, <2>2 DEF Mails
  <2>4. m2.state # "CHANGED" => m2 = m
    BY <1>1 DEF Touches
  <2> QED
    <3>1. /\ m2.state = "UNCHANGED" => db2.mail[id] = db.mail[id]
          /\ m2.state = "DELETED" => db2.mail[id] = NoMail
      BY <1>1, <2>2 DEF RowSaved
    <3> QED
      BY <1>1, <1>4, <2>1, <2>2, <2>3, <2>4, <3>1 DEF RowFate
<1> QED
  BY <1>3, <1>4 DEF m, m2

\* What it does to an item.
ItemFate(db, db2, a, b, ti, i) ==
    /\ i \in ti => db2.mailItems[i] = NoMail
    /\ db2.mailItems[i] # db.mailItems[i] => db2.mailItems[i] = NoMail
    /\ db2.mailItems[i] # db.mailItems[i] /\ i \notin ti =>
            /\ db.mailItems[i] \in MailIds
            /\ b[db.mailItems[i]] # NoMail /\ b[db.mailItems[i]].state = "DELETED"
    /\ db2.mailItems[i] # NoMail => b[db.mailItems[i]] = NoMail \/ b[db.mailItems[i]].state # "DELETED"
    /\ i \in db2.instances => i \in db.instances
    /\ i \in db.instances /\ i \notin db2.instances =>
            /\ db.mailItems[i] \in MailIds
            /\ b[db.mailItems[i]] # NoMail /\ b[db.mailItems[i]].state = "DELETED"
            /\ a[db.mailItems[i]] = b[db.mailItems[i]]
            /\ i \in a[db.mailItems[i]].items

\* What becomes of the attachment of each item when the box is saved.
LEMMA ItemFates ==
    ASSUME NEW db \in Databases, NEW db2 \in Databases, NEW p \in Players,
           NEW a \in Boxes, NEW b \in Boxes, NEW gone, NEW id0,
           NEW taken, NEW ti,
           MailboxOK(a, p, db, gone), Touched(a, b, id0, taken, ti), BoxSaved(b, db, db2),
           NEW i \in Items
    PROVE  ItemFate(db, db2, a, b, ti, i)
<1> DEFINE Off(id) == Detaches(b[id], id, db.mailItems[i], i)
<1>1. /\ db2.mailItems[i] = IF \E id \in MailIds : Off(id) THEN NoMail ELSE db.mailItems[i]
      /\ i \in db2.instances <=> i \in db.instances /\ \A id \in MailIds : ~Deletes(b[id], i)
      /\ db.mailItems[i] \in MailIds \cup {NoMail}
  BY DatabaseParts DEF BoxSaved
<1>2. ASSUME NEW id \in MailIds, b[id] # NoMail, b[id].state # "CHANGED" PROVE b[id] = a[id]
  BY <1>2 DEF Touched, Touches
<1>3. ASSUME NEW id \in MailIds, Deletes(b[id], i)
      PROVE  i \in db.instances => /\ db.mailItems[i] = id /\ b[id] # NoMail
                                   /\ b[id].state = "DELETED" /\ a[id] = b[id]
                                   /\ i \in a[id].items
  <2>1. b[id] # NoMail /\ b[id].state = "DELETED" /\ a[id] = b[id] /\ i \in a[id].items
    BY <1>2, <1>3 DEF Deletes
  <2>2. a[id].items = Attached(db, id)
    BY <2>1 DEF MailboxOK, MailOK
  <2> QED
    BY <2>1, <2>2 DEF Attached
<1>4. ASSUME NEW id \in MailIds, Off(id)
      PROVE  i \in ti \/ (db.mailItems[i] = id /\ b[id] # NoMail /\ b[id].state = "DELETED")
  <2>1. CASE b[id].state = "CHANGED" /\ i \in b[id].removedItems
    <3>1. CASE b[id] = a[id]
      <4>1. a[id] # NoMail
        BY <1>4, <3>1 DEF Detaches
      <4>2. a[id].removedItems = {}
        BY <4>1 DEF MailboxOK, MailOK
      <4> QED
        BY <2>1, <3>1, <4>2
    <3>2. CASE b[id] # a[id]
      BY <2>1, <3>2 DEF Touched, Touches
    <3> QED
      BY <3>1, <3>2
  <2> QED
    BY <1>4, <2>1 DEF Detaches
<1>5. ASSUME i \in ti PROVE \E id \in MailIds : Off(id)
  BY <1>5 DEF Touched, Touches, Detaches
<1>6. ASSUME db.mailItems[i] \in MailIds, b[db.mailItems[i]] # NoMail,
             b[db.mailItems[i]].state = "DELETED"
      PROVE  \E id \in MailIds : Off(id)
  BY <1>6 DEF Detaches
<1> HIDE DEF Off
<1>7. /\ i \in ti => db2.mailItems[i] = NoMail
      /\ db2.mailItems[i] # db.mailItems[i] => db2.mailItems[i] = NoMail
  BY <1>1, <1>5
<1>8. db2.mailItems[i] # db.mailItems[i] /\ i \notin ti =>
            /\ db.mailItems[i] \in MailIds
            /\ b[db.mailItems[i]] # NoMail /\ b[db.mailItems[i]].state = "DELETED"
  BY <1>1, <1>4
<1>9. db2.mailItems[i] # NoMail => b[db.mailItems[i]] = NoMail \/ b[db.mailItems[i]].state # "DELETED"
  BY <1>1, <1>6
<1>10. /\ i \in db2.instances => i \in db.instances
       /\ i \in db.instances /\ i \notin db2.instances =>
            /\ db.mailItems[i] \in MailIds
            /\ b[db.mailItems[i]] # NoMail /\ b[db.mailItems[i]].state = "DELETED"
            /\ a[db.mailItems[i]] = b[db.mailItems[i]]
            /\ i \in a[db.mailItems[i]].items
  BY <1>1, <1>3
<1> QED
  BY <1>7, <1>8, <1>9, <1>10 DEF ItemFate

\* The mails which are there after the box is saved, without the payment.
LEMMA RowsSaved ==
    ASSUME NEW db \in Databases, NEW db2 \in Databases, NEW p \in Players,
           NEW a \in Boxes, NEW b \in Boxes, NEW next, NEW gone, NEW id0,
           NEW taken, NEW paid, NEW ti, NEW row,
           MailboxOK(a, p, db, gone), Touched(a, b, id0, taken, ti), CoinsApart(db),
           Saves(db, db2, p, b, taken, paid, ti, next, row)
    PROVE  /\ \A id \in MailsOf(db2) : id # next =>
                /\ id \in MailsOf(db)
                /\ db2.mail[id].money \subseteq db.mail[id].money
                /\ db2.mail[id].money \cap taken = {}
                /\ db2.mail[id].receiver = db.mail[id].receiver
                /\ db2.mail[id].sender = db.mail[id].sender
           /\ \A q \in Players : taken \cap db.money[q] = {}
<1>1. ASSUME NEW c \in taken
      PROVE  /\ id0 \in MailsOf(db) /\ Touches(a[id0], b[id0], taken, ti)
             /\ c \in db.mail[id0].money
  <2>1. id0 \in MailIds /\ Touches(a[id0], b[id0], taken, ti)
    BY <1>1 DEF Touched
  <2>2. a[id0] # NoMail /\ c \in a[id0].money
    BY <1>1, <2>1 DEF Touches
  <2>3. MailOK(a[id0], id0, p, db, TRUE, gone)
    BY <2>1, <2>2 DEF MailboxOK
  <2> QED
    BY <2>1, <2>2, <2>3 DEF MailOK, Addressed
<1>2. ASSUME NEW id \in MailsOf(db2), id # next
      PROVE  /\ id \in MailsOf(db)
             /\ db2.mail[id].money \subseteq db.mail[id].money
             /\ db2.mail[id].money \cap taken = {}
             /\ db2.mail[id].receiver = db.mail[id].receiver
             /\ db2.mail[id].sender = db.mail[id].sender
  <2>1. id \in MailIds /\ db2.mail[id] # NoMail
    BY DEF MailsOf
  <2>2. RowFate(db, db2, a[id], b[id], id)
    BY <1>2, <2>1, RowFates
  <2>3. CASE db2.mail[id] = db.mail[id]
    <3>1. id \in MailsOf(db)
      BY <2>1, <2>3 DEF MailsOf
    <3>2. ASSUME NEW c \in taken, c \in db.mail[id].money PROVE FALSE
      <4>1. id # id0
        <5>1. Touches(a[id0], b[id0], taken, ti) /\ c \in db.mail[id0].money
          BY <1>1, <3>2
        <5> SUFFICES ASSUME id = id0 PROVE FALSE
          OBVIOUS
        <5>2. /\ a[id] # NoMail /\ b[id] # NoMail /\ b[id].state = "CHANGED"
              /\ b[id].money = a[id].money \ taken
          BY <5>1 DEF Touches
        <5>3. db2.mail[id].money = b[id].money
          BY <2>1, <2>2, <2>3, <5>2 DEF RowFate, RowSaved
        <5> QED
          BY <2>3, <3>2, <5>2, <5>3
      <4> QED
        BY <1>1, <3>1, <3>2, <4>1 DEF CoinsApart
    <3> QED
      BY <2>3, <3>1, <3>2
  <2>4. CASE db2.mail[id] # db.mail[id]
    <3>1. /\ a[id] # NoMail /\ b[id] # NoMail /\ b[id].state = "CHANGED"
          /\ id \in MailsOf(db) /\ db.mail[id].money = a[id].money
      BY <2>1, <2>2, <2>4 DEF RowFate
    <3>2. /\ db2.mail[id].money = b[id].money
          /\ db2.mail[id].receiver = db.mail[id].receiver
          /\ db2.mail[id].sender = db.mail[id].sender
      BY <2>2, <3>1 DEF RowFate, RowSaved, MailsOf
    <3>3. CASE id = id0 /\ Touches(a[id0], b[id0], taken, ti)
      BY <3>1, <3>2, <3>3 DEF Touches
    <3>4. CASE ~(id = id0 /\ Touches(a[id0], b[id0], taken, ti))
      <4>1. b[id] = a[id]
        BY <2>1, <3>4 DEF Touched
      <4>2. ASSUME NEW c \in taken, c \in db.mail[id].money PROVE FALSE
        BY <1>1, <3>1, <3>4, <4>2 DEF CoinsApart
      <4> QED
        BY <3>1, <3>2, <4>1, <4>2
    <3> QED
      BY <3>3, <3>4
  <2> QED
    BY <2>3, <2>4
<1>3. ASSUME NEW q \in Players, NEW c \in taken, c \in db.money[q] PROVE FALSE
  BY <1>1, <1>3 DEF CoinsApart
<1> QED
  BY <1>2, <1>3

\* The coins stay where they are, or follow the player.
LEMMA CoinsSaved ==
    ASSUME NEW db \in Databases, NEW db2 \in Databases, NEW p \in Players,
           NEW a \in Boxes, NEW b \in Boxes, NEW next, NEW next2, NEW gone, NEW id0,
           NEW taken, NEW paid, NEW ti, NEW row,
           MailboxOK(a, p, db, gone), Touched(a, b, id0, taken, ti), Sound(db, next, gone),
           Saves(db, db2, p, b, taken, paid, ti, next, row),
           next \in Nat, paid \subseteq db.money[p], Payment(next, row, next2, paid)
    PROVE  CoinsApart(db2) /\ CoinsKept(db2, gone)
<1>1. CoinsApart(db) /\ CoinsKept(db, gone) /\ Fresh(db, next)
  BY DEF Sound
<1>2. /\ \A id \in MailsOf(db2) : id # next =>
            /\ id \in MailsOf(db)
            /\ db2.mail[id].money \subseteq db.mail[id].money
            /\ db2.mail[id].money \cap taken = {}
      /\ \A q \in Players : taken \cap db.money[q] = {}
  BY <1>1, RowsSaved
<1>3. next \notin MailsOf(db)
  <2>1. ~(next < next)
    OBVIOUS
  <2> QED
    BY <1>1, <2>1 DEF Fresh
<1>4. next \in MailsOf(db2) => db2.mail[next].money = paid
  BY NoneApart DEF MailsOf, Saves, Payment
<1>5. paid # {} => next \in MailsOf(db2)
  BY NoneApart DEF MailsOf, Saves, Payment
<1>6. /\ db2.money[p] = (db.money[p] \cup taken) \ paid
      /\ \A q \in Players : q # p => db2.money[q] = db.money[q]
  BY DEF Saves
<1>7. taken # {} => id0 \in MailsOf(db) /\ taken \subseteq db.mail[id0].money
  <2> SUFFICES ASSUME taken # {} PROVE id0 \in MailsOf(db) /\ taken \subseteq db.mail[id0].money
    OBVIOUS
  <2>1. id0 \in MailIds /\ a[id0] # NoMail /\ taken \subseteq a[id0].money
    BY DEF Touched, Touches
  <2>2. MailOK(a[id0], id0, p, db, TRUE, gone)
    BY <2>1 DEF MailboxOK
  <2> QED
    BY <2>1, <2>2 DEF MailOK, Addressed
<1>8. \A q, r \in Players : q # r => db2.money[q] \cap db2.money[r] = {}
  <2> SUFFICES ASSUME NEW q \in Players, NEW r \in Players, q # r
               PROVE  db2.money[q] \cap db2.money[r] = {}
    OBVIOUS
  <2>1. db.money[q] \cap db.money[r] = {}
    BY <1>1 DEF CoinsApart
  <2> QED
    BY <1>2, <1>6, <2>1
<1>9. \A q \in Players, id \in MailsOf(db2) : db2.money[q] \cap db2.mail[id].money = {}
  <2> SUFFICES ASSUME NEW q \in Players, NEW id \in MailsOf(db2)
               PROVE  db2.money[q] \cap db2.mail[id].money = {}
    OBVIOUS
  <2>1. CASE id = next
    <3>1. q # p => db.money[q] \cap db.money[p] = {}
      BY <1>1 DEF CoinsApart
    <3> QED
      BY <1>4, <1>6, <2>1, <3>1
  <2>2. CASE id # next
    <3>1. db.money[q] \cap db.mail[id].money = {}
      BY <1>1, <1>2, <2>2 DEF CoinsApart
    <3> QED
      BY <1>2, <1>6, <2>2, <3>1
  <2> QED
    BY <2>1, <2>2
<1>10. \A id, o \in MailsOf(db2) : id # o => db2.mail[id].money \cap db2.mail[o].money = {}
  <2> SUFFICES ASSUME NEW id \in MailsOf(db2), NEW o \in MailsOf(db2), id # o
               PROVE  db2.mail[id].money \cap db2.mail[o].money = {}
    OBVIOUS
  <2>1. ASSUME NEW x \in MailsOf(db2), x # next PROVE paid \cap db2.mail[x].money = {}
    <3>1. db.money[p] \cap db.mail[x].money = {}
      BY <1>1, <1>2, <2>1 DEF CoinsApart
    <3> QED
      BY <1>2, <2>1, <3>1
  <2>2. CASE id # next /\ o # next
    <3>1. db.mail[id].money \cap db.mail[o].money = {}
      BY <1>1, <1>2, <2>2 DEF CoinsApart
    <3> QED
      BY <1>2, <2>2, <3>1
  <2> QED
    BY <1>4, <2>1, <2>2
<1>11. ASSUME NEW c \in Coins \ gone
       PROVE  \/ \E q \in Players : c \in db2.money[q]
              \/ \E id \in MailsOf(db2) : c \in db2.mail[id].money
  <2>1. CASE \E q \in Players : c \in db.money[q]
    <3>1. PICK q \in Players : c \in db.money[q]
      BY <2>1
    <3>2. CASE q = p /\ c \in paid
      BY <1>4, <1>5, <3>2
    <3>3. CASE ~(q = p /\ c \in paid)
      BY <1>6, <3>1, <3>3
    <3> QED
      BY <3>2, <3>3
  <2>2. CASE \E id \in MailsOf(db) : c \in db.mail[id].money
    <3>1. PICK id \in MailsOf(db) : c \in db.mail[id].money
      BY <2>2
    <3>2. id \in MailIds /\ id # next /\ db.mail[id] # NoMail
      BY <1>3 DEF MailsOf
    <3>3. RowFate(db, db2, a[id], b[id], id)
      BY <3>2, RowFates
    <3>4. CASE db2.mail[id] = db.mail[id]
      BY <3>1, <3>2, <3>4 DEF MailsOf
    <3>5. CASE db2.mail[id] # db.mail[id]
      <4>1. /\ a[id] # NoMail /\ b[id] # NoMail
            /\ b[id].state = "CHANGED" \/ (b[id].state = "DELETED" /\ b[id] = a[id])
            /\ db.mail[id].money = a[id].money
        BY <3>3, <3>5 DEF RowFate
      <4>2. CASE b[id].state = "DELETED" /\ b[id] = a[id]
        <5>1. MailOK(a[id], id, p, db, TRUE, gone)
          BY <3>2, <4>1 DEF MailboxOK
        <5> QED
          BY <3>1, <4>1, <4>2, <5>1 DEF MailOK
      <4>3. CASE b[id].state = "CHANGED"
        <5>1. db2.mail[id] \in Rows /\ db2.mail[id].money = b[id].money
          BY <3>2, <3>3, <4>1, <4>3 DEF RowFate, RowSaved
        <5>2. id \in MailsOf(db2)
          BY <3>2, <5>1, NoneApart DEF MailsOf
        <5>3. CASE c \in taken
          <6>1. c \notin db.money[p]
            BY <1>2, <5>3
          <6> QED
            BY <1>6, <5>3, <6>1
        <5>4. CASE c \notin taken
          <6>1. b[id] = a[id] \/ b[id].money = a[id].money \ taken
            BY <3>2 DEF Touched, Touches
          <6> QED
            BY <3>1, <4>1, <5>1, <5>2, <5>4, <6>1
        <5> QED
          BY <5>3, <5>4
      <4> QED
        BY <4>1, <4>2, <4>3
    <3> QED
      BY <3>4, <3>5
  <2> QED
    BY <1>1, <2>1, <2>2 DEF CoinsKept
<1> QED
  BY <1>8, <1>9, <1>10, <1>11 DEF CoinsApart, CoinsKept

\* The items stay where they are, or follow the player.
LEMMA ItemsSaved ==
    ASSUME NEW db \in Databases, NEW db2 \in Databases, NEW p \in Players,
           NEW a \in Boxes, NEW b \in Boxes, NEW next, NEW next2, NEW gone, NEW id0,
           NEW taken, NEW paid, NEW ti, NEW row,
           MailboxOK(a, p, db, gone), Touched(a, b, id0, taken, ti), Sound(db, next, gone),
           Saves(db, db2, p, b, taken, paid, ti, next, row),
           next \in Nat
    PROVE  ItemsApart(db2) /\ Attaches(db2) /\ ItemsKept(db2, gone)
<1>1. ItemsApart(db) /\ Attaches(db) /\ ItemsKept(db, gone) /\ Fresh(db, next)
  BY DEF Sound
<1>2. next \notin MailsOf(db)
  <2>1. ~(next < next)
    OBVIOUS
  <2> QED
    BY <1>1, <2>1 DEF Fresh
<1>3. /\ BoxSaved(b, db, db2)
      /\ \A i \in Items : db2.inventory[i] = IF i \in ti THEN p ELSE db.inventory[i]
  BY DEF Saves
<1>4. \A i \in Items : ItemFate(db, db2, a, b, ti, i)
  BY <1>3, ItemFates
<1>5. ItemsApart(db2)
  <2> SUFFICES ASSUME NEW i \in Items PROVE db2.inventory[i] = Nobody \/ db2.mailItems[i] = NoMail
    BY DEF ItemsApart
  <2>1. ItemFate(db, db2, a, b, ti, i) /\ (db.inventory[i] = Nobody \/ db.mailItems[i] = NoMail)
    BY <1>1, <1>4 DEF ItemsApart
  <2> QED
    BY <1>3, <2>1 DEF ItemFate
<1>6. ASSUME NEW i \in db2.instances, db2.mailItems[i] # NoMail
      PROVE  db2.mailItems[i] \in MailsOf(db2) /\ db2.mail[db2.mailItems[i]].has_items
  <2>1. i \in Items
    BY DatabaseParts
  <2>2. ItemFate(db, db2, a, b, ti, i)
    BY <1>4, <2>1
  <2>3. PICK id : id = db2.mailItems[i]
    OBVIOUS
  <2>4. /\ i \in db.instances /\ db.mailItems[i] = id /\ i \notin ti
        /\ b[id] = NoMail \/ b[id].state # "DELETED"
    BY <1>6, <2>2, <2>3 DEF ItemFate
  <2>5. id \in MailsOf(db) /\ db.mail[id].has_items /\ id # next
    BY <1>1, <1>2, <1>6, <2>3, <2>4 DEF Attaches
  <2>6. id \in MailIds /\ db.mail[id] # NoMail
    BY <2>5 DEF MailsOf
  <2>7. RowFate(db, db2, a[id], b[id], id)
    BY <2>5, <2>6, RowFates
  <2>8. CASE db2.mail[id] = db.mail[id]
    BY <2>3, <2>5, <2>6, <2>8 DEF MailsOf
  <2>9. CASE db2.mail[id] # db.mail[id]
    <3>1. a[id] # NoMail /\ b[id] # NoMail /\ b[id].state = "CHANGED" /\ a[id].items = Attached(db, id)
      BY <2>4, <2>7, <2>9 DEF RowFate
    <3>2. db2.mail[id] \in Rows /\ (db2.mail[id].has_items <=> b[id].items # {})
      BY <2>6, <2>7, <3>1 DEF RowFate, RowSaved
    <3>3. i \in a[id].items
      BY <2>4, <3>1 DEF Attached
    <3>4. b[id] = a[id] \/ b[id].items = a[id].items \ ti
      BY <2>6 DEF Touched, Touches
    <3>5. b[id].items # {}
      BY <2>4, <3>3, <3>4
    <3> QED
      BY <2>3, <2>6, <3>2, <3>5, NoneApart DEF MailsOf
  <2> QED
    BY <2>8, <2>9
<1>7. ASSUME NEW i \in Items \ gone
      PROVE  i \in db2.instances /\ (db2.inventory[i] # Nobody \/ db2.mailItems[i] # NoMail)
  <2>1. ItemFate(db, db2, a, b, ti, i)
    BY <1>4
  <2>2. i \in db.instances /\ (db.inventory[i] # Nobody \/ db.mailItems[i] # NoMail)
    BY <1>1 DEF ItemsKept
  <2>3. ASSUME NEW id \in MailIds, b[id] # NoMail, b[id].state = "DELETED"
        PROVE  i \notin Attached(db, id)
    <3>1. b[id] = a[id]
      BY <2>3 DEF Touched, Touches
    <3>2. MailOK(a[id], id, p, db, TRUE, gone)
      BY <2>3, <3>1 DEF MailboxOK
    <3>3. a[id].items \subseteq gone /\ a[id].items = Attached(db, id)
      BY <2>3, <3>1, <3>2 DEF MailOK
    <3> QED
      BY <3>3
  <2>4. i \in Attached(db, db.mailItems[i])
    BY <2>2 DEF Attached
  <2>5. i \in db2.instances
    BY <2>1, <2>2, <2>3, <2>4 DEF ItemFate
  <2>6. i \in ti \/ db2.mailItems[i] = db.mailItems[i]
    BY <2>1, <2>3, <2>4 DEF ItemFate
  <2> QED
    BY <1>3, <2>2, <2>5, <2>6, NoneApart
<1> QED
  BY <1>5, <1>6, <1>7 DEF Attaches, ItemsKept

\* So the database is as sound as before.
LEMMA SavedSound ==
    ASSUME NEW db \in Databases, NEW db2 \in Databases, NEW p \in Players,
           NEW a \in Boxes, NEW b \in Boxes, NEW next, NEW next2, NEW gone, NEW id0,
           NEW taken, NEW paid, NEW ti, NEW row,
           MailboxOK(a, p, db, gone), Touched(a, b, id0, taken, ti), Sound(db, next, gone),
           Saves(db, db2, p, b, taken, paid, ti, next, row),
           next \in Nat, paid \subseteq db.money[p], Payment(next, row, next2, paid)
    PROVE  Sound(db2, next2, gone)
<1>1. ASSUME NEW id \in MailsOf(db2) PROVE id < next2
  <2>1. CASE id = next
    <3>1. row # NoMail
      BY <2>1 DEF MailsOf, Saves
    <3> QED
      BY <2>1, <3>1 DEF Payment
  <2>2. CASE id # next
    <3>1. id \in MailsOf(db)
      BY <2>2, RowsSaved DEF Sound
    <3>2. id < next /\ id \in Int
      BY <3>1, NoneApart DEF Sound, Fresh, MailsOf
    <3> QED
      BY <3>2 DEF Payment
  <2> QED
    BY <2>1, <2>2
<1>2. CoinsApart(db2) /\ CoinsKept(db2, gone)
  BY CoinsSaved
<1>3. ItemsApart(db2) /\ Attaches(db2) /\ ItemsKept(db2, gone)
  BY ItemsSaved
<1> QED
  BY <1>1, <1>2, <1>3 DEF Sound, Fresh

\* The other players have what they had.
LEMMA SavedForOthers ==
    ASSUME NEW db \in Databases, NEW db2 \in Databases, NEW p \in Players,
           NEW a \in Boxes, NEW b \in Boxes, NEW next, NEW gone, NEW id0,
           NEW taken, NEW paid, NEW ti, NEW row,
           MailboxOK(a, p, db, gone), Touched(a, b, id0, taken, ti), Sound(db, next, gone),
           Saves(db, db2, p, b, taken, paid, ti, next, row),
           next \in Nat,
           \A i \in ti : db.inventory[i] = Nobody,
           NEW q \in Players, q # p
    PROVE  Kept(db, db2, q)
<1>1. /\ BoxSaved(b, db, db2)
      /\ \A i \in Items : db2.inventory[i] = IF i \in ti THEN p ELSE db.inventory[i]
  BY DEF Saves
<1>2. \A i \in Items : ItemFate(db, db2, a, b, ti, i)
  BY <1>1, ItemFates
<1>3. Fresh(db, next) /\ ItemsApart(db) /\ ~(next < next)
  BY DEF Sound
<1>4. ASSUME NEW id \in MailIds, a[id] # NoMail PROVE id \notin Addressed(db, q)
  BY <1>4 DEF MailboxOK, MailOK, Addressed
<1>5. ASSUME NEW i \in Items, i \in db.instances, i \notin db2.instances
      PROVE  /\ db.mailItems[i] \notin Addressed(db, q) /\ db.inventory[i] = Nobody
  <2>1. db.mailItems[i] \in MailIds /\ a[db.mailItems[i]] # NoMail
    BY <1>2, <1>5 DEF ItemFate
  <2> QED
    BY <1>3, <1>4, <2>1, NoneApart DEF ItemsApart
<1>6. Carried(db2, q) = Carried(db, q)
  <2>1. ASSUME NEW i \in Items PROVE i \in Carried(db2, q) <=> i \in Carried(db, q)
    <3>1. i \in db2.instances => i \in db.instances
      BY <1>2 DEF ItemFate
    <3>2. db2.inventory[i] = q <=> db.inventory[i] = q
      BY <1>1, NoneApart
    <3>3. db.inventory[i] = q /\ i \in db.instances => i \in db2.instances
      BY <1>5, NoneApart
    <3> QED
      BY <3>1, <3>2, <3>3 DEF Carried
  <2>2. Carried(db2, q) \subseteq Items /\ Carried(db, q) \subseteq Items
    BY DatabaseParts DEF Carried
  <2> QED
    BY <2>1, <2>2
<1>7. ASSUME NEW id \in Addressed(db, q) PROVE Same(db, db2, id)
  <2>1. id \in MailIds /\ id # next /\ a[id] = NoMail
    BY <1>3, <1>4 DEF Addressed, Fresh, MailsOf
  <2>2. db2.mail[id] = db.mail[id] /\ b[id] = NoMail
    BY <2>1, RowFates DEF RowFate
  <2>3. ASSUME NEW i \in Items PROVE i \in Attached(db2, id) <=> i \in Attached(db, id)
    <3>1. i \in db2.instances => i \in db.instances
      BY <1>2 DEF ItemFate
    <3>2. i \in db.instances /\ db.mailItems[i] = id => i \in db2.instances
      BY <1>5
    <3>3. db2.mailItems[i] = id => db.mailItems[i] = id
      <4>1. db2.mailItems[i] = db.mailItems[i] \/ db2.mailItems[i] = NoMail
        BY <1>2 DEF ItemFate
      <4> QED
        BY <2>1, <4>1, NoneApart
    <3>4. db.mailItems[i] = id => db2.mailItems[i] = id
      <4> SUFFICES ASSUME db.mailItems[i] = id, db2.mailItems[i] # id PROVE FALSE
        OBVIOUS
      <4>1. i \in ti
        BY <1>2, <2>2 DEF ItemFate
      <4>2. i \in Attached(db, id0) /\ id0 \in MailIds /\ a[id0] # NoMail
        <5>1. id0 \in MailIds /\ a[id0] # NoMail /\ ti \subseteq a[id0].items
          BY <4>1 DEF Touched, Touches
        <5>2. a[id0].items = Attached(db, id0)
          BY <5>1 DEF MailboxOK, MailOK
        <5> QED
          BY <4>1, <5>1, <5>2
      <4>3. id = id0
        BY <4>2 DEF Attached
      <4> QED
        BY <2>1, <4>2, <4>3
    <3> QED
      BY <3>1, <3>2, <3>3, <3>4 DEF Attached
  <2>4. Attached(db2, id) \subseteq Items /\ Attached(db, id) \subseteq Items
    BY DatabaseParts DEF Attached
  <2> QED
    BY <2>2, <2>3, <2>4 DEF Same
<1> QED
  BY <1>6, <1>7 DEF Kept, Saves

\* The player has what he took, and a saved box.
LEMMA SavedForPlayer ==
    ASSUME NEW db \in Databases, NEW db2 \in Databases, NEW p \in Players,
           NEW a \in Boxes, NEW b \in Boxes, NEW next, NEW gone, NEW id0,
           NEW taken, NEW paid, NEW ti \in SUBSET Items, NEW row,
           MailboxOK(a, p, db, gone), Touched(a, b, id0, taken, ti), Sound(db, next, gone),
           Saves(db, db2, p, b, taken, paid, ti, next, row),
           next \in Nat,
           \A i \in ti : db.inventory[i] = Nobody
    PROVE  /\ MailboxOK(Saved(b), p, db2, gone)
           /\ Carried(db2, p) = Carried(db, p) \cup ti
<1>1. /\ BoxSaved(b, db, db2)
      /\ \A i \in Items : db2.inventory[i] = IF i \in ti THEN p ELSE db.inventory[i]
  BY DEF Saves
<1>2. \A i \in Items : ItemFate(db, db2, a, b, ti, i)
  BY <1>1, ItemFates
<1>3. Fresh(db, next) /\ ItemsApart(db) /\ ~(next < next)
  BY DEF Sound
<1>4. ASSUME NEW i \in ti
      PROVE  /\ id0 \in MailIds /\ i \in Attached(db, id0)
             /\ Touches(a[id0], b[id0], taken, ti)
  <2>1. id0 \in MailIds /\ Touches(a[id0], b[id0], taken, ti)
    BY <1>4 DEF Touched
  <2>2. i \in a[id0].items /\ a[id0] # NoMail
    BY <1>4, <2>1 DEF Touches
  <2>3. a[id0].items = Attached(db, id0)
    BY <2>1, <2>2 DEF MailboxOK, MailOK
  <2> QED
    BY <2>1, <2>2, <2>3
<1>5. ASSUME NEW i \in Items, i \in db.instances, i \notin db2.instances
      PROVE  db.inventory[i] = Nobody /\ i \notin ti
  <2>1. /\ db.mailItems[i] \in MailIds /\ b[db.mailItems[i]].state = "DELETED"
        /\ db.mailItems[i] # NoMail
    BY <1>2, <1>5, NoneApart DEF ItemFate
  <2>2. db.inventory[i] = Nobody
    BY <1>3, <2>1 DEF ItemsApart
  <2>3. ASSUME i \in ti PROVE FALSE
    <3>1. db.mailItems[i] = id0 /\ b[id0].state = "CHANGED"
      BY <1>4, <2>3 DEF Attached, Touches
    <3> QED
      BY <2>1, <3>1
  <2> QED
    BY <2>2, <2>3
<1>6. Carried(db2, p) = Carried(db, p) \cup ti
  <2>1. ASSUME NEW i \in Items PROVE i \in Carried(db2, p) <=> i \in Carried(db, p) \/ i \in ti
    <3>1. i \in db2.instances => i \in db.instances
      BY <1>2 DEF ItemFate
    <3>2. i \in ti => i \in db.instances
      BY <1>4 DEF Attached
    <3>3. (db.inventory[i] = p \/ i \in ti) /\ i \in db.instances => i \in db2.instances
      BY <1>5, NoneApart
    <3> QED
      BY <1>1, <3>1, <3>2, <3>3 DEF Carried
  <2>2. Carried(db2, p) \subseteq Items /\ Carried(db, p) \subseteq Items
    BY DatabaseParts DEF Carried
  <2> QED
    BY <2>1, <2>2
<1>7. ASSUME NEW id \in MailIds, Saved(b)[id] # NoMail
      PROVE  MailOK(Saved(b)[id], id, p, db2, TRUE, gone)
  <2>1. /\ b[id] # NoMail /\ b[id].state # "DELETED"
        /\ Saved(b)[id] = [b[id] EXCEPT !.state = "UNCHANGED", !.removedItems = {}]
    BY <1>7 DEF Saved
  <2>2. PICK s : s = Saved(b)[id]
    OBVIOUS
  <2>3. b[id] \in Mails
    BY <2>1 DEF Boxes
  <2>4. /\ s.sender = b[id].sender /\ s.money = b[id].money /\ s.COD = b[id].COD
        /\ s.items = b[id].items /\ s.removedItems = {} /\ s.state = "UNCHANGED"
    BY <2>1, <2>2, <2>3 DEF Mails
  <2>5. a[id] # NoMail
    BY <2>1 DEF Touched, Touches
  <2>6. MailOK(a[id], id, p, db, TRUE, gone)
    BY <2>5 DEF MailboxOK
  <2>7. id \in MailsOf(db) /\ id # next /\ db.mail[id] # NoMail /\ db.mail[id].receiver = p
    BY <1>3, <2>6 DEF MailOK, Addressed, Fresh, MailsOf
  <2>8. RowFate(db, db2, a[id], b[id], id)
    BY <2>7, RowFates
  <2>9. b[id].state \in {"UNCHANGED", "CHANGED"}
    BY <2>1, <2>3 DEF Mails
  <2>10. /\ db2.mail[id] # NoMail /\ db2.mail[id].receiver = p
         /\ db2.mail[id].sender = s.sender /\ db2.mail[id].money = s.money
         /\ db2.mail[id].COD = s.COD
    <3>1. CASE b[id].state = "UNCHANGED"
      <4>1. b[id] = a[id] /\ db2.mail[id] = db.mail[id]
        BY <2>5, <2>8, <3>1 DEF RowFate
      <4> QED
        BY <2>4, <2>6, <2>7, <4>1 DEF MailOK
    <3>2. CASE b[id].state = "CHANGED"
      <4>1. /\ db2.mail[id] \in Rows /\ db2.mail[id].sender = db.mail[id].sender
            /\ db2.mail[id].receiver = db.mail[id].receiver
            /\ db2.mail[id].money = b[id].money /\ db2.mail[id].COD = b[id].COD
        BY <2>1, <2>7, <2>8, <3>2 DEF RowFate, RowSaved
      <4>2. b[id].sender = a[id].sender
        BY <2>5, <2>8 DEF RowFate
      <4> QED
        BY <2>4, <2>6, <2>7, <4>1, <4>2, NoneApart DEF MailOK
    <3> QED
      BY <2>9, <3>1, <3>2
  <2>11. a[id].items = Attached(db, id)
    BY <2>6 DEF MailOK
  <2>12. \A i \in ti : i \in a[id].items => b[id].items = a[id].items \ ti
    <3> SUFFICES ASSUME NEW i \in ti, i \in a[id].items PROVE b[id].items = a[id].items \ ti
      OBVIOUS
    <3>1. id = id0
      BY <1>4, <2>11 DEF Attached
    <3> QED
      BY <1>4, <3>1 DEF Touches
  <2>13. b[id].items = a[id].items \/ b[id].items = a[id].items \ ti
    BY DEF Touched, Touches
  <2>14. ASSUME NEW i \in Items PROVE i \in Attached(db2, id) <=> i \in b[id].items
    <3>1. ItemFate(db, db2, a, b, ti, i)
      BY <1>2
    <3>2. ASSUME i \in Attached(db2, id) PROVE i \in b[id].items
      <4>1. i \in db.instances /\ db.mailItems[i] = id /\ i \notin ti
        BY <3>1, <3>2, NoneApart DEF ItemFate, Attached
      <4> QED
        BY <2>11, <2>13, <4>1 DEF Attached
    <3>3. ASSUME i \in b[id].items PROVE i \in Attached(db2, id)
      <4>1. i \in a[id].items /\ i \notin ti
        BY <2>12, <2>13, <3>3
      <4>2. i \in db.instances /\ db.mailItems[i] = id
        BY <2>11, <4>1 DEF Attached
      <4> QED
        BY <2>1, <3>1, <4>1, <4>2 DEF ItemFate, Attached
    <3> QED
      BY <3>2, <3>3
  <2>15. Attached(db2, id) = b[id].items
    <3>1. Attached(db2, id) \subseteq Items /\ b[id].items \subseteq Items
      BY <2>3, DatabaseParts DEF Attached, Mails
    <3> QED
      BY <2>14, <3>1
  <2> QED
    BY <2>2, <2>4, <2>7, <2>10, <2>15 DEF MailOK, Addressed, MailsOf
<1> QED
  BY <1>6, <1>7 DEF MailboxOK

-----------------------------------------------------------------------------
(* The handlers.                                                           *)

=============================================================================

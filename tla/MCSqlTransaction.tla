-------------------------- MODULE MCSqlTransaction --------------------------
(***************************************************************************)
(* SqlTransaction for TLC: two worker threads and a caller with a          *)
(* connection of its own, and transactions that lock the same rows in      *)
(* opposite orders.  One of them has a statement the server refuses, one   *)
(* is empty; the instance with reconnections has only worker threads.      *)
(***************************************************************************)
EXTENDS SqlTransaction, TLC

CONSTANTS a1, a2, s1, buy, mail, save, rename, empty, gold, item

MCConnections == {a1, a2, s1}
MCAsync == {a1, a2}
MCStatements ==
    buy :> <<gold, item>> @@ save :> <<item, gold>> @@ rename :> <<item, gold>>
      @@ empty :> <<>>
MCTransactions == DOMAIN MCStatements
MCQueued == {buy, rename, empty}
MCRejected == {<<rename, 2>>}

ReconnectStatements == buy :> <<gold, item>> @@ mail :> <<item, gold>> @@ rename :> <<item, gold>>
ReconnectTransactions == DOMAIN ReconnectStatements

=============================================================================

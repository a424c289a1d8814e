--------------------------- MODULE MCSqlContention ---------------------------
(***************************************************************************)
(* SqlContention for TLC: two worker threads, and transactions of which    *)
(* one locks three rows in the opposite order of the four others.  Each of *)
(* these can beat it twice, so that with the code's five retries there are *)
(* behaviours in which it is dropped.                                      *)
(***************************************************************************)
EXTENDS SqlContention, TLC

CONSTANTS a1, a2, buy, m1, m2, m3, m4, gold, item, bank

MCConnections == {a1, a2}
MCMails == {m1, m2, m3, m4}
MCTransactions == MCMails \cup {buy}
MCStatements ==
    [t \in MCTransactions |->
        IF t = buy THEN <<gold, item, bank>> ELSE <<bank, item, gold>>]

MCSymmetry == Permutations(MCMails)

=============================================================================

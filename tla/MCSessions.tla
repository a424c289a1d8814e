----------------------------- MODULE MCSessions -----------------------------
EXTENDS Sessions, TLC
CONSTANTS alice, bob, gm

\* Three accounts compete for one place; alice's client may come back while its
\* first session lives on.
MCAccountOf == 1 :> alice @@ 2 :> alice @@ 3 :> bob @@ 4 :> gm
MCMaxKeys == 1 :> 1 @@ 2 :> 2 @@ 3 :> 0 @@ 4 :> 0

\* One session, and as many ConnectTo offers as the code makes.
MCOneAccount == 1 :> alice
MCFiveKeys == 1 :> 5
=============================================================================

---------------------------- MODULE MCMapUpdater ----------------------------
(***************************************************************************)
(* MapUpdater for TLC: two update threads, a base map with instances and   *)
(* a plain continent.                                                      *)
(***************************************************************************)
EXTENDS MapUpdater

CONSTANTS w1, w2, dungeon, continent, i1, i2

MCWorkers == {w1, w2}
MCBaseMaps == {dungeon, continent}
MCInstances == {i1, i2}
MCParent == [i \in MCInstances |-> dungeon]

=============================================================================

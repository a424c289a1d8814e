------------------------------- MODULE MapTick -------------------------------
(***************************************************************************)
(* What the rest of the world server relies on when it touches maps        *)
(* without a lock: time alternates between a world phase, in which the     *)
(* world thread owns every map, and a map phase, in which each map is      *)
(* updated once and by nobody else.  Nothing is said of how many threads   *)
(* do it, of requests or of queues.                                        *)
(***************************************************************************)
CONSTANTS BaseMaps, Instances, Parent

Maps == BaseMaps \cup Instances

VARIABLES
    phase,      \* "world", "maps" or "closed"
    maps,       \* maps that exist
    due,        \* maps to be updated in this phase and not begun
    updating,   \* maps being updated
    served      \* maps begun, or waived, in this phase

vars == <<phase, maps, due, updating, served>>

Init ==
    /\ phase = "world"
    /\ maps = {}
    /\ due = {}
    /\ updating = {}
    /\ served = {}

Create ==
    /\ phase = "world"
    /\ \E new \in SUBSET (Maps \ maps) : maps' = maps \cup new
    /\ UNCHANGED <<phase, due, updating, served>>

\* In a map phase updates create base maps: some become due, the others are let off.
CreateLate ==
    /\ phase = "maps"
    /\ \E new \in SUBSET (BaseMaps \ maps) : \E seen \in SUBSET new :
          /\ maps' = maps \cup new
          /\ due' = due \cup seen
          /\ served' = served \cup (new \ seen)
    /\ UNCHANGED <<phase, updating>>

BeginTick ==
    /\ phase = "world"
    /\ phase' = "maps"
    /\ due' = maps \cap BaseMaps
    /\ served' = {}
    /\ UNCHANGED <<maps, updating>>

Begin(m) ==
    /\ phase = "maps"
    /\ m \in due \ served
    /\ due' = due \ {m}
    /\ updating' = updating \cup {m}
    /\ served' = served \cup {m}
    /\ UNCHANGED <<phase, maps>>

Finish(m) ==
    /\ m \in updating
    /\ updating' = updating \ {m}
    /\ UNCHANGED <<phase, maps, due, served>>

\* While a map is updated, one of its instances becomes due, is deleted, or is
\* let off for this tick; only an instance nothing has been decided about yet.
Decide(i) ==
    /\ Parent[i] \in updating
    /\ i \in maps \ (due \cup served)
    /\ \/ due' = due \cup {i} /\ UNCHANGED <<maps, served>>
       \/ maps' = maps \ {i} /\ UNCHANGED <<due, served>>
       \/ served' = served \cup {i} /\ UNCHANGED <<due, maps>>
    /\ UNCHANGED <<phase, updating>>

\* A base map and its instances, one after the other, without interference; it too
\* may create base maps.
UpdateWhole(b) ==
    /\ phase = "maps"
    /\ b \in due
    /\ \E deleted \in SUBSET {i \in maps \cap Instances : Parent[i] = b},
          new \in SUBSET (BaseMaps \ maps) : \E seen \in SUBSET new :
          /\ maps' = (maps \ deleted) \cup new
          /\ due' = (due \ {b}) \cup seen
          /\ served' = served \cup {b} \cup (new \ seen)
                         \cup {i \in maps' \cap Instances : Parent[i] = b}
    /\ UNCHANGED <<phase, updating>>

EndTick ==
    /\ phase = "maps"
    /\ due = {}
    /\ updating = {}
    /\ maps \subseteq served
    /\ phase' = "world"
    /\ UNCHANGED <<maps, due, updating, served>>

Close ==
    /\ phase = "world"
    /\ phase' = "closed"
    /\ maps' = {}
    /\ UNCHANGED <<due, updating, served>>

MapPhase ==
    \/ \E m \in Maps : Begin(m) \/ Finish(m)
    \/ \E b \in BaseMaps : UpdateWhole(b)
    \/ \E i \in Instances : Decide(i)
    \/ EndTick

Next == Create \/ CreateLate \/ BeginTick \/ MapPhase \/ Close

\* A map phase ends.
Spec == Init /\ [][Next]_vars /\ WF_vars(MapPhase)

=============================================================================

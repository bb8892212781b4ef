-------------------------------- MODULE MCFleet --------------------------------
(***************************************************************************)
(* Small fleets for Fleet.                                                 *)
(***************************************************************************)
EXTENDS Fleet

(* The last name wins key 1, the first name key 2, and key 3 ties. *)
Scores == [k \in Key |-> [w \in Worker |-> CASE k = 1 -> w [] k = 2 -> 10 - w [] OTHER -> 0]]

(* A peer list that misses a worker, and DNS answers that lag behind. *)
PeerLists == {{2}}
GhostLists == {{1, 2}, {1, 2, 3}}
Resolved == {{}, {1}, {1, 2}}

AllKeys == {Key}
=============================================================================

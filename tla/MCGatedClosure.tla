--------------------------- MODULE MCGatedClosure ---------------------------
(***************************************************************************)
(* Model checking of GatedClosure on every graph over Name.  Agents that   *)
(* the plan does not offer are not in agent_map, so their dependencies are *)
(* left empty: the search never reads them.                                *)
(***************************************************************************)
EXTENDS GatedClosure

MCInit ==
  /\ available \in SUBSET Name
  /\ \E f \in [available -> SUBSET Name] :
        edges = [a \in Name |-> IF a \in available THEN f[a] ELSE {}]
  /\ dispatched \in SUBSET Name
  /\ Start

MCSpec == MCInit /\ [][SearchNext]_searchVars
=============================================================================

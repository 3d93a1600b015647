------------------------- MODULE MCPipelineExecutor -------------------------
(***************************************************************************)
(* PipelineExecutor on a small graph: two agents that run side by side in  *)
(* the first tier, one in the second that needs both, one in the third.    *)
(* Every agent of the deployed registry is critical; side is not, so that  *)
(* the code for such agents runs too, next to a critical sibling.          *)
(***************************************************************************)
EXTENDS PipelineExecutor, TLC

CONSTANTS base, side, join, last

MCAgent == {base, side, join, last}
MCCritical == {base, join, last}
MCDependsOn == (base :> {}) @@ (side :> {}) @@ (join :> {base, side}) @@ (last :> {join})
MCTierOf == (base :> 0) @@ (side :> 0) @@ (join :> 1) @@ (last :> 2)
=============================================================================

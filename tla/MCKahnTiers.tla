---------------------------- MODULE MCKahnTiers ----------------------------
(***************************************************************************)
(* Model checking of KahnTiers on every graph of at most Cardinality(Name) *)
(* agents whose dependencies are any names at all: missing ones, the agent *)
(* itself, cycles.  Names that are not in the list have no dependencies,   *)
(* and at most one agent has a depends_on_any entry, so that inputs the    *)
(* function cannot tell apart are generated once.                          *)
(***************************************************************************)
EXTENDS KahnTiers

CONSTANT AnyNames   \* bound: what the one depends_on_any entry can name

NoAny == [a \in Name |-> {}]

MCInit ==
  /\ agents \in SUBSET Name
  /\ \E f \in [agents -> SUBSET Name] :
        dependsOn = [a \in Name |-> IF a \in agents THEN f[a] ELSE {}]
  /\ dependsOnAny \in {NoAny} \cup {[NoAny EXCEPT ![a] = {n}] : a \in agents, n \in AnyNames}
  /\ Start

MCSpec == MCInit /\ [][SortNext]_sortVars
=============================================================================

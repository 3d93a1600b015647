------------------------- MODULE DependencySchedule -------------------------
(***************************************************************************)
(* What execute_pipeline promises the agents it runs, and nothing of how:  *)
(* an agent starts once, when every agent it depends on has been settled,  *)
(* a critical one with an output; the verdict is "completed" only when     *)
(* every agent has been settled; after a verdict nothing happens any more. *)
(***************************************************************************)
CONSTANTS
  Agent,      \* the agents of the run
  DependsOn,  \* depends_on of each
  Critical    \* the agents whose failure ends the run

VARIABLES
  started,  \* agents that were started
  settled,  \* agents whose result was taken in
  outputs,  \* agents with an output that others can read
  verdict   \* "none" until the run ends

vars == <<started, settled, outputs, verdict>>

Init ==
  /\ started = {}
  /\ settled = {}
  /\ outputs = {}
  /\ verdict = "none"

CanStart(a) ==
  \A d \in DependsOn[a] : d \in settled /\ (d \in Critical => d \in outputs)

StartAgents(S) ==
  /\ verdict = "none"
  /\ S \cap started = {}
  /\ \A a \in S : CanStart(a)
  /\ started' = started \cup S
  /\ UNCHANGED <<settled, outputs, verdict>>

(* A failed agent that is not critical is settled without an output. *)
Settle(a, hasOutput) ==
  /\ verdict = "none"
  /\ a \in started \ settled
  /\ a \in Critical => hasOutput
  /\ settled' = settled \cup {a}
  /\ outputs' = IF hasOutput THEN outputs \cup {a} ELSE outputs
  /\ UNCHANGED <<started, verdict>>

Complete ==
  /\ verdict = "none"
  /\ settled = Agent
  /\ verdict' = "completed"
  /\ UNCHANGED <<started, settled, outputs>>

Fail ==
  /\ verdict = "none"
  /\ verdict' = "failed"
  /\ UNCHANGED <<started, settled, outputs>>

Next ==
  \/ \E S \in SUBSET Agent : StartAgents(S)
  \/ \E a \in Agent, hasOutput \in BOOLEAN : Settle(a, hasOutput)
  \/ Complete
  \/ Fail

Spec == Init /\ [][Next]_vars

=============================================================================

--------------------------- MODULE DeploymentStages ---------------------------
(***************************************************************************)
(* What the control plane promises of an agent's deployments               *)
(* (src/server/agents/deployment-state.ts): each one moves forward along   *)
(* ALLOWED_FORWARD_TRANSITIONS to "ready" or "failed" and stays there, and *)
(* a new one is opened only when no other is under way, or in place of the *)
(* one that is (a runner replacement).                                     *)
(***************************************************************************)
EXTENDS Naturals

CONSTANT Deployments

VARIABLE stage

ALLOWED_FORWARD_TRANSITIONS ==
    [none |-> {},
     pending |-> {"provisioning_runner", "configuring_hermes", "failed"},
     provisioning_runner |-> {"configuring_hermes", "failed"},
     configuring_hermes |-> {"starting_gateway", "failed"},
     starting_gateway |-> {"verifying_model", "connecting_telegram", "failed"},
     verifying_model |-> {"connecting_telegram", "failed"},
     connecting_telegram |-> {"ready", "failed"},
     ready |-> {},
     failed |-> {}]

UnderWay(d) == "failed" \in ALLOWED_FORWARD_TRANSITIONS[stage[d]]

Later == {"provisioning_runner", "configuring_hermes", "starting_gateway", "verifying_model",
          "connecting_telegram", "ready", "failed"}

Init == stage = [d \in Deployments |-> IF d = 1 THEN "pending" ELSE "none"]

\* checkAgentDeploymentTransition
Move(d, next) ==
    /\ next \in ALLOWED_FORWARD_TRANSITIONS[stage[d]]
    /\ stage' = [stage EXCEPT ![d] = next]

Open(n) ==
    /\ stage[n] = "none"
    /\ \A d \in Deployments : ~UnderWay(d)
    /\ stage' = [stage EXCEPT ![n] = "pending"]

Supersede(d, n) ==
    /\ UnderWay(d)
    /\ stage[n] = "none"
    /\ stage' = [stage EXCEPT ![d] = "failed", ![n] = "pending"]

Next ==
    \/ \E d \in Deployments : Open(d) \/ \E next \in Later : Move(d, next)
    \/ \E d, n \in Deployments : Supersede(d, n)

Spec == Init /\ [][Next]_stage
=============================================================================

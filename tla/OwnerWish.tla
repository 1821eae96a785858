------------------------------- MODULE OwnerWish -------------------------------
(***************************************************************************)
(* What looking after a deployed agent promises its owner: it serves or    *)
(* comes to rest only as the owner wishes; a workload that is to be        *)
(* replaced is taken down before another is launched; an agent that is     *)
(* given up is taken down too, and stays given up until the owner asks.    *)
(***************************************************************************)
EXTENDS Naturals

VARIABLES
    wish,     \* what the owner wants: "running" or "stopped"
    phase,    \* where the agent is
    requests  \* how often the owner has asked

vars == <<wish, phase, requests>>

Phases == {"served", "ending", "launching", "down", "failing", "failed", "away"}

Init == wish = "running" /\ phase = "served" /\ requests = 0

\* The owner.  A revised agent that is to be down is taken for down; one that is given
\* up stays so; a withdrawn credential gives up any agent.
Ask(wished, next) ==
    phase # "away" /\ wish' = wished /\ phase' = next /\ requests' = requests + 1
Start == Ask("running", "launching")
Restart == Ask("running", "ending")
Stop == Ask("stopped", "ending")
Delete == Ask("stopped", "down")
Revise == Ask(wish, IF wish = "stopped" THEN "down"
                    ELSE IF phase \in {"failing", "failed"} THEN phase ELSE "ending")
Withdraw == Ask(wish, IF phase = "down" THEN "failed" ELSE "failing")

\* What happens by itself.
Serve == wish = "running" /\ phase = "launching" /\ phase' = "served"
Fail == wish = "running" /\ phase \in {"served", "launching"} /\ phase' \in {"ending", "launching"}
GiveUp == wish = "running" /\ phase \in {"served", "launching", "ending"} /\ phase' = "failing"
TakeDown ==
    \/ phase = "ending" /\ phase' = IF wish = "running" THEN "launching" ELSE "down"
    \/ phase = "failing" /\ phase' = IF wish = "running" THEN "failed" ELSE "ending"
Leave == phase # "away" /\ phase' = "away"
Settle == wish = "running" /\ phase = "away" /\ phase' = "served"

Owner == Start \/ Restart \/ Stop \/ Delete \/ Revise \/ Withdraw
Keeper == (Serve \/ Fail \/ GiveUp \/ TakeDown \/ Leave \/ Settle) /\ UNCHANGED <<wish, requests>>
Spec == Init /\ [][Owner \/ Keeper]_vars
===============================================================================

------------------------------- MODULE OneEffect -------------------------------
(***************************************************************************)
(* What a Proposed Action promises the founder: nothing happens outside    *)
(* before the founder has approved it and the approval was taken up; it    *)
(* is asked for once at most, and never again after the action was called  *)
(* back or its outcome recorded; and the outcome that is recorded is true  *)
(* or says that it is uncertain.                                           *)
(***************************************************************************)
EXTENDS Naturals

CONSTANT Actions

VARIABLES
    stage,   \* how far the action has got
    effect,  \* what became of it outside
    outcome  \* what the founder is told

vars == <<stage, effect, outcome>>

Stages == {"pending", "approved", "permitted", "dropped", "recalled", "closed"}

Init == /\ stage = [a \in Actions |-> "pending"]
        /\ effect = [a \in Actions |-> "unasked"]
        /\ outcome = [a \in Actions |-> "none"]

Move(a, from, to) == stage[a] = from /\ stage' = [stage EXCEPT ![a] = to]
Approve(a) == Move(a, "pending", "approved") /\ UNCHANGED <<effect, outcome>>
Permit(a) == Move(a, "approved", "permitted") /\ UNCHANGED <<effect, outcome>>

\* One change of mind may withdraw several actions; what it finds permitted is called back.
Withdraw(some) ==
    /\ stage' = [a \in Actions |->
           IF a \notin some THEN stage[a]
           ELSE IF stage[a] = "permitted" THEN "recalled" ELSE "dropped"]
    /\ \A a \in some : stage[a] \in {"pending", "approved", "permitted"}
    /\ UNCHANGED <<effect, outcome>>

Ask(a) ==
    /\ stage[a] = "permitted" /\ effect[a] = "unasked"
    /\ effect' = [effect EXCEPT ![a] = "asked"]
    /\ UNCHANGED <<stage, outcome>>

\* The outside world decides, whenever it likes.
Happen(a, fate) ==
    /\ effect[a] = "asked"
    /\ effect' = [effect EXCEPT ![a] = fate]
    /\ UNCHANGED <<stage, outcome>>

True(a, told) ==
    \/ told = "succeeded" /\ effect[a] = "taken"
    \/ told = "failed" /\ effect[a] = "refused"
    \/ told = "outcome_uncertain"

Close(a, told) ==
    /\ stage[a] \in {"permitted", "recalled"} /\ True(a, told)
    /\ stage' = [stage EXCEPT ![a] = "closed"]
    /\ outcome' = [outcome EXCEPT ![a] = told]
    /\ UNCHANGED effect

Next == \/ \E a \in Actions :
               \/ Approve(a) \/ Permit(a) \/ Ask(a)
               \/ \E fate \in {"taken", "refused"} : Happen(a, fate)
               \/ \E told \in {"succeeded", "failed", "outcome_uncertain"} : Close(a, told)
        \/ \E some \in SUBSET Actions : Withdraw(some)
Spec == Init /\ [][Next]_vars
===============================================================================

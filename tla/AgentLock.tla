------------------------------ MODULE AgentLock ------------------------------
(***************************************************************************)
(* What the runner promises of the calls on one agent: they are served one *)
(* at a time, in the order they came.  A call may give up while it waits.  *)
(***************************************************************************)
EXTENDS Naturals

CONSTANT Calls

VARIABLES
    place,   \* "out" before the call, "waiting", "in", "left"
    ticket   \* order of arrival, 0 before the call

vars == <<place, ticket>>

Init ==
    /\ place = [c \in Calls |-> "out"]
    /\ ticket = [c \in Calls |-> 0]

Join(c) ==
    /\ place[c] = "out"
    /\ place' = [place EXCEPT ![c] = "waiting"]
    /\ ticket' = [ticket EXCEPT ![c] = ticket'[c]]
    /\ \A d \in Calls : place[d] # "out" => ticket[d] < ticket'[c]

Enter(c) ==
    /\ place[c] = "waiting"
    /\ \A d \in Calls : place[d] # "in"
    /\ \A d \in Calls : place[d] = "waiting" => ticket[c] <= ticket[d]
    /\ place' = [place EXCEPT ![c] = "in"]
    /\ UNCHANGED ticket

Leave(c) ==
    /\ place[c] \in {"waiting", "in"}
    /\ place' = [place EXCEPT ![c] = "left"]
    /\ UNCHANGED ticket

Next == \E c \in Calls : Join(c) \/ Enter(c) \/ Leave(c)

Spec == Init /\ [][Next]_vars
=============================================================================

------------------------------ MODULE Relocation ------------------------------
(***************************************************************************)
(* What moving agents off a bad runner promises: a move goes through its   *)
(* phases once and in order, whoever works on it; the agents of the old     *)
(* runner move together, in one step, after its authority is gone for good; *)
(* and no runner has two moves under way.                                  *)
(***************************************************************************)
EXTENDS Naturals

CONSTANTS Agents, Moves, Nowhere

Places == {0} \cup Moves  \* move m takes agents to place m

VARIABLES
    phase,     \* "unopened", "preparing", "fenced", "moved", "done", "abandoned"
    from,      \* the place each move empties
    place,     \* where each agent is
    authority  \* "none" before a place may command, "held", "lost"

vars == <<phase, from, place, authority>>

Underway(m) == phase[m] \in {"preparing", "fenced", "moved"}

Init ==
    /\ phase = [m \in Moves |-> "unopened"]
    /\ from \in [Moves -> Places]
    /\ place \in [Agents -> {0, Nowhere}]
    /\ authority = [p \in Places |-> IF p = 0 THEN "held" ELSE "none"]

Become(m, p) == phase' = [phase EXCEPT ![m] = p]

Begin(m) ==
    /\ phase[m] = "unopened"
    /\ Become(m, "preparing")
    /\ from' = [from EXCEPT ![m] = from'[m]]
    /\ from'[m] \in Places
    /\ \A n \in Moves : Underway(n) => from[n] # from'[m]
    /\ UNCHANGED <<place, authority>>

Fence(m) ==
    /\ phase[m] = "preparing"
    /\ Become(m, "fenced")
    /\ authority' = [authority EXCEPT ![from[m]] = "lost"]
    /\ UNCHANGED <<from, place>>

Move(m) ==
    /\ phase[m] = "fenced"
    /\ authority[from[m]] = "lost"
    /\ Become(m, "moved")
    /\ place' = [a \in Agents |-> IF place[a] = from[m] THEN m ELSE place[a]]
    /\ UNCHANGED <<from, authority>>

Finish(m) ==
    /\ phase[m] = "moved"
    /\ \A a \in Agents : place[a] # from[m]
    /\ Become(m, "done")
    /\ UNCHANGED <<from, place, authority>>

\* A move that is given up takes the authority of its unused place with it, or not.
Abandon(m) ==
    /\ Underway(m)
    /\ Become(m, "abandoned")
    /\ authority' \in {authority, [authority EXCEPT ![m] = "lost"]}
    /\ UNCHANGED <<from, place>>

Gain(p) ==
    /\ authority[p] = "none"
    /\ authority' = [authority EXCEPT ![p] = "held"]
    /\ UNCHANGED <<phase, from, place>>

Lose(p) ==
    /\ authority' = [authority EXCEPT ![p] = "lost"]
    /\ UNCHANGED <<phase, from, place>>

Arrive(a, p) ==
    /\ place[a] = Nowhere
    /\ place' = [place EXCEPT ![a] = p]
    /\ UNCHANGED <<phase, from, authority>>

Leave(a) ==
    /\ place' = [place EXCEPT ![a] = Nowhere]
    /\ UNCHANGED <<phase, from, authority>>

Next ==
    \/ \E m \in Moves : Begin(m) \/ Fence(m) \/ Move(m) \/ Finish(m) \/ Abandon(m)
    \/ \E p \in Places : Gain(p) \/ Lose(p)
    \/ \E a \in Agents : Leave(a) \/ \E p \in Places : Arrive(a, p)

Spec == Init /\ [][Next]_vars
=============================================================================

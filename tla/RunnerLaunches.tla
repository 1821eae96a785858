---------------------------- MODULE RunnerLaunches ----------------------------
(***************************************************************************)
(* The calls a runner serves for one agent: managed launches (start and     *)
(* restart with a launch spec), stop and cleanup                           *)
(* (src/runner-service/docker.ts, class ManualRunnerDocker).               *)
(*                                                                         *)
(* Calls queue on a chain of promises kept in the map agentLocks.  A launch *)
(* has a token with one deadline for waiting and working; a stop or cleanup *)
(* cancels the tokens it finds, synchronously, before it queues.  Docker   *)
(* commands are aborted with the token and may fail.                       *)
(*                                                                         *)
(* A container is named after the call that created it.  Time is only the  *)
(* fact that a deadline has passed; deadlines pass in the order of arrival *)
(* because every launch has the same budget.                               *)
(***************************************************************************)
EXTENDS Naturals, FiniteSets

CONSTANTS
    Calls,    \* bound: the calls made on the agent, each made once
    NoCall,   \* no entry in agentLocks; no container selected
    Targets,  \* config revisions the control plane may ask for
    NoTarget, \* the agent root does not exist
    Prompt,   \* stops, cleanups and removals end within a waiting launch's budget
    Faults    \* may docker commands and projections fail?

ASSUME CallsAssumption ==
    IsFiniteSet(Calls) /\ NoCall \notin Calls /\ NoTarget \notin Targets
ASSUME SwitchesAssumption == Prompt \in BOOLEAN /\ Faults \in BOOLEAN

VARIABLES
    kind,      \* what each call is, "none" before it is made
    target,    \* the config revision a launch asks for
    order,     \* order of arrival (acceptedAt, deadlineAt)
    pc,        \* the await each call is suspended at
    tail,      \* agentLocks.get(agentId): the call whose chained promise it is
    blockers,  \* the calls whose release the promise "previous" waits for
    reason,    \* token.terminalReason
    expired,   \* the launch's deadline has passed
    seen,      \* the listed containers a call has yet to act on
    selected,  \* the winner a launch reuses
    result,    \* how each call ended
    container, \* Docker's containers of the agent, by creating call
    root,      \* the revision projected under the agent root
    late       \* launches that ended while their projection was still writing

lock == <<tail, blockers, order>>
launch == <<reason, expired, seen, selected>>
host == <<container, root, late>>
vars == <<kind, target, pc, result, lock, launch, host>>

\* The awaits a launch's deadline interrupts (runLaunchStep).
Bounded == {"waiting", "projecting", "listing", "removing", "running", "inspecting"}
\* The awaits it does not: rm --force after a failed inspection; a removal cut to
\* the remaining time.
Unbounded == {"discarding", "cleaning"}

TypeOK ==
    /\ kind \in [Calls -> {"none", "start", "stop", "cleanup"}]
    /\ target \in [Calls -> Targets]
    /\ order \in [Calls -> Nat]
    /\ pc \in [Calls -> {"none", "acting", "done"} \cup Bounded \cup Unbounded]
    /\ tail \in Calls \cup {NoCall}
    /\ blockers \in [Calls -> SUBSET Calls]
    /\ reason \in [Calls -> {"none", "cancelled", "timeout"}]
    /\ expired \in [Calls -> BOOLEAN]
    /\ seen \in [Calls -> SUBSET Calls]
    /\ selected \in [Calls -> Calls \cup {NoCall}]
    /\ result \in [Calls -> {"none", "ok", "cancelled", "timeout", "failed"}]
    /\ container \in [Calls -> {"absent", "running", "stopped"}]
    /\ root \in Targets \cup {NoTarget}
    /\ late \in SUBSET Calls
    /\ \A c \in Calls : (result[c] = "none") = (pc[c] # "done")

Init ==
    /\ kind = [c \in Calls |-> "none"]
    /\ target \in [Calls -> Targets]
    /\ order = [c \in Calls |-> 0]
    /\ pc = [c \in Calls |-> "none"]
    /\ tail = NoCall
    /\ blockers = [c \in Calls |-> {}]
    /\ reason = [c \in Calls |-> "none"]
    /\ expired = [c \in Calls |-> FALSE]
    /\ seen = [c \in Calls |-> {}]
    /\ selected = [c \in Calls |-> NoCall]
    /\ result = [c \in Calls |-> "none"]
    /\ container = [c \in Calls |-> "absent"]
    /\ root = NoTarget
    /\ late = {}

(* Operators named Mutant... are slips the code could have had, one for a property; *)
(* each stands before the definition it deforms and is used nowhere.               *)

Live(c) == pc[c] \notin {"none", "done"}
LiveLaunch(c) == kind[c] = "start" /\ Live(c)
Existing == {k \in Calls : container[k] # "absent"}
Goto(c, label) == pc' = [pc EXCEPT ![c] = label]

-----------------------------------------------------------------------------
(* The per-agent lock *)

\* The launches whose tokens a stop or cleanup cancels: cancelActiveLaunches.
Cancelled(k) ==
    [d \in Calls |-> IF k # "start" /\ LiveLaunch(d) THEN "cancelled" ELSE reason[d]]

\* A call registers its token or cancels the registered ones, reads the lock's
\* promise and replaces it by its own, without an await in between.
Arrive(c, k) ==
    /\ pc[c] = "none"
    /\ Goto(c, "waiting")
    /\ kind' = [kind EXCEPT ![c] = k]
    /\ order' = [order EXCEPT ![c] = Cardinality({d \in Calls : pc[d] # "none"}) + 1]
    /\ blockers' = [blockers EXCEPT ![c] =
                      IF tail = NoCall THEN {} ELSE blockers[tail] \cup {tail}]
    /\ tail' = c
    /\ reason' = Cancelled(k)
    /\ UNCHANGED <<target, result, expired, seen, selected, host>>

MutantGrantedEarly(c) ==
    \A b \in blockers[c] : pc[b] \in {"done"} \cup Unbounded

MutantGrantedToStop(c) ==
    \A b \in blockers[c] : pc[b] = "done" \/ (kind[c] # "start" /\ reason[b] = "cancelled")

Granted(c) == \A b \in blockers[c] : pc[b] = "done"

MutantReleasedTail(c) == NoCall

\* withAgentLock's finally: delete the entry if it is still this call's promise.
ReleasedTail(c) == IF tail = c THEN NoCall ELSE tail

End(c, how) ==
    /\ Goto(c, "done")
    /\ result' = [result EXCEPT ![c] = how]
    /\ tail' = ReleasedTail(c)
    /\ UNCHANGED <<kind, target, blockers, order>>

Terminated(c) == reason[c] # "none" \/ expired[c]

MutantVerdict(c) == reason[c]

\* RunnerLaunchCancelledError, RunnerLaunchAcceptanceTimeoutError, or the error.
Verdict(c) ==
    IF reason[c] # "none" THEN reason[c]
    ELSE IF expired[c] THEN "timeout" ELSE "failed"

\* previous has resolved; a launch that was cancelled meanwhile gives up instead.
Enter(c) ==
    /\ pc[c] = "waiting"
    /\ Granted(c)
    /\ IF kind[c] = "start"
         THEN ~Terminated(c) /\ Goto(c, "projecting")
         ELSE Goto(c, "listing")
    /\ UNCHANGED <<kind, target, result, lock, launch, host>>

\* The timer of withLaunchDeadline fires (it even overwrites "cancelled"), or a
\* removal outlives the deadline.  Timers of earlier launches fired before.
DeadlinePasses(c) ==
    /\ LiveLaunch(c)
    /\ ~expired[c]
    /\ \A d \in Calls : LiveLaunch(d) /\ order[d] < order[c] => expired[d] /\ pc[d] = "discarding"
    /\ pc[c] = "waiting" => ~Prompt /\ ~Granted(c)
    /\ expired' = [expired EXCEPT ![c] = TRUE]
    /\ reason' = [reason EXCEPT ![c] = IF pc[c] \in Bounded THEN "timeout" ELSE @]
    /\ UNCHANGED <<kind, target, pc, result, lock, seen, selected, host>>

-----------------------------------------------------------------------------
(* Launches: acceptHermesLaunch *)

\* projectHermesHome, then image inspect, then docker ps and inspect.
Project(c) ==
    /\ pc[c] = "projecting"
    /\ ~Terminated(c)
    /\ root' = target[c]
    /\ Goto(c, "listing")
    /\ UNCHANGED <<kind, target, result, lock, launch, container, late>>

MutantWinners(c) == {k \in Calls : container[k] = "running" /\ root = target[c]}

\* findExactRunningWinner: running containers that carry the asked-for revision,
\* while the projected revision still is that one.
Winners(c) ==
    {k \in Calls : container[k] = "running" /\ target[k] = target[c] /\ root = target[c]}

ListForLaunch(c) ==
    /\ kind[c] = "start"
    /\ pc[c] = "listing"
    /\ ~Terminated(c)
    /\ \/ /\ Winners(c) = {}
          /\ seen' = [seen EXCEPT ![c] = Existing]
          /\ UNCHANGED selected
       \/ \E w \in Winners(c) :
             /\ \A k \in Winners(c) : order[w] <= order[k]
             /\ selected' = [selected EXCEPT ![c] = w]
             /\ seen' = [seen EXCEPT ![c] = Existing \ {w}]
    /\ Goto(c, "removing")
    /\ UNCHANGED <<kind, target, result, lock, reason, expired, host>>

\* removeSurplusContainers: stop and rm of one container.
RemoveSurplus(c, k) ==
    /\ pc[c] = "removing"
    /\ ~Terminated(c)
    /\ k \in seen[c]
    /\ container[k] # "absent"
    /\ container' = [container EXCEPT ![k] = "absent"]
    /\ seen' = [seen EXCEPT ![c] = @ \ {k}]
    /\ UNCHANGED <<kind, target, pc, result, lock, reason, expired, selected, root, late>>

\* All surplus is gone: the winner is accepted, or docker run is issued.
AcceptWinner(c) ==
    /\ pc[c] = "removing"
    /\ ~Terminated(c)
    /\ seen[c] = {}
    /\ selected[c] # NoCall
    /\ End(c, "ok")
    /\ UNCHANGED <<launch, host>>

Run(c) ==
    /\ pc[c] = "removing"
    /\ ~Terminated(c)
    /\ seen[c] = {}
    /\ selected[c] = NoCall
    /\ Goto(c, "running")
    /\ UNCHANGED <<kind, target, result, lock, launch, host>>

Created(c) ==
    /\ pc[c] = "running"
    /\ ~Terminated(c)
    /\ container' = [container EXCEPT ![c] = "running"]
    /\ Goto(c, "inspecting")
    /\ UNCHANGED <<kind, target, result, lock, launch, root, late>>

\* Both inspections succeed, and assertProjectedRevisionMatchesLaunchSpec.
AcceptCreated(c) ==
    /\ pc[c] = "inspecting"
    /\ ~Terminated(c)
    /\ container[c] # "absent"
    /\ root = target[c]
    /\ selected' = [selected EXCEPT ![c] = c]
    /\ End(c, "ok")
    /\ UNCHANGED <<reason, expired, seen, host>>

MutantBroken(c) == Terminated(c)

\* A launch leaves its normal path: terminated, a docker command failed, or what it
\* listed or created is not there any more.
Broken(c) ==
    \/ Terminated(c)
    \/ Faults /\ pc[c] # "waiting"
    \/ pc[c] = "removing" /\ \E k \in seen[c] : container[k] = "absent"
    \/ pc[c] = "inspecting" /\ (container[c] = "absent" \/ root # target[c])

\* Before the lock is held: the deadline interrupts the wait, a cancellation does not.
GiveUpWaiting(c) ==
    /\ LiveLaunch(c)
    /\ pc[c] = "waiting"
    /\ Terminated(c)
    /\ Granted(c) \/ expired[c]
    /\ End(c, Verdict(c))
    /\ UNCHANGED <<launch, host>>

\* The projection takes no signal: a deadline leaves it writing in the background,
\* a cancellation is noticed when it has written.
BreakProjection(c) ==
    /\ pc[c] = "projecting"
    /\ Broken(c)
    /\ \/ expired[c] /\ late' = late \cup {c} /\ UNCHANGED root
       \/ root' = target[c] /\ UNCHANGED late
       \/ Faults /\ UNCHANGED <<root, late>>
    /\ End(c, Verdict(c))
    /\ UNCHANGED <<launch, container>>

\* An aborted docker command may have done its work, half of it, or nothing.
BreakRemoval(c) ==
    /\ kind[c] = "start"
    /\ pc[c] \in {"listing", "removing"}
    /\ Broken(c)
    /\ \/ UNCHANGED container
       \/ \E k \in seen[c], state \in {"stopped", "absent"} :
             /\ container[k] = "running"
             /\ container' = [container EXCEPT ![k] = state]
    /\ End(c, Verdict(c))
    /\ UNCHANGED <<launch, root, late>>

BreakRun(c) ==
    /\ pc[c] = "running"
    /\ Broken(c)
    /\ \E state \in {"absent", "running"} : container' = [container EXCEPT ![c] = state]
    /\ Goto(c, "cleaning")
    /\ UNCHANGED <<kind, target, result, lock, launch, root, late>>

BreakInspection(c) ==
    /\ pc[c] = "inspecting"
    /\ Broken(c)
    /\ Goto(c, "discarding")
    /\ UNCHANGED <<kind, target, result, lock, launch, host>>

\* The removals of the container the launch made: cleanupKnownCreatedContainer has
\* only the time that is left; the one after an inspection has docker's own limit.
\* Errors of both are swallowed.
Discard(c) ==
    /\ pc[c] \in Unbounded
    /\ \/ container' = [container EXCEPT ![c] = "absent"]
       \/ /\ Faults \/ (pc[c] = "cleaning" /\ expired[c])
          /\ UNCHANGED container
    /\ End(c, Verdict(c))
    /\ UNCHANGED <<launch, root, late>>

\* The projection an expired launch left behind gets to the end, or fails.
LateProjection(c) ==
    /\ c \in late
    /\ late' = late \ {c}
    /\ root' \in {root, target[c]}
    /\ UNCHANGED <<kind, target, pc, result, lock, launch, container>>

-----------------------------------------------------------------------------
(* Stop and cleanup *)

List(c) ==
    /\ kind[c] \in {"stop", "cleanup"}
    /\ pc[c] = "listing"
    /\ seen' = [seen EXCEPT ![c] = Existing]
    /\ Goto(c, "acting")
    /\ UNCHANGED <<kind, target, result, lock, reason, expired, selected, host>>

\* docker stop of what was listed running, or docker rm --force of what was listed.
Act(c, k) ==
    /\ pc[c] = "acting"
    /\ k \in seen[c]
    /\ container[k] # "absent"
    /\ container' = [container EXCEPT ![k] = IF kind[c] = "stop" THEN "stopped" ELSE "absent"]
    /\ seen' = [seen EXCEPT ![c] = @ \ {k}]
    /\ UNCHANGED <<kind, target, pc, result, lock, reason, expired, selected, root, late>>

FinishStop(c) ==
    /\ kind[c] = "stop"
    /\ pc[c] = "acting"
    /\ seen[c] = {}
    /\ End(c, "ok")
    /\ UNCHANGED <<launch, host>>

\* removeHermesAgentRoot, after all containers are removed.
EraseRoot(c) ==
    /\ kind[c] = "cleanup"
    /\ pc[c] = "acting"
    /\ seen[c] = {}
    /\ root' = NoTarget
    /\ End(c, "ok")
    /\ UNCHANGED <<launch, container, late>>

\* One command of the Promise.all fails; the others may have been carried out.
FailAct(c) ==
    /\ kind[c] \in {"stop", "cleanup"}
    /\ pc[c] \in {"listing", "acting"}
    /\ Faults \/ \E k \in seen[c] : container[k] = "absent"
    /\ \E part \in SUBSET seen[c] :
          container' = [k \in Calls |->
             IF k \in part /\ container[k] # "absent"
               THEN IF kind[c] = "stop" THEN "stopped" ELSE "absent"
               ELSE container[k]]
    /\ End(c, "failed")
    /\ UNCHANGED <<launch, root, late>>

-----------------------------------------------------------------------------
LaunchStep(c) ==
    \/ Project(c)
    \/ ListForLaunch(c)
    \/ \E k \in Calls : RemoveSurplus(c, k)
    \/ AcceptWinner(c)
    \/ Run(c)
    \/ Created(c)
    \/ AcceptCreated(c)
    \/ GiveUpWaiting(c)
    \/ BreakProjection(c)
    \/ BreakRemoval(c)
    \/ BreakRun(c)
    \/ BreakInspection(c)
    \/ Discard(c)

StopStep(c) ==
    \/ List(c)
    \/ \E k \in Calls : Act(c, k)
    \/ FinishStop(c)
    \/ EraseRoot(c)
    \/ FailAct(c)

Next ==
    \E c \in Calls :
        \/ \E k \in {"start", "stop", "cleanup"} : Arrive(c, k)
        \/ Enter(c)
        \/ DeadlinePasses(c)
        \/ LaunchStep(c)
        \/ StopStep(c)
        \/ LateProjection(c)

Spec == Init /\ [][Next]_vars

\* Every docker command returns (DOCKER_CLI_TIMEOUT_MS), and so does every step.
Fairness == \A c \in Calls : WF_vars(Enter(c) \/ LaunchStep(c) \/ StopStep(c))

FairSpec == Spec /\ Fairness

-----------------------------------------------------------------------------
(* Properties *)

Inside(c) == Live(c) /\ pc[c] # "waiting"

\* Two calls are never past the lock together: the second launch of a duplicate
\* start lists what the first one made, a stop lists what a cancelled launch left.
LockExclusive == \A c, d \in Calls : Inside(c) /\ Inside(d) => c = d

\* A successful launch leaves one container of the agent, running and carrying the
\* revision it was asked for, whatever failed or timed out launches left behind.
AcceptedIsOnly ==
    [][\A c \in Calls :
         kind[c] = "start" /\ result[c] # "ok" /\ result'[c] = "ok" =>
            \E w \in Calls :
               /\ Existing = {w}
               /\ container[w] = "running"
               /\ target[w] = target[c]]_vars

NothingSince(c) == \A d \in Calls : order[d] <= order[c]

\* After a successful stop or cleanup, and until the next call, no container of the
\* agent runs: launches the call cancelled leave nothing behind it.
StopWins ==
    \A c \in Calls :
        kind[c] \in {"stop", "cleanup"} /\ result[c] = "ok" /\ NothingSince(c) =>
            \A k \in Calls : container[k] # "running"

\* tests/unit/runner-service.test.ts:582 ("serializes duplicate managed starts"): two
\* launches of the agent are never under way together.
SerializedStarts ==
    \A c, d \in Calls :
        kind[c] = "start" /\ kind[d] = "start" /\ Inside(c) /\ Inside(d) => c = d

\* Every call is answered: the chain of promises never leaves one waiting.
CallsEnd == \A c \in Calls : pc[c] = "waiting" ~> pc[c] = "done"

\* The abstract lock: served one at a time, in the order of arrival.
Place ==
    [c \in Calls |->
        IF pc[c] = "none" THEN "out"
        ELSE IF pc[c] = "waiting" THEN "waiting"
        ELSE IF pc[c] = "done" THEN "left" ELSE "in"]

Lock == INSTANCE AgentLock WITH place <- Place, ticket <- order

ServedInOrder == Lock!Spec
=============================================================================

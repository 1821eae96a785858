--------------------------- MODULE AgentDeployment ---------------------------
(***************************************************************************)
(* Automatic deployment of one agent                                       *)
(* (src/server/agents/agent-deployment-reconciler.ts, with the owner's     *)
(* Retry, Stop and Delete and the runner replacement that meet it).        *)
(*                                                                         *)
(* Workers (wakeup callbacks, cron runs) claim the deployment row under a  *)
(* lease, act on a runner without any lock held, and write the outcome     *)
(* only if the row still carries their lease, their stage and a wanted     *)
(* agent.  A worker may stall past its lease, die, or get its answer late. *)
(*                                                                         *)
(* Clock values are left out: a due time, a lease and the gateway deadline *)
(* pass at any moment, so a claim waits only for an expired lease.  A call *)
(* to the runner is one atomic effect somewhere between request and answer *)
(* (RunnerLaunches looks inside it).                                       *)
(***************************************************************************)
EXTENDS Naturals

CONSTANTS
    Workers, NoWorker,  \* reconciling processes; no lease
    Runners, NoRunner,  \* hosts the agent may be assigned to
    MaxDeployments,     \* bound: deployments of the agent
    MaxOps,             \* bound: operations its runners ever accept
    MaxFaults,          \* bound: deaths, missed deadlines, leases that expire under a worker
    RetryLimit,         \* STAGE_RETRY_LIMITS, one number for the stages that have one
    MaxRecoveries,      \* MAX_REPLACEMENTS_PER_DEPLOYMENT
    CanaryModes,        \* values modelCanaryEnabled may return
    OwnerActs           \* what the owner does: a subset of {"retry", "stop", "delete"}

ASSUME SetsAssumption == NoWorker \notin Workers /\ NoRunner \notin Runners
ASSUME BoundsAssumption ==
    /\ MaxDeployments \in Nat \ {0} /\ MaxOps \in Nat /\ MaxFaults \in Nat
    /\ RetryLimit \in Nat \ {0} /\ MaxRecoveries \in Nat
    /\ CanaryModes \subseteq BOOLEAN

Deployments == 1..MaxDeployments

VARIABLES
    \* agent_deployments, one row for each deployment ("none" before it is made)
    stage, attempts, op, canary, lease,
    expired,     \* lease_expires_at has passed
    overdue,     \* GATEWAY_START_DEADLINE_MS has passed since the operation was accepted
    recovering,  \* an open runner_replacements row is triggered by the deployment
    recoveries,  \* how many there have been
    \* agents
    wanted,      \* desired_status = 'running'
    status, home, deleted,
    billed,      \* an agent_usage_periods row is open
    \* workers
    pc, claim,
    target,      \* the runner a call is under way to
    got,         \* the operation the runner accepted
    \* the owner's Stop or Delete request
    owner,
    \* runners
    runs,        \* the operation of the agent's workload, 0 when there is none
    ready,       \* its gateway, API and Telegram connection are up
    ops,         \* operations accepted so far
    dispatched,  \* canaries that reached the model, for each deployment
    faults

row == <<stage, attempts, op, canary, lease, expired, overdue, recovering, recoveries>>
agent == <<wanted, status, home, deleted, billed>>
worker == <<pc, claim, target, got>>
host == <<runs, ready, ops, dispatched>>
vars == <<row, agent, worker, owner, host, faults>>

Stages == {"pending", "provisioning_runner", "configuring_hermes", "starting_gateway",
           "verifying_model", "connecting_telegram", "ready", "failed"}
Canaries == {"not_started", "started", "passed", "failed", "outcome_unknown", "skipped"}
Stoppable == {"starting", "running", "restarting", "error"}

Labels == {"idle", "acting", "calling", "accepted", "confirmed", "dispatching", "passed",
           "refused", "doubtful", "undispatched", "retrying", "recovering", "cleaning",
           "quitting", "leaving", "failing"}

Claims == [dep : Deployments, stage : Stages, attempts : 0..RetryLimit, op : 0..MaxOps,
           canary : Canaries, home : Runners \cup {NoRunner}]

RowType ==
    /\ stage \in [Deployments -> Stages \cup {"none"}]
    /\ attempts \in [Deployments -> 0..RetryLimit]
    /\ op \in [Deployments -> 0..MaxOps]
    /\ canary \in [Deployments -> Canaries]
    /\ lease \in [Deployments -> Workers \cup {NoWorker}]
    /\ expired \in [Deployments -> BOOLEAN]
    /\ overdue \in [Deployments -> BOOLEAN]
    /\ recovering \in [Deployments -> BOOLEAN]
    /\ recoveries \in [Deployments -> 0..MaxRecoveries]

AgentType ==
    /\ wanted \in BOOLEAN /\ deleted \in BOOLEAN /\ billed \in BOOLEAN
    /\ status \in Stoppable \cup {"stopped"}
    /\ home \in Runners \cup {NoRunner}

WorkerType ==
    /\ pc \in [Workers -> Labels]
    /\ claim \in [Workers -> Claims]
    /\ target \in [Workers -> Runners \cup {NoRunner}]
    /\ got \in [Workers -> 0..MaxOps]

HostType ==
    /\ runs \in [Runners -> 0..MaxOps]
    /\ ready \in [Runners -> BOOLEAN]
    /\ ops \in 0..MaxOps
    /\ dispatched \in [Deployments -> Nat]

TypeOK ==
    /\ RowType /\ AgentType /\ WorkerType /\ HostType
    /\ owner \in [act : {"none", "stop", "delete"}, pc : {"idle", "calling", "settling"},
                  cancelled : BOOLEAN, runner : Runners \cup {NoRunner}]
    /\ faults \in 0..MaxFaults

NoClaim == [dep |-> 1, stage |-> "pending", attempts |-> 0, op |-> 0,
            canary |-> "not_started", home |-> NoRunner]
NoRequest == [act |-> "none", pc |-> "idle", cancelled |-> FALSE, runner |-> NoRunner]

\* createReadyAgent: a stopped agent that is wanted, and its first deployment.
Init ==
    /\ stage = [d \in Deployments |-> IF d = 1 THEN "pending" ELSE "none"]
    /\ attempts = [d \in Deployments |-> 0]
    /\ op = [d \in Deployments |-> 0]
    /\ canary = [d \in Deployments |-> "not_started"]
    /\ lease = [d \in Deployments |-> NoWorker]
    /\ expired = [d \in Deployments |-> FALSE]
    /\ overdue = [d \in Deployments |-> FALSE]
    /\ recovering = [d \in Deployments |-> FALSE]
    /\ recoveries = [d \in Deployments |-> 0]
    /\ wanted = TRUE /\ deleted = FALSE /\ billed = FALSE
    /\ status = "stopped" /\ home = NoRunner
    /\ pc = [w \in Workers |-> "idle"]
    /\ claim = [w \in Workers |-> NoClaim]
    /\ target = [w \in Workers |-> NoRunner]
    /\ got = [w \in Workers |-> 0]
    /\ owner = NoRequest
    /\ runs = [r \in Runners |-> 0]
    /\ ready = [r \in Runners |-> FALSE]
    /\ ops = 0
    /\ dispatched = [d \in Deployments |-> 0]
    /\ faults = 0

(* Operators named Mutant... are slips the code could have had, one for a property; *)
(* each stands before the definition it deforms and is used nowhere.               *)

Made(d) == stage[d] # "none"
Latest(d) == Made(d) /\ \A e \in Deployments : Made(e) => e <= d
Active(d) == stage[d] \notin {"none", "ready", "failed"}

MutantSuperseded(x) == stage[x]

Superseded(x) == IF Active(x) THEN "failed" ELSE stage[x]

MutantWanted == wanted

Wanted == wanted /\ ~deleted

Goto(w, label) == pc' = [pc EXCEPT ![w] = label]

\* What the worker knew of the deployment goes with it.
Finish(w) ==
    /\ Goto(w, "idle")
    /\ claim' = [claim EXCEPT ![w] = NoClaim]
    /\ target' = [target EXCEPT ![w] = NoRunner]
    /\ got' = [got EXCEPT ![w] = 0]

Job(w) == claim[w].dep
Fault == faults < MaxFaults /\ faults' = faults + 1

-----------------------------------------------------------------------------
(* The lease: claimOneDeploymentForReconcile and the where clause of each write *)

MutantBumped(n) == n + 1

Bumped(n) == IF n < RetryLimit THEN n + 1 ELSE n

MutantClaimable(d) ==
    /\ Active(d)
    /\ Wanted
    /\ lease[d] = NoWorker
    /\ ~recovering[d]

Claimable(d) ==
    /\ Active(d)
    /\ Wanted
    /\ lease[d] = NoWorker \/ expired[d]
    /\ ~recovering[d]

Claim(w, d) ==
    /\ pc[w] = "idle"
    /\ Claimable(d)
    /\ lease' = [lease EXCEPT ![d] = w]
    /\ expired' = [expired EXCEPT ![d] = FALSE]
    /\ attempts' = [attempts EXCEPT ![d] = Bumped(@)]
    /\ claim' = [claim EXCEPT ![w] =
                   [dep |-> d, stage |-> stage[d], attempts |-> Bumped(attempts[d]),
                    op |-> op[d], canary |-> canary[d], home |-> home]]
    /\ Goto(w, "acting")
    /\ UNCHANGED <<stage, op, canary, overdue, recovering, recoveries, target, got,
                   agent, owner, host, faults>>

MutantHoldsUnwanted(w) == lease[Job(w)] = w /\ stage[Job(w)] = claim[w].stage
MutantHoldsUnfenced(w) == Active(Job(w)) /\ Wanted

\* lease_expires_at is compared with a "now" taken before the statement runs, so a
\* write may still pass on a lease that has just expired; Lost is the other outcome.
Holds(w) ==
    /\ lease[Job(w)] = w
    /\ stage[Job(w)] = claim[w].stage
    /\ Wanted

\* The write finds no row: the worker drops what it was doing.
Lost(w) ==
    /\ pc[w] \in {"acting", "accepted", "confirmed", "passed", "retrying", "recovering", "failing"}
    /\ ~Holds(w) \/ expired[Job(w)]
    /\ Finish(w)
    /\ UNCHANGED <<row, agent, owner, host, faults>>

\* The lease is given back by every write but the canary marks.
FreeLease(d) ==
    /\ lease' = [lease EXCEPT ![d] = NoWorker]
    /\ expired' = [expired EXCEPT ![d] = FALSE]

\* markDeploymentStage and its likes.
Advance(w, next) ==
    /\ Holds(w)
    /\ stage' = [stage EXCEPT ![Job(w)] = next]
    /\ attempts' = [attempts EXCEPT ![Job(w)] = 0]
    /\ FreeLease(Job(w))
    /\ Finish(w)
    /\ UNCHANGED <<recovering, recoveries, owner, host, faults>>

LeaseExpires(d) ==
    /\ lease[d] # NoWorker
    /\ ~expired[d]
    /\ expired' = [expired EXCEPT ![d] = TRUE]
    /\ IF pc[lease[d]] # "idle" /\ Job(lease[d]) = d THEN Fault ELSE UNCHANGED faults
    /\ UNCHANGED <<stage, attempts, op, canary, lease, overdue, recovering, recoveries,
                   agent, worker, owner, host>>

\* The process dies, or an error leaves reconcileOne.
Crash(w) ==
    /\ pc[w] # "idle"
    /\ Fault
    /\ Finish(w)
    /\ UNCHANGED <<row, agent, owner, host>>

\* releaseClaimAfterDeadline: the action's 45 seconds are over.
Release(w) ==
    /\ pc[w] \in {"acting", "calling"}
    /\ Holds(w)
    /\ Fault
    /\ FreeLease(Job(w))
    /\ Finish(w)
    /\ UNCHANGED <<stage, attempts, op, canary, overdue, recovering, recoveries, agent,
                   owner, host>>

-----------------------------------------------------------------------------
(* Finding a runner: reconcilePending, reconcileProvisioningRunner *)

\* A runner with capacity is found: the assigned one, or one the agent gets.
Place(w, r) ==
    /\ pc[w] = "acting"
    /\ claim[w].stage = "pending"
    /\ home \in {r, NoRunner}
    /\ Advance(w, "configuring_hermes")
    /\ home' = r
    /\ status' = "starting"
    /\ UNCHANGED <<op, canary, overdue, wanted, deleted, billed>>

\* initializeProvisioningRunner: a runner row of its own, to be created.
Provision(w, r) ==
    /\ pc[w] = "acting"
    /\ claim[w].stage = "pending"
    /\ home = NoRunner
    /\ Advance(w, "provisioning_runner")
    /\ home' = r
    /\ status' = "starting"
    /\ UNCHANGED <<op, canary, overdue, wanted, deleted, billed>>

Provisioned(w) ==
    /\ pc[w] = "acting"
    /\ claim[w].stage = "provisioning_runner"
    /\ Advance(w, "configuring_hermes")
    /\ UNCHANGED <<op, canary, overdue, agent>>

\* No capacity yet, or none to be had.
NoCapacity(w) ==
    /\ pc[w] = "acting"
    /\ claim[w].stage \in {"pending", "provisioning_runner"}
    /\ \E label \in {"retrying", "failing"} : Goto(w, label)
    /\ UNCHANGED <<row, agent, claim, target, got, owner, host, faults>>

-----------------------------------------------------------------------------
(* Calls to the runner: start, status *)

\* getAssignedRunner, then the request leaves; what it meets is the runner's state
\* when it gets there.
CallRunner(w) ==
    /\ pc[w] = "acting"
    /\ claim[w].stage \in {"configuring_hermes", "starting_gateway", "connecting_telegram"}
    /\ claim[w].stage = "starting_gateway" => ~overdue[Job(w)]
    /\ Wanted /\ home # NoRunner
    /\ target' = [target EXCEPT ![w] = home]
    /\ Goto(w, "calling")
    /\ UNCHANGED <<row, agent, claim, got, owner, host, faults>>

\* managed_configuration_invalid: no launch spec, or another config revision.
BadLaunchSpec(w) ==
    /\ pc[w] = "acting"
    /\ claim[w].stage = "configuring_hermes"
    /\ Goto(w, "failing")
    /\ UNCHANGED <<row, agent, claim, target, got, owner, host, faults>>

\* The runner reuses the agent's running workload, or launches one.
Launch(r, o) ==
    IF runs[r] # 0
      THEN o = runs[r] /\ UNCHANGED <<runs, ready, ops>>
      ELSE /\ ops < MaxOps
           /\ o = ops + 1
           /\ ops' = o
           /\ runs' = [runs EXCEPT ![r] = o]
           /\ ready' = [ready EXCEPT ![r] = FALSE]

Starts(w) == pc[w] = "calling" /\ claim[w].stage = "configuring_hermes"

StartAccepted(w) ==
    /\ Starts(w)
    /\ \E o \in 1..MaxOps :
          /\ Launch(target[w], o)
          /\ got' = [got EXCEPT ![w] = o]
    /\ Goto(w, "accepted")
    /\ UNCHANGED <<row, agent, claim, target, owner, dispatched, faults>>

\* A runner that answers "ready" names no operation; the worker makes one up.
StartReady(w) ==
    /\ Starts(w)
    /\ runs[target[w]] # 0 /\ ready[target[w]]
    /\ ops < MaxOps
    /\ ops' = ops + 1
    /\ got' = [got EXCEPT ![w] = ops']
    /\ Goto(w, "accepted")
    /\ UNCHANGED <<row, agent, claim, target, owner, runs, ready, dispatched, faults>>

\* The answer does not match the launch spec: runner_start_failed, with cleanup.
StartUnusable(w) ==
    /\ Starts(w)
    /\ \E o \in 1..MaxOps : Launch(target[w], o)
    /\ Goto(w, "cleaning")
    /\ UNCHANGED <<row, agent, claim, target, got, owner, dispatched, faults>>

\* maybeRecoverManagedTransport: no runner, or no answer from it.  A runner that is
\* not a managed one fails the deployment; a sick one is replaced; a healthy one is
\* tried again for a few attempts.
NoTransport(w) ==
    /\ \/ /\ pc[w] = "acting"
          /\ claim[w].stage \in {"configuring_hermes", "starting_gateway", "connecting_telegram"}
          /\ ~Wanted \/ home = NoRunner
          /\ UNCHANGED host
       \/ /\ pc[w] = "calling"
          /\ \/ UNCHANGED host
             \/ /\ Starts(w)
                /\ \E o \in 1..MaxOps : Launch(target[w], o)
                /\ UNCHANGED dispatched
    /\ \E label \in {"cleaning", "recovering", "retrying"} :
          /\ label = "retrying" => claim[w].attempts < RetryLimit
          /\ Goto(w, label)
    /\ UNCHANGED <<row, agent, claim, target, got, owner, faults>>

\* persistRunnerAcceptedAndStage
Persist(w) ==
    /\ pc[w] = "accepted"
    /\ Advance(w, "starting_gateway")
    /\ op' = [op EXCEPT ![Job(w)] = got[w]]
    /\ overdue' = [overdue EXCEPT ![Job(w)] = FALSE]
    /\ UNCHANGED <<canary, agent>>

GatewayOverdue(d) ==
    /\ stage[d] = "starting_gateway"
    /\ ~overdue[d]
    /\ overdue' = [overdue EXCEPT ![d] = TRUE]
    /\ UNCHANGED <<stage, attempts, op, canary, lease, expired, recovering, recoveries,
                   agent, worker, owner, host, faults>>

\* The gateway deadline, found by the clock or reported by the runner.
GatewayTimesOut(w) ==
    /\ claim[w].stage = "starting_gateway"
    /\ (pc[w] = "acting" /\ overdue[Job(w)]) \/ pc[w] = "calling"
    /\ Goto(w, "recovering")
    /\ UNCHANGED <<row, agent, claim, target, got, owner, host, faults>>

\* isReadySnapshot: everything is up, and it is the operation the claim carries.
ReadySnapshot(w) == ready[target[w]] /\ runs[target[w]] = claim[w].op /\ claim[w].op # 0

StatusReady(w) ==
    /\ pc[w] = "calling"
    /\ claim[w].stage \in {"starting_gateway", "connecting_telegram"}
    /\ ReadySnapshot(w)
    /\ Goto(w, "confirmed")
    /\ UNCHANGED <<row, agent, claim, target, got, owner, host, faults>>

\* Not ready: tried again while it is starting; once the gateway was up, anything but
\* a retryable snapshot is telegram_connection_failed.
StatusWaiting(w) ==
    /\ pc[w] = "calling"
    /\ claim[w].stage \in {"starting_gateway", "connecting_telegram"}
    /\ ~ReadySnapshot(w)
    /\ \/ Goto(w, "retrying")
       \/ claim[w].stage = "connecting_telegram" /\ Goto(w, "cleaning")
    /\ UNCHANGED <<row, agent, claim, target, got, owner, host, faults>>

GatewayConfirmed(w) ==
    /\ pc[w] = "confirmed"
    /\ claim[w].stage = "starting_gateway"
    /\ TRUE \in CanaryModes
    /\ Advance(w, "verifying_model")
    /\ UNCHANGED <<op, canary, overdue, agent>>

-----------------------------------------------------------------------------
(* The model canary: reconcileVerifyingModel *)

\* markCanarySkippedAndStage
SkipCanary(w) ==
    /\ \/ pc[w] = "confirmed" /\ claim[w].stage = "starting_gateway"
       \/ pc[w] = "acting" /\ claim[w].stage = "verifying_model"
    /\ FALSE \in CanaryModes
    /\ Advance(w, "connecting_telegram")
    /\ canary' = [canary EXCEPT ![Job(w)] = "skipped"]
    /\ UNCHANGED <<op, overdue, agent>>

Verifies(w) == pc[w] = "acting" /\ claim[w].stage = "verifying_model" /\ TRUE \in CanaryModes

MutantLeftOver(mark) == IF mark = "started" THEN "passed" ELSE "cleaning"

\* An earlier worker marked the canary started and left no outcome, or left a bad one.
LeftOver(mark) == IF mark = "started" THEN "doubtful" ELSE "cleaning"

CanaryLeftOver(w) ==
    /\ Verifies(w)
    /\ claim[w].canary # "not_started"
    /\ Goto(w, LeftOver(claim[w].canary))
    /\ UNCHANGED <<row, agent, claim, target, got, owner, host, faults>>

\* No approved model, or no runner any more.
CanaryUnfit(w) ==
    /\ Verifies(w)
    /\ claim[w].canary = "not_started"
    /\ Goto(w, "cleaning")
    /\ UNCHANGED <<row, agent, claim, target, got, owner, host, faults>>

MutantMarkCanaryStarted(w) ==
    /\ Verifies(w)
    /\ claim[w].canary = "not_started"
    /\ Wanted /\ home # NoRunner
    /\ canary' = [canary EXCEPT ![Job(w)] = "started"]
    /\ target' = [target EXCEPT ![w] = home]
    /\ Goto(w, "dispatching")
    /\ UNCHANGED <<stage, attempts, op, lease, expired, overdue, recovering, recoveries,
                   agent, claim, got, owner, host, faults>>

MarkCanaryStarted(w) ==
    /\ Verifies(w)
    /\ claim[w].canary = "not_started"
    /\ home # NoRunner
    /\ Holds(w) /\ canary[Job(w)] = "not_started"
    /\ canary' = [canary EXCEPT ![Job(w)] = "started"]
    /\ target' = [target EXCEPT ![w] = home]
    /\ Goto(w, "dispatching")
    /\ UNCHANGED <<stage, attempts, op, lease, expired, overdue, recovering, recoveries,
                   agent, claim, got, owner, host, faults>>

\* The model is called if the runner has that operation ready; its answer may be lost.
Dispatch(w) ==
    /\ pc[w] = "dispatching"
    /\ ReadySnapshot(w)
    /\ dispatched' = [dispatched EXCEPT ![Job(w)] = @ + 1]
    /\ \E label \in {"passed", "refused", "doubtful"} : Goto(w, label)
    /\ UNCHANGED <<row, agent, claim, target, got, owner, runs, ready, ops, faults>>

\* canary_not_ready (409) proves that nothing was sent; a lost request proves nothing.
NotDispatched(w) ==
    /\ pc[w] = "dispatching"
    /\ \/ ~ReadySnapshot(w) /\ Goto(w, "undispatched")
       \/ Goto(w, "doubtful")
    /\ UNCHANGED <<row, agent, claim, target, got, owner, host, faults>>

\* markCanaryPassedAndStage
PassCanary(w) ==
    /\ pc[w] = "passed"
    /\ canary[Job(w)] = "started"
    /\ Advance(w, "connecting_telegram")
    /\ canary' = [canary EXCEPT ![Job(w)] = "passed"]
    /\ UNCHANGED <<op, overdue, agent>>

\* markCanaryOutcomeUnknown, markCanaryFailed: then the deployment fails, with cleanup,
\* whether the mark found its row or not.
MarkCanary(w) ==
    /\ pc[w] \in {"refused", "doubtful"}
    /\ \/ /\ Holds(w)
          /\ canary' = [canary EXCEPT ![Job(w)] =
                          IF pc[w] = "refused" THEN "failed" ELSE "outcome_unknown"]
       \/ ~Holds(w) /\ UNCHANGED canary
    /\ Goto(w, "cleaning")
    /\ UNCHANGED <<stage, attempts, op, lease, expired, overdue, recovering, recoveries,
                   agent, claim, target, got, owner, host, faults>>

\* resetCanaryAfterNoDispatch
ResetCanary(w) ==
    /\ pc[w] = "undispatched"
    /\ \/ /\ Holds(w) /\ canary[Job(w)] = "started"
          /\ canary' = [canary EXCEPT ![Job(w)] = "not_started"]
       \/ ~Holds(w) /\ UNCHANGED canary
    /\ Goto(w, "retrying")
    /\ UNCHANGED <<stage, attempts, op, lease, expired, overdue, recovering, recoveries,
                   agent, claim, target, got, owner, host, faults>>

-----------------------------------------------------------------------------
(* Endings: retry, failure with or without cleanup, recovery, ready *)

\* scheduleRetry, scheduleImmediateRetry
Retry(w) ==
    /\ pc[w] = "retrying"
    /\ claim[w].stage = "starting_gateway" \/ claim[w].attempts < RetryLimit
    /\ Holds(w)
    /\ FreeLease(Job(w))
    /\ Finish(w)
    /\ UNCHANGED <<stage, attempts, op, canary, overdue, recovering, recoveries, agent,
                   owner, host, faults>>

Exhausted(w) ==
    /\ pc[w] = "retrying"
    /\ claim[w].stage # "starting_gateway" /\ claim[w].attempts >= RetryLimit
    /\ Goto(w, "failing")
    /\ UNCHANGED <<row, agent, claim, target, got, owner, host, faults>>

\* terminallyFailDeployment with cleanup: the stop is sent before anything is written.
BeginCleanup(w) ==
    /\ pc[w] = "cleaning"
    /\ IF Wanted /\ home # NoRunner
         THEN target' = [target EXCEPT ![w] = home] /\ Goto(w, "quitting")
         ELSE UNCHANGED target /\ Goto(w, "failing")
    /\ UNCHANGED <<row, agent, claim, got, owner, host, faults>>

Stopped(r) ==
    /\ runs' = [runs EXCEPT ![r] = 0]
    /\ ready' = [ready EXCEPT ![r] = FALSE]

\* The runner stops the workload, or the request comes to nothing.
Halt(r) == Stopped(r) \/ UNCHANGED <<runs, ready>>

\* The stop of a failure goes on to the failure, that of a recovery ends the work.
CleanUp(w) ==
    /\ pc[w] \in {"quitting", "leaving"}
    /\ Halt(target[w])
    /\ \/ pc[w] = "quitting" /\ Goto(w, "failing") /\ UNCHANGED <<claim, target, got>>
       \/ pc[w] = "leaving" /\ Finish(w)
    /\ UNCHANGED <<row, agent, owner, ops, dispatched, faults>>

\* markDeploymentFailedInTransaction: it does not compare the stage.
HoldsAnyStage(w) == lease[Job(w)] = w /\ Active(Job(w)) /\ Wanted

FailRow(w) ==
    /\ HoldsAnyStage(w)
    /\ stage' = [stage EXCEPT ![Job(w)] = "failed"]
    /\ FreeLease(Job(w))
    /\ status' = "error"
    /\ billed' = FALSE
    /\ UNCHANGED <<attempts, op, canary, overdue, recovering, recoveries, wanted, home, deleted>>

Fail(w) ==
    /\ pc[w] = "failing"
    /\ FailRow(w)
    /\ Finish(w)
    /\ UNCHANGED <<owner, host, faults>>

\* beginManagedRunnerRecovery: the lease is given back, the deployment pauses until the
\* replacement is over; the first time, the old workload is stopped as well as it goes.
Recover(w) ==
    /\ pc[w] = "recovering"
    /\ Holds(w)
    /\ recoveries[Job(w)] < MaxRecoveries
    /\ recovering' = [recovering EXCEPT ![Job(w)] = TRUE]
    /\ recoveries' = [recoveries EXCEPT ![Job(w)] = @ + 1]
    /\ FreeLease(Job(w))
    /\ IF recoveries[Job(w)] = 0 /\ home # NoRunner
         THEN /\ target' = [target EXCEPT ![w] = home]
              /\ Goto(w, "leaving")
              /\ UNCHANGED <<claim, got>>
         ELSE Finish(w)
    /\ UNCHANGED <<stage, attempts, op, canary, overdue, agent, owner, host, faults>>

\* replacement_budget_exhausted
RecoveryRefused(w) ==
    /\ pc[w] = "recovering"
    /\ Holds(w)
    /\ recoveries[Job(w)] >= MaxRecoveries
    /\ FailRow(w)
    /\ Finish(w)
    /\ UNCHANGED <<owner, host, faults>>

\* The runner turns out not to be a managed one: runner_start_failed.
Unrecoverable(w) ==
    /\ pc[w] = "recovering"
    /\ Goto(w, "cleaning")
    /\ UNCHANGED <<row, agent, claim, target, got, owner, host, faults>>

\* finalizeReady
Finalize(w) ==
    /\ pc[w] = "confirmed"
    /\ claim[w].stage = "connecting_telegram"
    /\ Holds(w)
    /\ home = claim[w].home /\ home # NoRunner
    /\ canary[Job(w)] \in {"passed", "skipped"}
    /\ op[Job(w)] = claim[w].op
    /\ status \in {"starting", "restarting"}
    /\ stage' = [stage EXCEPT ![Job(w)] = "ready"]
    /\ FreeLease(Job(w))
    /\ status' = "running"
    /\ billed' = TRUE
    /\ Finish(w)
    /\ UNCHANGED <<attempts, op, canary, overdue, recovering, recoveries, wanted, home, deleted,
                   owner, host, faults>>

-----------------------------------------------------------------------------
(* The owner: retryAgentDeploymentForUser, stopAgentForUser, deleteAgentForUser *)

\* A new row: its other columns have their defaults.
RetryDeployment ==
    /\ "retry" \in OwnerActs
    /\ Wanted
    /\ \A d \in Deployments : ~Active(d)
    /\ \E d, n \in Deployments :
          /\ Latest(d) /\ stage[d] = "failed" /\ n = d + 1
          /\ stage' = [stage EXCEPT ![n] = "pending"]
    /\ UNCHANGED <<attempts, op, canary, lease, expired, overdue, recovering, recoveries,
                   agent, worker, owner, host, faults>>

\* cancelActiveAutomaticDeploymentInTransaction, if a deployment is active.
CancelActive ==
    IF \E d \in Deployments : Active(d)
      THEN /\ wanted' = FALSE
           /\ stage' = [d \in Deployments |-> Superseded(d)]
           /\ lease' = [d \in Deployments |-> IF Active(d) THEN NoWorker ELSE lease[d]]
           /\ expired' = [d \in Deployments |-> ~Active(d) /\ expired[d]]
           /\ billed' = FALSE
      ELSE UNCHANGED <<wanted, stage, lease, expired, billed>>

\* Agents whose latest deployment is ready are stopped by the runtime controller.
Manual == \A d \in Deployments : Latest(d) => stage[d] # "ready"

RequestStop ==
    /\ "stop" \in OwnerActs
    /\ owner.pc = "idle"
    /\ ~deleted /\ Manual
    /\ status \in Stoppable \/ (status = "stopped" /\ \E d \in Deployments : Active(d))
    /\ CancelActive
    /\ owner' = [act |-> "stop", pc |-> IF status = "stopped" THEN "settling" ELSE "calling",
                 cancelled |-> \E d \in Deployments : Active(d), runner |-> home]
    /\ UNCHANGED <<attempts, op, canary, overdue, recovering, recoveries, status, home, deleted,
                   worker, host, faults>>

RequestDelete ==
    /\ "delete" \in OwnerActs
    /\ owner.pc = "idle"
    /\ ~deleted /\ Manual
    /\ CancelActive
    /\ owner' = [act |-> "delete", pc |-> "calling",
                 cancelled |-> \E d \in Deployments : Active(d), runner |-> home]
    /\ UNCHANGED <<attempts, op, canary, overdue, recovering, recoveries, status, home, deleted,
                   worker, host, faults>>

\* The runner stops or cleans up, and the request goes on; or it says that it failed,
\* and then only the deletion of an agent whose setup was cancelled goes on.
CallForOwner ==
    /\ owner.pc = "calling"
    /\ \/ /\ IF owner.runner = NoRunner THEN UNCHANGED <<runs, ready>> ELSE Stopped(owner.runner)
          /\ owner' = [owner EXCEPT !.pc = "settling"]
       \/ /\ owner.runner # NoRunner
          /\ Halt(owner.runner)
          /\ owner' = IF owner.act = "delete" /\ owner.cancelled
                        THEN [owner EXCEPT !.pc = "settling"] ELSE NoRequest
    /\ UNCHANGED <<row, agent, worker, ops, dispatched, faults>>

\* The second transaction of Stop.
SettleStop ==
    /\ owner.act = "stop" /\ owner.pc = "settling"
    /\ IF ~deleted /\ (status \in Stoppable \/ owner.cancelled)
         THEN wanted' = FALSE /\ status' = "stopped" /\ billed' = FALSE
         ELSE UNCHANGED <<wanted, status, billed>>
    /\ owner' = NoRequest
    /\ UNCHANGED <<row, home, deleted, worker, host, faults>>

\* The second transaction of Delete.
SettleDelete ==
    /\ owner.act = "delete" /\ owner.pc = "settling"
    /\ deleted' = TRUE
    /\ billed' = FALSE
    /\ owner' = NoRequest
    /\ UNCHANGED <<row, wanted, status, home, worker, host, faults>>

-----------------------------------------------------------------------------
(* The runner replacement and the runners themselves *)

\* reconcileReassigning: the agent moves; what was active on the old runner fails, and a
\* wanted agent gets a deployment on the new one.
Cutover(d, r) ==
    /\ recovering[d]
    /\ ~deleted
    /\ r # home
    /\ home' = r
    /\ billed' = FALSE
    /\ recovering' = [recovering EXCEPT ![d] = FALSE]
    /\ \/ /\ Wanted
          /\ \E e, n \in Deployments :
                /\ Latest(e) /\ n = e + 1
                /\ stage' = [x \in Deployments |->
                               IF x = n THEN "pending" ELSE Superseded(x)]
          /\ lease' = [x \in Deployments |-> IF Active(x) THEN NoWorker ELSE lease[x]]
          /\ expired' = [x \in Deployments |-> ~Active(x) /\ expired[x]]
          /\ status' = "starting"
       \/ /\ ~Wanted
          /\ status' = "stopped"
          /\ UNCHANGED <<stage, lease, expired>>
    /\ UNCHANGED <<attempts, op, canary, overdue, recoveries, wanted, deleted, worker, owner,
                   host, faults>>

\* The replacement fails: the deployment is due again, on the old runner.
ReplacementFails(d) ==
    /\ recovering[d]
    /\ recovering' = [recovering EXCEPT ![d] = FALSE]
    /\ UNCHANGED <<stage, attempts, op, canary, lease, expired, overdue, recoveries, agent,
                   worker, owner, host, faults>>

\* The workload's gateway comes up.
GatewayUp(r) ==
    /\ runs[r] # 0
    /\ ~ready[r]
    /\ ready' = [ready EXCEPT ![r] = TRUE]
    /\ UNCHANGED <<row, agent, worker, owner, runs, ops, dispatched, faults>>

-----------------------------------------------------------------------------
WorkerStep(w) ==
    \/ Lost(w)
    \/ \E r \in Runners : Place(w, r) \/ Provision(w, r)
    \/ Provisioned(w)
    \/ NoCapacity(w)
    \/ CallRunner(w)
    \/ BadLaunchSpec(w)
    \/ StartAccepted(w)
    \/ StartReady(w)
    \/ StartUnusable(w)
    \/ NoTransport(w)
    \/ Persist(w)
    \/ GatewayTimesOut(w)
    \/ StatusReady(w)
    \/ StatusWaiting(w)
    \/ GatewayConfirmed(w)
    \/ SkipCanary(w)
    \/ CanaryLeftOver(w)
    \/ CanaryUnfit(w)
    \/ MarkCanaryStarted(w)
    \/ Dispatch(w)
    \/ NotDispatched(w)
    \/ PassCanary(w)
    \/ MarkCanary(w)
    \/ ResetCanary(w)
    \/ Retry(w)
    \/ Exhausted(w)
    \/ BeginCleanup(w)
    \/ CleanUp(w)
    \/ Fail(w)
    \/ Recover(w)
    \/ RecoveryRefused(w)
    \/ Unrecoverable(w)
    \/ Finalize(w)

OwnerStep ==
    \/ RetryDeployment
    \/ RequestStop
    \/ RequestDelete
    \/ CallForOwner
    \/ SettleStop
    \/ SettleDelete

ReplacementStep(d) ==
    \/ \E r \in Runners : Cutover(d, r)
    \/ ReplacementFails(d)

Next ==
    \/ \E w \in Workers :
          \/ \E d \in Deployments : Claim(w, d)
          \/ WorkerStep(w)
          \/ Crash(w)
          \/ Release(w)
    \/ \E d \in Deployments : LeaseExpires(d) \/ GatewayOverdue(d) \/ ReplacementStep(d)
    \/ OwnerStep
    \/ \E r \in Runners : GatewayUp(r)

Spec == Init /\ [][Next]_vars

\* Cron claims what is due, a process that lives goes on, clocks run, and a replacement
\* comes to an end.  The owner owes nothing, and nobody promises that a gateway comes up.
Fairness ==
    /\ \A w \in Workers : WF_vars(WorkerStep(w))
    /\ WF_vars(\E w \in Workers, d \in Deployments : Claim(w, d))
    /\ \A d \in Deployments :
          /\ WF_vars(LeaseExpires(d))
          /\ WF_vars(GatewayOverdue(d))
          /\ WF_vars(ReplacementStep(d))

FairSpec == Spec /\ Fairness
-----------------------------------------------------------------------------
(* Properties *)

\* The model is called at most once for a deployment, whatever leases expire, answers
\* are lost or workers die: reconcileVerifyingModel marks the canary before it sends.
CanaryOnce == \A d \in Deployments : dispatched[d] <= 1

\* One deployment is under way at a time, and it is the latest: agent_deployments has
\* one active row for an agent.
OneActive == \A d \in Deployments : Active(d) => Latest(d)

\* The agent row agrees with the deployment rows, which other transactions write: a
\* wanted agent runs, and its usage is open, exactly when its latest deployment is
\* ready; usage is never open for an agent that is not wanted.
AgentMirrorsDeployment ==
    /\ billed => wanted /\ ~deleted /\ status = "running"
    /\ Wanted => \A d \in Deployments : Latest(d) =>
          /\ stage[d] = "ready" <=> status = "running"
          /\ stage[d] = "ready" <=> billed

\* A deployment that is ready had its model called once, unless the rollout skips the
\* canary, and names an operation a runner accepted.
ReadyIsVerified ==
    \A d \in Deployments : stage[d] = "ready" =>
        /\ op[d] # 0
        /\ canary[d] = "skipped" \/ (canary[d] = "passed" /\ dispatched[d] = 1)

\* A stop or a deletion that was persisted is not undone by a worker that was under
\* way: the agent does not go back to starting or running.
StopIsFinal == [][~Wanted => status' \in {status, "stopped"}]_vars

\* The deployments of an agent go through the stages of deployment-state.ts.
Pipeline == INSTANCE DeploymentStages
FollowsStages == Pipeline!Spec

\* A deployment comes to an end while the owner lets it, unless everything keeps failing.
Settles == \A d \in Deployments : Active(d) ~> ~Active(d)
=============================================================================

# Bruno.Ai in TLA+

Bruno.Ai lets a founder create an agent (a Hermes workload in Docker), and keeps it deployed
on runner VMs it provisions itself. The control plane is a Next.js server with a PostgreSQL
database; every process of it (request handlers, cron routes, QStash callbacks) is short-lived
and shares nothing with the others but the database. A runner is one VM with an HTTP service
in front of its Docker daemon.

What makes the system hard is that no process is in charge. Whoever is awake claims a row,
calls a remote party without holding any lock, and writes the outcome with a conditional
`UPDATE` that may find nothing to update. Processes die between the two, leases expire under
them, answers get lost, callbacks come twice, late or never, and the owner presses Stop in
between. The modules here state what has to hold all the same.

Paths below are those of the repository; `PROJECT.json` maps every definition to its lines.

## Inventory

Status: **M** modelled in part or whole, **P** planned, **-** left out.

| Component | State it keeps | Operations | Hard behaviour | What makes it correct | |
|---|---|---|---|---|---|
| Deployment wakeup outbox (`server/agents/agent-deployment-dispatch.ts`, wakeup routes) | `agent_deployment_wakeups`: state, generation, due time, attempts, publication lease | replace, select, claim for publication, sweep, mark published or failed, claim a delivery, replay | publishers overlap; the sweep takes over; deliveries are duplicated, late, reordered | one live generation; bounded publications; one drain for each generation; exhaustion needs an operator | M |
| Deployment reconciler (`agent-deployment-reconciler.ts`, `deployment-state.ts`, `agent-deployment-retry.ts`) | `agent_deployments`: stage, attempts, lease, operation, canary; `agents`: status, desired status, runner | claim, a handler for each stage, retry, fail with cleanup, recover, finalize | a worker acts on what it claimed long ago; remote effects are not fenced | stages only go forward; one deployment under way; the model is called once; a stop stays | M |
| Stop, Delete, Start, Restart (`lifecycle.ts`) | `agents`, usage periods | two transactions and a runner call between, or one that leaves the rest to the runtime controller | the reconciler runs between the transactions | the persisted wish wins; usage is open only while running | M (Stop and Delete of agents in deployment, all four of agents that are ready) |
| Runner launches (`runner-service/docker.ts`) | `agentLocks`, launch tokens, containers, the agent's directory | start, restart, stop, cleanup | promise chain as lock; cancellation; deadlines; commands that half happen | mutual exclusion; order of arrival; an accepted launch is the only container | M |
| Runner replacement (`runner-replacement-{state,store,reconciler,triggers}.ts`) | `runner_replacements`: state, attempts, lease, targets; `runners`, their credentials; `agents.runner_id` | trigger, claim, provision, validate, fence, reassign, converge, clean up, fail with removal of the target | a droplet is created or deleted and the answer is lost; a claim outlives its lease; the sweep works on the same runners | one replacement for each runner; one paid droplet for each target; agents move together, after the old runner has lost its authority; no droplet in use is deleted | M |
| Agent runtime controller (`agent-runtime-{reconciler,state,store,lifecycle}.ts`) | `agent_runtime_reconciliations`: state, generation, revision, operation, attempts, recoveries, circuit, lease | claim; observe, stop, start, ask Telegram; write; the owner's requests, revisions, withdrawn credentials | an old generation answers late; a start or stop arrives later; a handover starts generations again | a worker writes only fresh evidence; ready means the saved revision; stopped means stopped and unbilled; recovery is bounded | M |
| Proposed actions and mail execution (`founder-proposed-actions.ts`, `founder-mail-execution.ts`) | action rows, revisions, approvals, execution leases | propose, approve, reject, expire, execute | approval races with edit and expiry; a send with a lost answer | the approved revision is executed, once; an uncertain send is never repeated | M (mail); P 2 (the other families) |
| Approvals | approval rows | approve, deny, expire | two deciders | one decision | P 2 |
| Runner provisioning and infrastructure (`runner-provisioning.ts`, `runner-infrastructure-reconciler.ts`, `digitalocean-provider.ts`) | `runners.provisioning_status`, `runner_infrastructure_orphans` | drain: discover, create, tag, firewall, wait; sweep: missing, interrupted, unhealthy, orphan | lost answers of the provider; stale writes of a phase | no droplet is created twice; no droplet in use is swept | M (the automatic path and the sweep) |
| Registration, heartbeat, credentials (`runner-registration.ts`, `runner-heartbeat.ts`, `runner-credential-lifecycle.ts`) | tokens, credential versions, heartbeats | register once, rotate, revoke | late heartbeats, two rotations | one registration; a revoked credential stays revoked | M (their writes to a runner's row); P 3 (tokens, rotation) |
| Placement and capacity (`runner-placement.ts`) | capacity lock, slots | reserve, release | concurrent placements | capacity is not exceeded | M (the choice of a runner); P 3 (the rest) |
| Ready-agent creation and configuration (`create-agent.ts`, `update-agent-config.ts`, `agent-secrets.ts`) | agents, config revisions, credentials | create under an idempotency key, revise, replace, withdraw | two creations with one key; revisions of agents that are being stopped | one agent for each key; the saved revision is what runs | M (revisions and credentials of ready agents); P 4 (creation) |
| Infrastructure retirement and recovery archive | retirements, archives, restorations | archive, verify, destroy, restore | crash between archive and destruction | destroyed only when the archive is verified; restored once | P 4 |
| Commerce (`server/commerce`) | webhook inbox, subscriptions | ingest, apply, poll | webhooks duplicated and reordered | the newest provider state wins | P 5 |
| Entitlement and work authority | entitlement, authority | grant, suspend, withdraw | suspension of work under way | no work without authority | P 5 |
| Privacy: deletion, retention, export | requests, jobs | request, cancel, run, resume | failure in the middle of a deletion | nothing is deleted before its time, everything afterwards | P 6 |
| Users and identity recovery | recovery claims | claim, complete | two claims | one owner | P 6 |
| Provider trials, rollout, SLO evaluation | samples, promotion state | record, evaluate, promote, roll back | - | promotion in order | P 7 |
| Release stages; snapshots and releases | stages, attestations | qualify, promote, hold | - | promotion in order | P 7 |
| Backups | rows and objects | write, prune | one of two writes fails | a listed backup exists | P 7 |
| Founder operator services | conversations, turns | claim a turn, append | two turns | one answer for each turn | P 7 |
| Staging acceptance | run rows | step, resume | - | one operator uses it | P 7 |
| Launch specifications, readiness evidence | none | build and compare documents | - | pure; their outcome is a choice in `AgentDeployment` | - |
| Runner adapters | none | HTTP calls, schemas | lost answers | modelled where they are called | - |
| Runner service HTTP, bootstrap, setup sessions | setup sessions | routes, boot checks | expiry | - | P 7 (sessions) |
| Events, logs, costs, alerts, Telegram client | append-only rows | append, read | none | - | - |
| Authentication, environment | none | pure | none | - | - |
| Web interface | none | rendering, polling | none | - | - |

How they interact: a deployment's transactions append wakeup rows; publishers turn them into
QStash messages; a delivery, or a cron route, drains the deployment by claiming it; a drain
calls the runner through an adapter; the runner's HTTP service calls `ManualRunnerDocker`.
A worker that finds its runner sick opens a replacement, and the replacement cuts the agent
over and opens the next deployment. The owner's Stop, Delete and Retry write the same rows.
Once the latest deployment is ready the agent has a runtime row, and the runtime controller
keeps it served or stopped, until a replacement takes the row away and deploys the agent anew.
The infrastructure sweep, the heartbeats and the provisioning of other runners write the same
rows of runners as a replacement does, without looking at it.
Beside all this the founder's operator proposes actions; an approved one of the family
external_communication is carried out by a request handler that asks Gmail, while the founder
may go on deciding, pausing, deleting or closing.

## Modules

| Module | What it is |
|---|---|
| `DeploymentWakeups` | the outbox of one deployment, its publishers, QStash and the signed callback |
| `AgentLock` | abstract: a first-in-first-out lock a waiter may leave |
| `RunnerLaunches` | the calls a runner serves for one agent; implements `AgentLock` |
| `DeploymentStages` | abstract: the promised stages of an agent's deployments |
| `AgentDeployment` | workers, owner, replacement and runners around one agent's deployments; implements `DeploymentStages` |
| `Relocation` | abstract: moves of agents from one place to another, and the authority of places |
| `RunnerReplacement` | workers, infrastructure sweep, runners and provider around replacements; implements `Relocation` |
| `OwnerWish` | abstract: the phases an agent goes through as its owner wishes |
| `AgentRuntime` | owner, workers, runner and handovers around one agent's runtime row; implements `OwnerWish` |
| `OneEffect` | abstract: what an approved action does outside, and what is told of it |
| `ProposedActions` | the rows of proposed actions and what the founder does to them |
| `MailExecution` | the runs that send approved mail, the locks they keep, and Gmail; extends `ProposedActions`, implements `OneEffect` |
| `MC...` | the model values and symmetry sets of the runs |
| `..._proofs` | theorems and their proofs |

Operators named `Mutant...` are slips the code could have had: each stands before the
definition it deforms, is used by no specification, and makes one property fail when put in
its place. `PROJECT.json` pairs them with the properties they break.

### DeploymentWakeups

One deployment, its rows by generation. `Reconcile`, `Cancel` and `Interrupt` are the three
ways a transaction writes the deployment (`replaceDeploymentWakeupInTransaction` with a due
time, without one, and not called at all). A publisher goes through `Select` or `Sweep`,
`ClaimForPublish`, `Publish`, and `MarkPublished` or `MarkPublishFailed`; `Abandon` is the
abort or the crash at any of these points, and an aborted publication may still have reached
QStash. `Deliver` is the whole wakeup route, acknowledged or not. `Replay` is the operator's.
The code compares the clock with `due_at` and with the publication lease and nothing else, so
a row has two Booleans, `due` and `expired`, that time sets; no clock is bounded. Payloads,
signatures and HTTP details are left out. `effects` and `drains` are history variables.

### RunnerLaunches

Three calls on one agent. The `pc` of a call names the `await` it is suspended at, and an
action is what runs between two awaits: JavaScript interleaves nowhere else. `Arrive` reads
and replaces the entry of `agentLocks` in one step; `blockers` are the calls behind the
promise it read; `End` deletes the entry if it is still the call's own, which is what
`withAgentLock`'s `finally` does, also for a launch that gives up while it waits. A launch
goes through `Project`, `ListForLaunch`, `RemoveSurplus`, then `AcceptWinner`, or `Run`,
`Created`, `AcceptCreated`. The `Break...` actions are its ways out, each with what an aborted
docker command may have left behind. A container is named after the call that created it, so
`target` tells the revision it carries.

The switch `Prompt` says whether a stop, cleanup or removal may outlast the budget of a launch
that waits behind it. Nothing in the code makes sure it does not (a docker command may take as
long as `DOCKER_CLI_TIMEOUT_MS`), so some properties are checked without it, the mutual
exclusion only with it, and one run shows what happens otherwise.

### AgentDeployment

The row of each deployment, the agent row, workers, the owner's request under way, and the
runners. `Claim` is `claimOneDeploymentForReconcile`; a worker then carries what the claim
read (`claim`) and acts on it. A remote call is three things: it leaves (`CallRunner`,
`BeginCleanup`, `MarkCanaryStarted`), it has its effect on the runner (`StartAccepted`,
`CleanUp`, `Dispatch`, ...), and the worker writes what it learnt (`Persist`, `Fail`,
`PassCanary`, ...), if its `where` clause still matches: `Holds` for most writes,
`HoldsAnyStage` for a failure, `Lost` when it does not. A lease may expire at any moment
(`LeaseExpires`), a worker may die (`Crash`) or be cut off (`Release`). Stop and Delete are
two transactions (`RequestStop`, `SettleStop`) around a runner call (`CallForOwner`). The
replacement is seen from the deployment: it pauses it (`Recover`), cuts over (`Cutover`) or
fails (`ReplacementFails`).

A call is one atomic effect here, and `RunnerLaunches` looks inside it. Deadlines are facts
(`expired`, `overdue`), as above. Left out: the safety quarantine, owner requests that overlap
each other, and requests for agents whose latest deployment is ready, which are in
`AgentRuntime`.

### RunnerReplacement

Runner 0 serves the agents at first, and runner i is the target of replacement i. `Claim` is
`claimNextRunnerReplacement`; a worker carries its job through the states of
`runner-replacement-state.ts`, one or several awaits in each: `InitializeTarget` and
`StartProvisioning`; the drain of the provisioning (`Discover`, `Announce`, `Create`,
`CreateAnswered`, `Record`, `Equip`), whose phases are written without the replacement's fence;
`Refresh`, `Validate` and `AcceptTarget`; `Degrade` and `Revoke`; `Reassign`, the one
transaction that moves every agent; `Converge`; `Inspect`, `Retire` and `Retired`; and
`Discard`, `Discarded` for a target that failed. `Apply` is the fenced write of
`runner-replacement-store.ts`, and `Write` the unfenced one of `runner-provisioning.ts`. The
sweep (`TakeInventory`, then one of `Sweep...` or `ClearStaleAssignment`) decides on an
inventory that may be old by then. Around them: droplets appear or vanish, runners register,
beat, or are found stale, agents are placed, become ready, or are stopped by their owner.

Time is one event: a claim grows old (`Abort`), its provider calls are aborted (after 30 s) and
only then its lease may be taken over (after 90 s). Left out: container stops on the source,
which are best effort; the 24-hour window of the budget (a source has one); SSH keys and
images, whose failure is that of a refused creation; compatibility of releases. The read and
the write of one transaction are one step; the workers that are idle are alike, so a claim goes
to one of them (`CHOOSE`). One sweep is under way at a time, as slow as it likes.

### AgentRuntime

One agent after its deployment: `row` is its row of `agent_runtime_reconciliations`, `agent`
what the rows of agents, usage periods and secrets say of it, `box` the container on its
runner, `wire` the requests nobody waits for any more. The owner's requests are one
transaction each: `RequestStart`, `RequestRestart`, `RequestStop` and `RequestDelete` write
`Wished` (`persistManagedRuntimeOwnerIntent`), `UpdateConfig` and `ReplaceSecret` write
`Revised` (`reviseManagedRuntimeConfiguration`), `RevokeSecret` opens the circuit. `Claim` is
`claimNextAgentRuntimeReconciliation` with `planRuntimeEffect` (`Effect`); then one of
`Observe`, `Stop`, `Start`, `Diagnose` calls, and `Write` applies what `Outcomes` says of the
claimed row and the answer, if the claim still `Fits` (the `where` clause of
`applyClaimedAgentRuntimeResult`). `Outcomes` is the policy of `agent-runtime-state.ts` with
the transitions of the reconciler: a row, the agent's status, and what becomes of the usage
period. A call that fails may have been carried out, may be carried out later (`Arrive`), or
never. `Move` is the handover of `RunnerReplacement` seen from the row, `Deployed` the
`finalizeReady` of `AgentDeployment`.

Time is choice: a backoff is over whenever a claim is made; the recovery window, Telegram's
grace and the fifteen steady minutes have passed or not (a second silent observation counts as
past the grace). A lapsed lease is a takeover, and counts as a fault. Merged: a container that
is absent and one that has ended; a gateway, API or restart policy that is not as expected
(`sick`); the reasons why no launch specification can be built (`unlaunchable`); claim, plan
and specification. Operation ids nothing remembers are used again. Left out: error codes,
events, what the owner is shown; a Start refused for lack of room; a worker whose time is up
before it calls; requests while a deployment is under way (`AgentDeployment`); the conflict
branch of `initializeAgentRuntimeAfterDeploymentReady`, which cannot be reached since the
handover deletes the row; `invalidateAgentRuntimeLease`, which nothing calls.

### ProposedActions and MailExecution

`ProposedActions` has one action for each transaction that writes a row of the family
external_communication or what it depends on: `Propose`, `Approve`, `Decline`,
`RequestChanges`, `Revise`, `ChangePolicy`, `SetPause`, `RequestDeletion`, `CloseAccount`,
`SetHold`, and `Expire` for time. A row keeps its version (a revision is a new row), so
comparisons with an expected version always hold and are left out; "blocked" and "expired"
written on a refusal are rolled back by the error that follows.

A run of `MailExecution` is one call of `executeFounderApprovedGmailActionForUser`, cut where
its transactions end: `Prepare`, `Claim`, `Start`, then `submitFounderMailWhileAuthorityLocked`
as `Check` (under the founder's lifecycle lock), `Guard` (under the pause lock as well), `Ask`
and `Answer` or `Garble`, and at last `Finalize`. `GiveUp` is every refusal and every death.
`Arrive` is Gmail, which may get a request after its sender has gone; `Reconcile` is the
founder who asks what became of an attempt. What the transactions of the founder wait for
decides what may happen during the request: proposing, changing, revising, closing and holding
wait for the lifecycle lock, pausing and resuming for the pause lock; approving, declining, a
new policy and a deletion request wait for neither (`AwaitsLifecycle`, `AwaitsPause`,
`AwaitsNone`).

Left out: actions that policy allows without asking; bindings, consents, entitlement and the
sending connection, whose checks may refuse at any moment (`GiveUp`); the five minutes an
attempt is left alone before it may be reconciled (a run may be that slow); retention. The
founder here owns the release stage: for a member of a preview cohort a hold takes the owner's
lock, not the member's. There is no liveness to state, since nobody but the founder repeats or
reconciles anything.

## Runs

| Run | Bounds | Checks |
|---|---|---|
| `wakeups` | 2 publishers, 2 generations, 2 publication attempts, 2 delivery attempts, rollback allowed, fairness | `TypeOK`, `CurrentGeneration`, `BoundedProviderEffects`, `DrainedOnce`, `NoStaleDrain`, `OnlyLeaseHolderPublishes`, `ExhaustedNeedsReplay`, `SettledRowsAreFinal`, `PublicationSettles` |
| `launches_serial` | 3 calls, 2 revisions, `Prompt`, failing commands, symmetry | `TypeOK`, `LockExclusive`, `AcceptedIsOnly`, `ServedInOrder` |
| `launches_slow` | 3 calls, 1 revision, not `Prompt`, fairness | `StopWins`, `CallsEnd` |
| `launches_overlap` | 3 calls, not `Prompt` | finds `SerializedStarts` violated |
| `deployment_race` | 2 workers, 2 runners, 1 deployment, 2 operations, 1 fault, 2 attempts, 1 recovery, canary on or off, Stop and Delete, symmetry | `TypeOK`, `CanaryOnce`, `ReadyIsVerified`, `FollowsStages` |
| `deployment_chain` | 2 workers, 2 runners, 2 deployments, 1 operation, no fault, 1 attempt, 1 recovery, canary on or off, Retry, Stop and Delete, symmetry | `OneActive`, `AgentMirrorsDeployment`, `StopIsFinal` |
| `deployment_settles` | 2 workers, 2 runners, 2 deployments, 1 fault, canary, no owner, fairness | `Settles` |
| `replacement` | 2 workers, 2 agents (one placed at first), 1 replacement, 2 attempts, budget 2, room for 1, 1 fault, 3 sweeps, fairness | `TypeOK`, `CreatedOnce`, `HandoverFenced`, `Settles`, `ServingDropletKept`, `Relocates` |
| `replacement_fence` | the same | finds `StaysFenced` violated |
| `runtime` | 2 workers, 2 requests, 1 fault, 1 recovery, 2 attempts, 7 operation ids, fairness | `TypeOK`, `ShownStopped`, `FreshEvidence`, `ReadyIsCurrent`, `ImplementsOwnerWish`, `RunSettles`, `StopCompletes` |
| `runtime_stopped` | the same without faults | finds `IntentionallyStopped` violated |
| `mail` | 2 actions, 2 runs, 2 changes of mind, symmetry | `MailTypeOK`, `SentOnce`, `SendIsPermitted`, `IsOneEffect` |

Why the bounds are enough to be worth something:

- Two publishers are a holder and the one that takes over; two generations are a row and its
  successor; two attempts are one below the limit and one at it. A third publisher repeats the
  part of the second, since all they share is the row.
- Three calls on an agent are what the lock's defect needs (one working, one giving up, one
  arriving), and let a launch find residue of two others. Two revisions tell a reusable
  container from a stale one.
- Two workers are the one that lost its lease and its successor. One fault is one lost lease or
  death at any point, and the successor then runs undisturbed. Two operations let a workload
  be replaced by another; one suffices where the question is about rows. Two deployments are an
  interrupted one and the one that follows it; there a worker is made stale by the cut-over or
  the owner, so that run does without faults.
- A replacement needs a worker that is slow or dead and the one that takes over; one fault makes
  one of them so, or fails the provider, or loses a droplet, and two attempts put the patience
  of every state to the test. The second agent is the one placed meanwhile; three sweeps let an
  orphan be seen, seen again and deleted, or two decisions follow on one another. With two
  replacements the defect that `replacement_fence` shows keeps them from ending, so one is
  checked; that a second one may be opened for the same source is covered by the proofs, which
  hold for any number.
- In `runtime` two requests are a wish and its revocation, or a wish and a revision, at any
  point of the workers' steps; the one fault is a failure, a death, a takeover or a handover.
  One recovery and two attempts are one below each limit and one at it. Seven operation ids are
  never used up: two workers remember two each (the claimed one and the answered one), the row
  and the container one each.
- In `mail` two runs are a slow one and the second click, two actions a version and its
  revision, and two changes a pause or policy that is set and one that is undone, each at any
  point of the runs.

Symmetry is used in runs without liveness only. Deadlock is not checked because all of
these systems stop: a deployment that is ready or failed, an agent whose calls are all
answered, or an action that has its receipt has nothing left to do, and the bounds on operations and generations end the rest.

### What the violations show

Each of these runs finds the code at odds with a sentence of the repository.

- `launches_overlap`: `withAgentLock` deletes the map entry of a launch that times out while it
  waits, although the call before it still works; the next launch finds no entry and starts at
  once, beside that call. A test says duplicate managed starts are serialized.
- `replacement_fence`: a replacement degrades the bad runner and revokes its credentials before
  it moves the agents. A heartbeat accepted earlier, or the sweep of stale heartbeats, then
  writes the runner's status; the reassignment demands "degraded" and throws, and the
  replacement fails with its agents on a runner that can no longer be commanded.
- `runtime_stopped`: `reviseManagedRuntimeConfiguration` takes an agent that is to be stopped
  for a stopped one. Saving a configuration while a stop is still pending writes "stopped",
  which nobody claims: if the owner's own stop request did not get through, the workload and
  its usage period stay. The README says an agent is intentionally stopped when its durable
  stop is complete.

The models contain more of the kind, which no run is spent on:

- The wakeup route looks at the current dispatch mode before anything else, so after a rollback
  to cron the deliveries of a deployment pinned to QStash are turned down, against ADR 0003
  (`RollBack`, `Deliver`). Cron still picks it up.
- The projection of a launch gets no abort signal: one that times out in it leaves it writing,
  also after a cleanup (`LateProjection`).
- Stop of an agent whose latest deployment failed calls the runner before it persists the wish
  (`CallForOwner`, `SettleStop`), against README.md:540.
- The sweep deletes the row of a missing runner nobody is assigned to, also when it is the
  source of an open replacement (`SweepTombstones`); nobody can claim that replacement again.
  `Settles` of `RunnerReplacement` exempts it.
- A stopped agent with an open circuit cannot be revised, since the database refuses the row
  (`Storable`), and so its withdrawn credential cannot be replaced until it is restarted.
- A stopped agent that is moved to another runner has no runtime row any more (`Move`) and
  cannot be started again.
- A start under way when the owner's Stop commits and stops the workload is accepted by the
  runner afterwards (`StartAccepted`); the worker's write is refused and nobody stops what it
  started, although stopped agents are to stop producing logs (docs/PRD.md:43).
- An action whose run dies between `Claim` and `Start` stays "executing": its authorization is
  used up, and `Reconcile` wants a started attempt.
- An action may be approved although the policy has changed since it was proposed
  (`Decidable`), but is never executed then (`Executable`).
- `Revise` supersedes a row in whatever state, also one that is being carried out or is done;
  the receipt of a run under way then writes its outcome over "superseded".

### Fairness

- Outbox: an invocation that has claimed a row goes on to its completion (weak fairness of each
  of its steps), leases expire, and the protected cron route keeps sweeping. The sweep has
  strong fairness because the model's pool of invocations is finite while each cron run of the
  real system is a fresh one, whatever the others are doing. `Abandon` is not excluded by it:
  an invocation may die each time, which is why the publication bound matters.
- Launches: each call's next step, because every docker command has a timeout.
- Deployment: a living worker goes on, somebody claims what can be claimed (the cron route
  reconciles each time it runs), leases and deadlines pass, and an open replacement comes to an
  end. Nothing is owed by the owner, and nobody promises that a gateway comes up.
- Replacement: a claimed step goes on to its end, since every call has a deadline; a due
  replacement is claimed (strong fairness, because each run of the cron claims the oldest due
  one and the workers of the model are finite); a droplet whose creation was accepted comes;
  an agent that can be served becomes ready. The sweep owes nothing.
- Runtime: somebody claims what can be claimed (the cron runs each minute), a living worker goes
  on, a started gateway comes up or breaks, and a deployment ends. `Breaks`, `Die` and the
  failing answers are bounded by `MaxFaults`, so liveness is that of a system whose failures
  stop at some time.

## Proofs

`..._proofs` modules prove, for every value of the constants that meets the assumptions
stated with them:

| Module | Theorem | Says |
|---|---|---|
| `DeploymentWakeups_proofs` | `TypeCorrect`, `OneCurrentGeneration`, `LeaseIffPublishing`, `DrainsAtMostOnce`, `EffectsBounded` | the invariants of `wakeups`, and `LeasedWhilePublishing`, which no run lists |
| | `SettledStaysSettled`, `StaleNeverDrains`, `HolderPublishes`, `ExhaustedIsReplayed` | the action properties `SettledRowsAreFinal`, `NoStaleDrain`, `OnlyLeaseHolderPublishes`, `ExhaustedNeedsReplay` |
| `RunnerLaunches_proofs` | `TypeCorrect` | for any set of calls |
| | `LockExcludes`, `LockImplemented` | under `Prompt`: mutual exclusion, and `Spec` implements `Lock!Spec` |
| `RunnerContainers_proofs` | `StopsWin` | `StopWins`, for any set of calls, with or without `Prompt` |
| | `AcceptsOnly` | under `Prompt`: the action property `AcceptedIsOnly` |
| `AgentDeployment_proofs` | `TypeCorrect`, `OneDeploymentUnderWay`, `StopStays`, `CanaryAtMostOnce` | `OneActive`, `StopIsFinal`, `CanaryOnce` |
| | `AgentAgrees`, `ReadyMeansVerified` | `AgentMirrorsDeployment`, `ReadyIsVerified` |
| | `StagesImplemented` | `Spec` implements `Pipeline!Spec` |
| `RunnerReplacement_proofs` | `TypeCorrect`, `AskedAtMostOnce`, `HandoverIsFenced` | `CreatedOnce`, `HandoverFenced`, for any number of replacements |
| | `ServingIsKept` | the action property `ServingDropletKept` |
| | `RelocationImplemented` | `Spec` implements `Promised!Spec` |
| `AgentRuntime_proofs` | `Invariance`, `TypeCorrect`, `NothingUnverifiedIsBilled`, `StoppedIsShown` | the inductive invariant, `ShownStopped`, and `UnverifiedIsUnbilled`, which no run lists |
| | `EvidenceIsFresh`, `RunningIsCurrent` | the action properties `FreshEvidence`, `ReadyIsCurrent` |
| | `Implements` | `Spec` implements `Wish!Spec` |
| `MailExecution_proofs` | `Invariance`, `MailTypes`, `AskedOnce` | the inductive invariant, `MailTypeOK`, `SentOnce`, for any number of actions and runs |
| | `PermittedSend` | the action property `SendIsPermitted` |
| | `EffectImplemented` | `Spec` implements `Effect!Spec` |

The arguments:

- **Outbox.** One inductive invariant (`IInv`) carries the theorems: the type invariant,
  `CurrentGeneration` and `LeasedWhilePublishing` with two strengthenings. `EffectsCounted`:
  the publications made for a row, plus those of the publishers that are about to make one
  (also the ones that lost their lease), are at most its `attempts`, which `MaxPublishAttempts`
  bounds; the bound on `effects` alone is not inductive, because a publisher that was
  taken over still publishes. `DrainsClaimed`: a row that drained is claimed, and a claimed
  row is not claimed again. `OnlyLeaseHolderPublishes` and `ExhaustedNeedsReplay` follow from the
  guards of the writes, once it is shown that no other step moves a row to `published` or opens
  a generation while one is exhausted.
- **Lock.** `QueueInv` holds whatever waits how long: who is inside was granted, blockers are
  older, no more orders were given than there were calls. Mutual exclusion needs more
  (`LockInv`): of two live calls one is a blocker of the other (`Chained`); the map's entry is
  the last live call's, whose blockers are all the others, and with no entry nobody is live
  (`TailCovers`). `TailCovers` is what fails when a launch gives up waiting with others before
  it, so the proof assumes `Prompt`, under which a waiting launch does not expire
  (`WaitersUnexpired`). The refinement maps `order` to the ticket and `pc` to the place.
- **Containers.** `StopWins` holds even where calls overlap, so it cannot rest on the lock. It
  rests on `StopInv`. A launch is harmless when its next step ends it and starts nothing: it is
  removing what it made, or will find itself cancelled or expired when let in. Every launch that
  is not harmless is the map's entry or one of its blockers (`Covered`): a launch that expires
  in the queue does take the entry out, but deadlines pass in the order of arrival, so the
  launches before it are harmless by then (`DeadlinesInOrder`). Hence the last stop waits for
  all that are not; when it is let in none is left, and what it lists is all that can run
  (`LastStop`). `AcceptedIsOnly` does need the lock and with it `Prompt`: what a launch learned
  from its listing holds at each later step (`LaunchKnows`), since nobody else is inside.
- **Deployment.** `OneActive` and the refinement rest on the type invariant and `LabelsFit`,
  which says what stage a worker's claim has at the labels whose write does not look at the
  stage again: without it such a write could take a row to a stage `DeploymentStages` does not
  allow. `CanaryOnce` needs `CanaryInv`: while a worker may send a deployment's canary no other
  may, none was sent, and the row is marked; where there is no mark none was sent. A lost lease
  does not break it, because the mark and not the lease excludes the successor. `StopIsFinal`
  follows from the guards of each write to `status`. `AgentMirrorsDeployment` is inductive
  together with `IInv`: each write of a deployment's stage writes the agent in the same
  transaction, and `OneActive` says that the row a worker holds is the latest. `ReadyIsVerified`
  comes from `CanaryInv` with `Verified`: an answer is recorded as passed only by the worker
  that sent it, and the rows that are past the canary keep both the answer and the operation.
- **Replacement.** `IInv` joins the types with three facts and `CreatedOnce`. `WorkFits`: what a
  worker is at fits the state it claimed, and while its claim holds the row is in that state.
  `SourceFenced`: from the reassignment on, the source's credential is revoked, and once
  the agents have moved it is not online and has none of them; it holds because a revoked
  credential is never active again, only a heartbeat under an active one puts a runner online,
  and placement needs that. `TargetsFresh`: a target nobody has announced to the provider has
  never been asked for, and a worker that is about to ask announced it; this is what makes
  `CreatedOnce` inductive although the phases are written without the fence. `ServingDropletKept`
  goes through the three places a droplet is deleted: the source's is deleted in `cleaning`,
  where `SourceFenced` leaves it no agents; the orphan sweep clears the assignments first;
  the third, the clean-up of a target that failed, is the exception the property names. The refinement to
  `Relocation` maps a state to a phase and a credential to an authority.
- **Runtime.** `IInv` is the types, `ShownStopped` and `UnverifiedIsUnbilled` with `RowInv` (an
  open circuit is being cleaned up or is; an agent to be stopped is not being recovered),
  `Held` (a worker that has the lease holds the row, the wish, the runner and the number of
  requests as they are) and `Sound` (what it was answered fits what it asked). The lemma
  `OutcomesAllowed` goes through every answer once and says what a worker may write: it is what
  all the theorems use, so that policy is looked at in one place. `FreshEvidence` needs `Held`,
  because generations start again at a handover and comparing them alone proves nothing.
- **Mail.** `IInv` is the types with three facts. `RowOK`: the fields of a row agree with each
  other and with Gmail's side (nothing is asked before an attempt is recorded, no receipt
  without one). `Apart`: an authorization is claimed once, so past the claim an action has one
  run. `RunOK`: what a run has read still holds when it relies on it, which the two locks
  guarantee from `Check` and `Guard` on. `SentOnce` needs all three: a run that is about to
  ask is the only one, and nobody asked before. The refinement maps a row to a stage, and a
  row taken away under a run ("recalled") may still be closed, but not asked for.

Every safety property of the passing runs is proved. Only model-checked are the liveness
properties `PublicationSettles`, `CallsEnd`, both `Settles`, `RunSettles` and `StopCompletes`:
the proof system has no rules for `ENABLED`, so liveness under fairness stays with TLC.
`LockExclusive`, `ServedInOrder` and `AcceptedIsOnly` are proved under `Prompt` only; without it
the run `launches_overlap` refutes `SerializedStarts`, the case of the first that a test states.
No module here declares a recursive operator, and nothing is proved by induction over data.

## Hazards without a property

Some of the hazards in `PROJECT.json` have no property yet; each says why. One of them
stands for three: a delivery that is dropped (it met a row still `publishing`, it came a fraction of
a second early, or its process died between claim and drain) leaves the deployment to the cron.
Answering it needs the outbox and the reconciler in one module. Others are consequences of the
rows a model already has (an agent "stopping" for ever, a target deleted under an agent placed
on it too early), where no document promises otherwise.

## Plan

In this order; each item is a module, its runs and its proofs.

1. `DeploymentDispatch`: outbox and reconciler composed, for the dropped deliveries.
2. The families of `ProposedActions` that policy allows without asking, approvals, and the life
   of a connection against the mail that is sent through it.
3. `RunnerCredentials`, `RunnerPlacement`: one-time registration and rotation, the capacity
   lock, and the owner's own provisioning.
4. `InfrastructureRetirement` with archive and restoration; `AgentCreation`.
5. `Commerce`, `Entitlements`: webhook order, and authority against work under way.
6. `Deletion`, `IdentityRecovery`.
7. Releases, backups, turns, setup sessions, acceptance.
8. Proofs of the safety properties of each new module.

## Not modelled

The components marked **-** in the inventory: launch specifications and readiness evidence are
pure functions whose outcome is a choice in the models; the adapters, the provider's HTTP
mapping and the routes are I/O; events, logs, costs and alerts are append-only; the web
interface renders what the routes answer. Everything marked **P** waits for its turn in the
plan; the founder-facing services other than mail (commerce, privacy, release stages) are the
largest part of the repository that no module covers yet.
